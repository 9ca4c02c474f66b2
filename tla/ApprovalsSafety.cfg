\* Two replicas decide, cancel, expire and escalate one request.
SPECIFICATION Spec
SYMMETRY Symmetry
CONSTANTS
    Rems = {r1}
    Replicas = {p1, p2}
    Actors = {alice, bob}
    AllowSelf = FALSE
    EscalateAfter = 1
    Timeout = 2
    Horizon = 2
INVARIANTS
    ApprovedByAnother
    RequestMatchesRemediation
PROPERTIES
    DecidedOnce
    ImplementsLifecycle

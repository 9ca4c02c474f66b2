\* One replica; crashes between any two steps.
SPECIFICATION FairSpec
CONSTANTS
    Rems = {r1}
    Replicas = {p1}
    Actors = {alice, bob}
    AllowSelf = FALSE
    EscalateAfter = 1
    Timeout = 2
    Horizon = 3
PROPERTIES
    RequestEnds

CONSTANTS
    Rems = {r1}
    Kinds = {"typed", "static", "refused", "unhandled"}
    Workers = {w1, w2}
    MaxDeliver = 2
    MaxAttempts = 2
    MaxRedispatches = 1
    MaxReplays = 0
    MaxDuplicates = 0
SPECIFICATION Spec
SYMMETRY Symmetry
INVARIANTS
    CancelledNeverExecutes
    EffectAtMostOnce
    DryRunNeverApplies
    SuccessMeansApplied
PROPERTIES
    ImplementsLifecycle

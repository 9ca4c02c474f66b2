\* Three handlers; a key has the hash of another key's target, and that one's key
\* the hash of the first one's target.
SPECIFICATION FairSpec
CONSTANTS
    Workers = {w1, w2, w3}
    Keys <- MCKeys
    Targets <- MCTargets
    TargetOf <- MCTargetOf
    Fields <- MCFields
    Values <- MCValues
    Desired <- MCDesired
    Hash <- HashColliding
    None = None
INVARIANTS
    AnswersAgree
    NoWaitCycle
PROPERTIES
    ImplementsStore
    CallEnds

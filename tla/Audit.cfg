\* An old ledger of two rows is chained at the first start; two writers, two
\* verifications and one alteration.
SPECIFICATION FairSpec
CONSTANTS
    e1 = e1
    e2 = e2
    Entries = {e1, e2}
    Legacy <- TwoRows
    Writers = {w1, w2}
    Verifiers = {v1, v2}
    MaxLength = 4
INVARIANTS
    VerdictsRight
    BackfillWhole
PROPERTIES
    NeverRewritten
    AlarmRaised

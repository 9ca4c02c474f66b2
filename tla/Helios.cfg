\* An API call, the reconciler and an operator.  The reconciler keeps running,
\* nothing else is fair.
SPECIFICATION FairSpec
CONSTANTS
    Calls = {c1}
    Reconciler = reconciler
    MaxReservations = 2
    MaxWorkflows = 2
INVARIANT OutcomeTrue
PROPERTIES
    EndIsFinal
    EventuallySettled
CHECK_DEADLOCK FALSE

\* Overlapping calls on one medium-risk action.
SPECIFICATION Spec
SYMMETRY Symmetry
CONSTANTS
    diagnostics = diagnostics
    restart = restart
    Actions = {restart}
    Input <- MCInput
    Calls = {c1, c2}
    MaxRows = 3
INVARIANTS
    StatusIsBacked
    UnapprovedIsLow
    TwoAttempts
PROPERTIES
    ClosedStaysQuiet

\* An ended remediation is proposed again after ten minutes.
SPECIFICATION Spec
CONSTANTS
    diagnostics = diagnostics
    restart = restart
    Actions = {restart}
    Input <- MCInput
    Calls = {c1, c2}
    MaxRows = 3
INVARIANT CanProposeAgain

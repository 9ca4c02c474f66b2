\* All graphs of four services with at most six edges, so all of three, and all
\* alerts on them; all pairs of alerts on an incident and all answers to their
\* probes.
SPECIFICATION Spec
CONSTANTS
    Services = {1, 2, 3, 4}
    MaxEdges = 6
    IncidentService = "root"
    Signals <- AlertKinds
    MaxSignals = 2
INVARIANTS
    PathRight
    GroupsRight
    ReportSupported
PROPERTY EvidenceCounts
CHECK_DEADLOCK FALSE

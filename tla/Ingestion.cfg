\* Two replicas apply deliveries about a service and its dependency.
SPECIFICATION Spec
CONSTANTS
    Services = {1, 2}
    Alerts <- TwoServices
    Ids = {i1, i2}
    Replicas = {r1, r2}
    ManualServices = {2}
    InitialEdges <- NoEdges
    Upserts <- Chain
    Window = 0
    StaleAfter = 1
    MaxTime = 3
    MaxDeliveries = 2
    MaxAlerts = 4
    None = None
SYMMETRY Symmetry
INVARIANTS
    ClearedRight
    AlertsReachRoot
PROPERTIES
    NoSecondIncident
    AlertsAttached
CHECK_DEADLOCK FALSE

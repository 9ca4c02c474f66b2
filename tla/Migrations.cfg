\* Three processes of two builds start, apply, verify and stop in any order.
SPECIFICATION Spec
CONSTANTS
    Processes = {p1, p2, p3}
    Builds <- BuildNames
    Files <- Releases
    Released <- Databases
INVARIANTS
    SchemaRecorded
    PlanCurrent
PROPERTIES
    StartsOnKnownSchema
    RunEnds

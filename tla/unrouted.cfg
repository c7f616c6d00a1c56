SPECIFICATION Spec
CONSTANTS
    NONE = NONE
    Ifaces = {"a"}
    Rels = {"r"}
    Cmds = {"c"}
    Templates = {"A", "A2", "P"}
    Autoscaled = {"A", "A2"}
    Compared <- Compare
    Specs <- LeanSpecs
    InitialInfra <- Nothing
    MaxEdits = 1
    MaxDeletes = 0
    MaxFaults = 0
INVARIANT EventStoreBindingRouted
CHECK_DEADLOCK FALSE

SPECIFICATION ResyncSpec
CONSTANTS
    NONE = NONE
    Ifaces = {"a"}
    Rels = {}
    Cmds = {}
    Templates = {"A", "A2", "P"}
    Autoscaled = {"A", "A2"}
    Compared <- Compare
    Specs <- ServiceSpecs
    InitialInfra <- NoEventStore
    MaxEdits = 3
    MaxDeletes = 0
    MaxFaults = 0
PROPERTIES EventuallyRepaired EventuallyAddressed
CHECK_DEADLOCK FALSE

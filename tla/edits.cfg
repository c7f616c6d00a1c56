SPECIFICATION Spec
CONSTANTS
    NONE = NONE
    Ifaces = {"a"}
    Rels = {"r"}
    Cmds = {"c"}
    Templates = {"A", "A2", "P"}
    Autoscaled = {"A", "A2"}
    Compared <- Compare
    Specs <- AllSpecs
    InitialInfra <- AllReady
    MaxEdits = 3
    MaxDeletes = 0
    MaxFaults = 1
INVARIANTS TypeOK NeverForgotten ServiceUpToDate LabelledWhenSettled
PROPERTIES NoLostEdit LabelledMeansComplete
CHECK_DEADLOCK FALSE

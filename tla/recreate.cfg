SPECIFICATION ResyncSpec
CONSTANTS
    NONE = NONE
    Ifaces = {"a"}
    Rels = {}
    Cmds = {}
    Templates = {"A", "A2", "P"}
    Autoscaled = {"A", "A2"}
    Compared <- Compare
    Specs <- LeanSpecs
    InitialInfra <- AllReady
    MaxEdits = 2
    MaxDeletes = 1
    MaxFaults = 0
INVARIANT NeverForgotten
PROPERTIES LabelledMeansComplete NothingLeftBehind EventuallyRepaired
CHECK_DEADLOCK FALSE

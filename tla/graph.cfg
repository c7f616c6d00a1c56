SPECIFICATION Spec
CONSTANTS
    NONE = NONE
    Interfaces <- ThreeInterfaces
    Lists <- SomeLists
    Updaters = {"u", "w"}
    Handlers = {"h", "i"}
    MaxCalls = 5
    MaxUpdates = 2
INVARIANTS TypeOK NoDanglingEdge PublishedComplete
PROPERTIES IsSimpleGraph ServesSnapshots
CHECK_DEADLOCK FALSE

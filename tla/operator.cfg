SPECIFICATION FairSpec
CONSTANTS
    NONE = NONE
    Ifaces = {"a"}
    Rels = {}
    Cmds = {"c"}
    Templates = {"P"}
    Autoscaled = {}
    Compared <- Compare
    Specs <- WithCommand
    MaxEdits = 1
    MaxFaults = 1
    StoreSpecs <- StorePlain
    MaxStoreFaults = 1
PROPERTIES ImplementsTwinInterface InstallationCompletes LabelledAfterEventStore EventuallyComplete
CHECK_DEADLOCK FALSE

SPECIFICATION ResyncSpec
CONSTANTS
    NONE = NONE
    Stores = {"es"}
    Kind <- KindOfStore
    NameOf <- OwnName
    Specs <- MinimalSpecs
    MaxCreates = 1
    MaxEdits = 0
    MaxDeletes = 0
    MaxFaults = 0
PROPERTY EveryStoreServed
CHECK_DEADLOCK FALSE

SPECIFICATION FairSpec
CONSTANTS
    NONE = NONE
    Stores = {"hds"}
    Kind <- KindOfStore
    NameOf <- OwnName
    Specs <- VariousSpecs
    MaxCreates = 2
    MaxEdits = 1
    MaxDeletes = 1
    MaxFaults = 1
INVARIANTS TypeOK ServedWhenSettled
PROPERTIES EventuallyServed EventuallyRepaired
CHECK_DEADLOCK FALSE

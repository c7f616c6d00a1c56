SPECIFICATION Spec
CONSTANTS
    NONE = NONE
    Stores = {"es", "vi"}
    Kind <- KindOfStore
    NameOf <- SharedName
    Specs <- ResizedSpecs
    MaxCreates = 2
    MaxEdits = 1
    MaxDeletes = 0
    MaxFaults = 0
INVARIANT ServiceOfOne
CHECK_DEADLOCK FALSE

SPECIFICATION Spec
CONSTANTS
    NONE = NONE
    Ifaces <- Interfaces
    Specs <- SomeSpecs
    Lower <- Lowered
    MaxEdits = 3
INVARIANTS TypeOK NothingLost NothingElse
CHECK_DEADLOCK FALSE

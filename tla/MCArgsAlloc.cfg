CONSTANTS
    Programs <- AllPrograms
    Table <- Rows
    Lines <- CommandLines
    Beginnings <- Begun
    Engine = "crunch"
    MaxArm = 13
    NULL = NULL

SPECIFICATION Spec

INVARIANTS
    TypeOK
    NothingFreedTwice
    NothingLeaked

PROPERTY
    ImplementsParser

\* The programs end.
CHECK_DEADLOCK FALSE

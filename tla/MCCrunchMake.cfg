CONSTANTS
    Programs <- AllPrograms
    InC <- CPrograms
    Table <- Rows
    Lines <- CommandLines
    Beginnings <- Begun
    Name <- Names
    Results <- WaitStatus

SPECIFICATION MakeSpec

INVARIANTS
    MakeTypeOK
    ReadsInOrder
    ParamsFit
    TestsAreWords
    FindsTheOption
    BuiltFromItsSource

\* The programs end.
CHECK_DEADLOCK FALSE

CONSTANTS
    Programs <- Make
    InC = {}
    Table <- Rows
    Lines <- CommandLines
    Beginnings <- Begun
    Name <- Names
    Results <- WaitStatus

SPECIFICATION MakeSpec

INVARIANT OneCompleteLibrary

\* The programs end.
CHECK_DEADLOCK FALSE

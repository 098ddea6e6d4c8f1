SPECIFICATION FairSpec
CONSTANTS
    u = u
    s = s
    c = c
    p = p
    q = q
    Name <- MCName
    Absent = Absent
    Contents <- MCContents
    Miscounted <- MCMiscounted
    MaxPaper = 2
    MaxHandlers = 4
CHECK_DEADLOCK FALSE
INVARIANTS
    TypeOK
    IdleIsQuiet
    ExceptionHasCause
    DeleteHasSelection
    AddedIsKept
PROPERTIES
    PaperIsTheList
    

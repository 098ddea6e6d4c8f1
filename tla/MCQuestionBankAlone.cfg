SPECIFICATION Spec
CONSTANTS
    t1 = t1
    t2 = t2
    s1 = s1
    c1 = c1
    q1 = q1
    q2 = q2
    none = none
    NoConn = NoConn
    Placeholder = Placeholder
    Empty = Empty
    Undefined = Undefined
    Conn <- OneWorker
    Key <- QuotedRows
    Val <- MCVal
    NoVal = none
    Refused <- NoNames
    StartTables <- QuotedTables
    Subject <- MCSubject
    Chapter <- MCChapter
    Question <- QuotedQuestion
    Unquotable <- OddQuestion
    MaxEvents = 2
INVARIANTS
    CacheIsStored
    ChapterBelowSubject
    CountMatchesList
PROPERTY
    InsertedIsStored

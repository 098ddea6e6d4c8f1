SPECIFICATION FairSpec
CONSTANTS
    t1 = t1
    t2 = t2
    s1 = s1
    c1 = c1
    q1 = q1
    q2 = q2
    none = none
    NoConn = NoConn
    Placeholder = Placeholder
    Empty = Empty
    Undefined = Undefined
    Conn <- TwoWorkers
    Key <- PlainRows
    Val <- MCVal
    NoVal = none
    Refused <- NoNames
    StartTables <- FreshTable
    Subject <- OneSubject
    Chapter <- MCChapter
    Question <- NoQuestion
    Unquotable <- NoNames
    MaxEvents = 1
PROPERTY
    Answered

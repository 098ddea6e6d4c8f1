SPECIFICATION Spec
CONSTANTS
    t1 = t1
    t2 = t2
    s1 = s1
    c1 = c1
    q1 = q1
    q2 = q2
    none = none
    NoConn = NoConn
    Placeholder = Placeholder
    Empty = Empty
    Undefined = Undefined
    Conn <- TwoWorkers
    Key <- MCRows
    Val <- MCVal
    NoVal = none
    Refused <- NoNames
    StartTables <- MCStartTables
    Subject <- MCSubject
    Chapter <- MCChapter
    Question <- MCQuestion
    Unquotable <- NoNames
    MaxEvents = 1
PROPERTY
    InsertedIsStored

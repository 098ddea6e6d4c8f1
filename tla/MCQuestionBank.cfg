SPECIFICATION Spec
CONSTANTS
    t1 = t1
    t2 = t2
    s1 = s1
    c1 = c1
    q1 = q1
    q2 = q2
    none = none
    NoConn = NoConn
    Placeholder = Placeholder
    Empty = Empty
    Undefined = Undefined
    Conn <- TwoWorkers
    Key <- OneSubjectRows
    Val <- MCVal
    NoVal = none
    Refused <- NoNames
    StartTables <- OneSubjectTables
    Subject <- OneSubject
    Chapter <- MCChapter
    Question <- MCQuestionP
    Unquotable <- NoNames
    MaxEvents = 1
SYMMETRY Symmetry
INVARIANTS
    TypeOK
    ChapterUnderCreatedSubject
    CachedChapterHasCachedSubject
PROPERTIES
    RowLeavesByDelete
    

SPECIFICATION Spec
CONSTANTS
    t1 = t1
    t2 = t2
    f1 = f1
    f2 = f2
    a = a
    b = b
    p1 = p1
    p2 = p2
    boss = boss
    none = none
    NoConn = NoConn
    NoFd = NoFd
    Empty = Empty
    Unbound = Unbound
    Admin = Admin
    RuleMaker = RuleMaker
    Teacher = Teacher
    NoVal = none
    Typed <- MCTyped
    Key <- MCKey
    Unquotable <- Quote
    Conn <- OneWorker
    Fd <- TwoDevices
    Password <- OnePassword
    Identity <- AllIdentities
    BadIdentity <- MCBad
    Val <- Val3
    Refused <- Refused3
    StartTables <- WithRuleMaker
    Sent <- Commands
    Unparsed <- Nothing
    MaxRequests = 4
INVARIANTS
    TypeOK
    SessionIsConsistent
    NeverTerminated

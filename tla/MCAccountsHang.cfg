SPECIFICATION FairSpec
CONSTANTS
    t1 = t1
    t2 = t2
    f1 = f1
    f2 = f2
    a = a
    b = b
    p1 = p1
    p2 = p2
    boss = boss
    none = none
    NoConn = NoConn
    NoFd = NoFd
    Empty = Empty
    Unbound = Unbound
    Admin = Admin
    RuleMaker = RuleMaker
    Teacher = Teacher
    NoVal = none
    Typed <- MCTyped
    Key <- MCKey
    Unquotable <- Nothing
    Conn <- OneWorker
    Fd <- TwoDevices
    Password <- OnePassword
    Identity <- TwoIdentities
    BadIdentity <- Nothing
    Val <- Val1
    Refused <- Nothing
    StartTables <- TwoAccounts
    Sent <- Commands
    Unparsed <- OnePassword
    MaxRequests = 4
PROPERTY
    RequestAnswered

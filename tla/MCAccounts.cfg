SPECIFICATION Spec
CONSTANTS
    t1 = t1
    t2 = t2
    f1 = f1
    f2 = f2
    a = a
    b = b
    p1 = p1
    p2 = p2
    boss = boss
    none = none
    NoConn = NoConn
    NoFd = NoFd
    Empty = Empty
    Unbound = Unbound
    Admin = Admin
    RuleMaker = RuleMaker
    Teacher = Teacher
    NoVal = none
    Typed <- OneName
    Key <- OneKey
    Unquotable <- Nothing
    Conn <- TwoWorkers
    Fd <- TwoDevices
    Password <- OnePassword
    Identity <- TwoIdentities
    BadIdentity <- Nothing
    Val <- Val1
    Refused <- Nothing
    StartTables <- OneAccount
    Sent <- NoReads
    Unparsed <- Nothing
    MaxRequests = 4
SYMMETRY Symmetry
INVARIANT
    BoundIdentityExists
PROPERTIES
    
    DeletedUserIsGone

SPECIFICATION SqlSpec
CONSTANTS
    c1 = c1
    c2 = c2
    k1 = k1
    k2 = k2
    v1 = v1
    v2 = v2
    bad = bad
    none = none
    NoConn = NoConn
    Conn <- MCConn
    Key <- MCKey
    Val <- MCVal
    NoVal = none
    Refused <- MCRefused
    StartTables <- MCStartTables
SYMMETRY Symmetry
INVARIANTS
    SqlTypeOK
    PendingOnlyAfterFailedInsert
    NoUncommittedRow
PROPERTIES
    LockProtects
    FailedRowSticks
    ImplementsStore

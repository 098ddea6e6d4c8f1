SPECIFICATION Spec
CONSTANTS
    one = one
    two = two
    three = three
    Client <- MCClient
    Nobody = Nobody
    Fd <- MCFd
    Master = 3
    EventsSize = 3
    MaxConcurrency = 2
    Commands <- MCCommands
    MaxRequests = 2
    MaxLeaves = 2
SYMMETRY Symmetry
CHECK_DEADLOCK FALSE
INVARIANTS
    TypeOK
    HandledForSender
    StuckOnlyAfterCrowd
    SurplusOnlyAfterCrowd
    
PROPERTIES
    ClosesOnlyTheGone

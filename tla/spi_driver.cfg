CONSTANTS
    NumElements = 3
    NumQueues = 2
    FifoSize = 2
    MaxJobs = 2
    Reserve = 1
    Sizes = {0, 3}
    Shapes <- MCShapes
    BlockingSizes = {3}
    OtherSetups <- MCOtherSetups
SPECIFICATION Spec
INVARIANTS TypeOK NothingLost PoolWhole ReservationsHonoured
PROPERTY ImplementsJobs

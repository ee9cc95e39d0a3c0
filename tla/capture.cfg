SPECIFICATION Spec
CONSTANTS
    S = 4
    FifoDepth = 2
    LostMax = 1
    CounterMod = 4
    MaxEdges = 7
    HistoryMax = 0
INVARIANT TypeOK
INVARIANT RingHoldsLatest
INVARIANT DeltaIsLatestPeriod
INVARIANT CapturesInOrder

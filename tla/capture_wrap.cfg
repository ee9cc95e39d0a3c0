SPECIFICATION Spec
CONSTANTS
    S = 3
    FifoDepth = 2
    LostMax = 2
    CounterMod = 8
    MaxEdges = 2
    HistoryMax = 10
INVARIANT LossShowsZero

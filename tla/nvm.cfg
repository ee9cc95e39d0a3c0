SPECIFICATION Spec
CONSTANTS
    NumBuffers = 3
    TokenMax = 2
    Rows = 4
    RowsPerPage = 2
    Word = 8
    Requests <- MCRequests
INVARIANT TypeOK
INVARIANT NoBufferLeaks
INVARIANT UnfinishedNotCompleted
PROPERTY ImplementsContract
PROPERTY RequestsComplete

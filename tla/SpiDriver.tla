----------------------------- MODULE SpiDriver -----------------------------
(***************************************************************************)
(* drv_spi_static*.c: the polled SPI driver.  A client adds a job (an      *)
(* element of the pool of SpiQueue), DRV_SPI0_Tasks moves the symbols of   *)
(* one job at a time between the client's buffers and the two FIFOs of the *)
(* SPI module, and calls the client back when the job is complete.         *)
(*                                                                         *)
(* The processor is in client code or at a place in DRV_SPI0_Tasks; the    *)
(* SPI module shifts symbols between any two of its steps.  The pool has a *)
(* second client, which creates and destroys a queue of its own: that is   *)
(* how the manager is meant to be shared by several driver instances.      *)
(*                                                                         *)
(* A symbol of the driver is the number of a data symbol of the job, or 0  *)
(* for a dummy; an answer is the number of the symbol it answers.          *)
(*                                                                         *)
(* History variables: `asked`, the sizes of each job; `clocked`, the       *)
(* symbols that left the module since the job was started; `done`, the job *)
(* the client is being called back for.                                    *)
(*                                                                         *)
(* Operators whose name has a suffix after the name of the one that        *)
(* follows them are deliberate faults: they are in no specification.       *)
(***************************************************************************)
EXTENDS SpiQueue

CONSTANTS
    FifoSize,       \* PLIB_SPI_TX_8BIT_FIFO_SIZE, 16
    MaxJobs,        \* maxElements of the driver's queue, 10
    Reserve,        \* its reserveElements, 1
    Sizes,          \* bound of the model: sizes of the reads and writes
    Shapes,         \* the <<tx, rx>> sizes of the write-reads
    BlockingSizes,  \* the sizes of the exchanges of DRV_SPI0_BufferAddWriteRead
    OtherSetups     \* the [reserve, max] of the second client's queue

ASSUME SpiDriverAssumption ==
    /\ NumQueues >= 2
    /\ FifoSize \in Nat \ {0}
    /\ Reserve \in 0 .. NumElements
    /\ MaxJobs \in Reserve .. NumElements
    /\ MaxJobs > 0
    /\ Sizes \subseteq Nat
    /\ Shapes \subseteq Nat \X Nat
    /\ BlockingSizes \subseteq Nat \ {0}
    /\ OtherSetups \subseteq [reserve : 0 .. NumElements, max : 1 .. NumElements]

VARIABLES
    mem,        \* sDrvSPIQueueArea, the links
    job,        \* and the DRV_SPI_JOB_OBJECT in each element
    pc,         \* where the processor is
    currentJob, symbolsInProgress,          \* gDrvSPI0Obj
    tx, shift, rx, overflow,                \* the SPI module
    blocking,   \* the exchange of DRV_SPI0_BufferAddWriteRead under way
    received,   \* the rxBuffer of each job
    other,      \* the second client: does it have a queue, what it holds
    asked, clocked, done

poolVars   == <<mem, job, asked, other>>
driverVars == <<pc, currentJob, symbolsInProgress>>
moduleVars == <<tx, shift, rx, overflow>>
vars == <<poolVars, driverVars, moduleVars, blocking, received, clocked, done>>

Q      == 1                                 \* the driver's queue: the first
OtherQ == 2
Open   == IF other.open THEN {Q, OtherQ} ELSE {Q}
Held   == [q \in Queues |->
             IF q = Q THEN {currentJob} \ {NULL}
             ELSE IF q = OtherQ THEN other.held ELSE {}]

Statuses == {"NONE", "PENDING", "PROCESSING", "COMPLETE", "ERROR"}

JobObject == [dataTxed : Nat, dataRxed : Nat,
              dataLeftToTx : Nat, dummyLeftToTx : Nat,
              dataLeftToRx : Nat, dummyLeftToRx : Nat,
              status : Statuses]

BlankJob == [dataTxed |-> 0, dataRxed |-> 0, dataLeftToTx |-> 0,
             dummyLeftToTx |-> 0, dataLeftToRx |-> 0, dummyLeftToRx |-> 0,
             status |-> "NONE"]

\* In the clients' code, in the steps of DRV_SPI0_Tasks, in the error path and
\* at the use of currentJob that follows it, in the blocking exchange, or in
\* the loop of DRV_SPI_SYS_QUEUE_DestroyQueue.
Places == {"client", "send", "error", "receive", "callback", "free",
           "errorCallback", "errorFree", "stale", "fill", "drain", "destroy"}

NoneDone     == [id |-> 0, sent |-> <<>>, got |-> <<>>]
NothingAsked == [tx |-> 0, rx |-> 0]
NoExchange   == [size |-> 0, sent |-> 0, read |-> 0]

TypeOK == /\ mem \in Area
          /\ job \in [Elements -> JobObject]
          /\ pc \in Places
          /\ currentJob \in Elements \cup {NULL}
          /\ symbolsInProgress \in 0 .. FifoSize
          /\ tx \in Seq(Nat) /\ shift \in Seq(Nat) /\ rx \in Seq(Nat)
          /\ overflow \in BOOLEAN
          /\ blocking \in [size : Nat, sent : Nat, read : Nat]
          /\ received \in [Elements -> Seq(Nat)]
          /\ other \in [open : BOOLEAN, held : SUBSET Elements]
          /\ asked \in [Elements -> [tx : Nat, rx : Nat]]
          /\ clocked \in Seq(Nat)

\* DRV_SPI0_Initialize: the pool, then the driver's queue.
Init == /\ mem = Created(Initialized, Reserve, MaxJobs)
        /\ job = [e \in Elements |-> BlankJob]
        /\ pc = "client"
        /\ currentJob = NULL
        /\ symbolsInProgress = 0
        /\ tx = <<>> /\ shift = <<>> /\ rx = <<>> /\ overflow = FALSE
        /\ blocking = NoExchange
        /\ received = [e \in Elements |-> <<>>]
        /\ other = [open |-> FALSE, held |-> {}]
        /\ asked = [e \in Elements |-> NothingAsked]
        /\ clocked = <<>>
        /\ done = NoneDone

AtMost(a, b) == IF b < a THEN b ELSE a      \* MIN
AtLeast(a, b) == IF a < b THEN b ELSE a     \* MAX
----------------------------------------------------------------------------
\* The clients' calls: from their own code or from a completion callback.

\* DRV_SPI0_BufferAddRead2, DRV_SPI0_BufferAddWrite2 and
\* DRV_SPI0_BufferAddWriteRead2: what they write into the job.
ReadJob(n) == [BlankJob EXCEPT !.dataLeftToRx = n, !.dummyLeftToTx = n,
                               !.status = "PENDING"]
WriteJob(n) == [BlankJob EXCEPT !.dataLeftToTx = n, !.dummyLeftToRx = n,
                                !.status = "PENDING"]
WriteReadJob_NoDummies(t, r) ==
    [BlankJob EXCEPT !.dataLeftToTx = t, !.dataLeftToRx = r,
                     !.dummyLeftToTx = IF r > t THEN r - t ELSE 0,
                     !.status = "PENDING"]
WriteReadJob(t, r) ==
    [BlankJob EXCEPT !.dataLeftToTx = t,
                     !.dataLeftToRx = r,
                     !.dummyLeftToTx = IF r > t THEN r - t ELSE 0,
                     !.dummyLeftToRx = IF t > r THEN t - r ELSE 0,
                     !.status = "PENDING"]

\* They return NULL and change nothing when no element can be had.
Add(j, t, r) ==
    /\ pc \in {"client", "callback", "errorCallback"}
    /\ CanAlloc(mem, Q)
    /\ LET e == mem.pFreeHead
       IN /\ mem' = Enqueued(Allocated(mem, Q), Q, e)
          /\ job' = [job EXCEPT ![e] = j]
          /\ asked' = [asked EXCEPT ![e] = [tx |-> t, rx |-> r]]
          /\ received' = [received EXCEPT ![e] = <<>>]
    /\ UNCHANGED <<other, driverVars, moduleVars, blocking, clocked, done>>

BufferAddRead2      == \E n \in Sizes : Add(ReadJob(n), 0, n)
BufferAddWrite2     == \E n \in Sizes : Add(WriteJob(n), n, 0)
BufferAddWriteRead2 ==
    \E s \in Shapes : Add(WriteReadJob(s[1], s[2]), s[1], s[2])

\* The calls that want no job handle, and the status of a job.
BufferAddRead  == BufferAddRead2
BufferAddWrite == BufferAddWrite2

BufferStatus(e) == job[e].status

\* The second client of the pool.  It frees and enqueues what it holds, and
\* destroys its queue when it holds nothing.
OtherStep == /\ pc = "client"
             /\ UNCHANGED <<job, asked, driverVars, moduleVars, blocking,
                            received, clocked, done>>

Other_Create(s) == /\ OtherStep
                   /\ ~other.open
                   /\ CanCreate(mem, s.reserve)
                   /\ mem' = Created(mem, s.reserve, s.max)
                   /\ other' = [other EXCEPT !.open = TRUE]

Other_Alloc == /\ OtherStep
               /\ other.open
               /\ CanAlloc(mem, OtherQ)
               /\ mem' = Allocated(mem, OtherQ)
               /\ other' = [other EXCEPT !.held = @ \cup {mem.pFreeHead}]

Other_Enqueue(e) == /\ OtherStep
                    /\ e \in other.held
                    /\ mem' = Enqueued(mem, OtherQ, e)
                    /\ other' = [other EXCEPT !.held = @ \ {e}]

Other_Dequeue == /\ OtherStep
                 /\ other.open
                 /\ ~IsEmpty(mem, OtherQ)
                 /\ mem' = Dequeued(mem, OtherQ)
                 /\ other' = [other EXCEPT !.held =
                                @ \cup {mem.queue[OtherQ].pHead}]

Other_Free(e) == /\ OtherStep
                 /\ e \in other.held
                 /\ mem' = Freed(mem, OtherQ, e)
                 /\ other' = [other EXCEPT !.held = @ \ {e}]

Other_Destroy == /\ pc = "client"
                 /\ other.open
                 /\ other.held = {}
                 /\ pc' = "destroy"
                 /\ UNCHANGED <<poolVars, currentJob, symbolsInProgress,
                                moduleVars, blocking, received, clocked, done>>

Destroy_Loop ==
    /\ pc = "destroy"
    /\ IF IsEmpty(mem, OtherQ)
       THEN /\ mem' = Destroyed(mem, OtherQ)
            /\ other' = [other EXCEPT !.open = FALSE]
            /\ pc' = "client"
       ELSE mem' = Drained(mem, OtherQ) /\ UNCHANGED <<other, pc>>
    /\ UNCHANGED <<job, asked, currentJob, symbolsInProgress, moduleVars,
                   blocking, received, clocked, done>>

OtherClient == \/ \E s \in OtherSetups : Other_Create(s)
               \/ Other_Alloc
               \/ \E e \in Elements : Other_Enqueue(e) \/ Other_Free(e)
               \/ Other_Dequeue
               \/ Other_Destroy \/ Destroy_Loop
----------------------------------------------------------------------------
\* DRV_SPI0_Tasks: one pass of DRV_SPI0_PolledMasterEBM8BitTasks.

\* No job is in progress: the next one of the queue.
Tasks_Start ==
    /\ pc = "client"
    /\ currentJob = NULL
    /\ ~IsEmpty(mem, Q)
    /\ mem' = Dequeued(mem, Q)
    /\ currentJob' = mem.queue[Q].pHead
    /\ symbolsInProgress' = 0
    /\ job' = [job EXCEPT ![currentJob'].status = "PROCESSING"]
    /\ rx' = <<>>                           \* PLIB_SPI_BufferClear
    /\ pc' = "send"
    /\ UNCHANGED <<other, asked, tx, shift, overflow, blocking, received,
                   clocked, done>>

Tasks_Continue == /\ pc = "client"
                  /\ currentJob # NULL
                  /\ pc' = "send"
                  /\ UNCHANGED <<poolVars, currentJob, symbolsInProgress,
                                 moduleVars, blocking, received, clocked, done>>

\* DRV_SPI0_MasterEBMSend8BitPolled: data then dummies, as many as there is
\* room for when what was sent and not received yet is counted as well.
InTransit_FifoOnly == Len(tx)
InTransit == AtLeast(symbolsInProgress, Len(tx))

Tasks_Send ==
    /\ pc = "send"
    /\ LET j     == job[currentJob]
           room  == FifoSize - InTransit
           data  == AtMost(j.dataLeftToTx, room)
           dummy == AtMost(j.dummyLeftToTx, room - data)
       IN /\ tx' = tx \o [n \in 1 .. data |-> j.dataTxed + n]
                      \o [n \in 1 .. dummy |-> 0]
          /\ job' = [job EXCEPT ![currentJob].dataLeftToTx = @ - data,
                                ![currentJob].dummyLeftToTx = @ - dummy,
                                ![currentJob].dataTxed = @ + data]
          /\ symbolsInProgress' = symbolsInProgress + data + dummy
    /\ pc' = "error"
    /\ UNCHANGED <<mem, asked, other, currentJob, shift, rx, overflow,
                   blocking, received, clocked, done>>

\* DRV_SPI0_PolledErrorTasks: after an overflow the client and the owner of the
\* driver are called back with the job in error.
Tasks_Error ==
    /\ pc = "error"
    /\ IF overflow
       THEN /\ job' = [job EXCEPT ![currentJob].status = "ERROR"]
            /\ pc' = "errorCallback"
       ELSE pc' = "receive" /\ UNCHANGED job
    /\ UNCHANGED <<mem, asked, other, currentJob, symbolsInProgress,
                   moduleVars, blocking, received, clocked, done>>

\* DRV_SPI0_MasterEBMReceive8BitPolled: data then dummies, as many as the
\* receive FIFO holds.  When nothing is left to receive the job is complete.
LeftToReceive_IgnoresDummies(j) == j.dataLeftToRx
LeftToReceive(j) == j.dataLeftToRx + j.dummyLeftToRx

Tasks_Receive ==
    /\ pc = "receive"
    /\ LET j     == job[currentJob]
           data  == AtMost(j.dataLeftToRx, Len(rx))
           dummy == AtMost(j.dummyLeftToRx, Len(rx) - data)
           k     == [j EXCEPT !.dataLeftToRx = @ - data,
                              !.dummyLeftToRx = @ - dummy,
                              !.dataRxed = @ + data]
           ends  == LeftToReceive(k) = 0
       IN /\ received' = [received EXCEPT ![currentJob] =
                            @ \o SubSeq(rx, 1, data)]
          /\ rx' = SubSeq(rx, data + dummy + 1, Len(rx))
          /\ symbolsInProgress' = symbolsInProgress - (data + dummy)
          /\ job' = [job EXCEPT ![currentJob] =
                       IF ends THEN [k EXCEPT !.status = "COMPLETE"] ELSE k]
          /\ pc' = IF ends THEN "callback" ELSE "client"
          /\ done' = IF ends THEN [id |-> currentJob, sent |-> clocked,
                                   got |-> received'[currentJob]]
                     ELSE done
    /\ UNCHANGED <<mem, asked, other, currentJob, tx, shift, overflow,
                   blocking, clocked>>

\* The callbacks return and the job goes back to the pool.  What is left in a
\* free element is not kept: the next user of the element overwrites it.  The
\* error path also clears the receiver; the rest of the pass then follows
\* currentJob, which is NULL by then: what it does is undefined, and no step
\* leaves "stale".  NothingLost says that the path is never taken.
Tasks_Return == /\ pc \in {"callback", "errorCallback"}
                /\ pc' = IF pc = "callback" THEN "free" ELSE "errorFree"
                /\ done' = NoneDone
                /\ UNCHANGED <<poolVars, currentJob, symbolsInProgress,
                               moduleVars, blocking, received, clocked>>

Tasks_Free == /\ pc \in {"free", "errorFree"}
              /\ mem' = Freed(mem, Q, currentJob)
              /\ job' = [job EXCEPT ![currentJob] = BlankJob]
              /\ asked' = [asked EXCEPT ![currentJob] = NothingAsked]
              /\ received' = [received EXCEPT ![currentJob] = <<>>]
              /\ clocked' = <<>>
              /\ currentJob' = NULL
              /\ IF pc = "free"
                 THEN pc' = "client" /\ UNCHANGED <<rx, overflow>>
                 ELSE pc' = "stale" /\ rx' = <<>> /\ overflow' = FALSE
              /\ UNCHANGED <<other, symbolsInProgress, tx, shift, blocking,
                             done>>

DRV_SPI0_Tasks == \/ Tasks_Start \/ Tasks_Continue \/ Tasks_Send
                  \/ Tasks_Error \/ Tasks_Receive \/ Tasks_Return \/ Tasks_Free
----------------------------------------------------------------------------
\* DRV_SPI0_BufferAddWriteRead, the blocking exchange of the old driver: it
\* uses the module directly.  The model calls it between two jobs only: the code
\* has no such guard, and during a job it would take the job's answers.
Blocking_Start(n) ==
    /\ pc = "client"
    /\ currentJob = NULL
    /\ pc' = "fill"
    /\ blocking' = [size |-> n, sent |-> 0, read |-> 0]
    /\ UNCHANGED <<poolVars, currentJob, symbolsInProgress, moduleVars,
                   received, clocked, done>>

\* As many symbols as the empty transmit FIFO takes; it returns when there is
\* none.
Blocking_Fill ==
    /\ pc = "fill"
    /\ LET left  == blocking.size - blocking.sent
           units == IF tx = <<>> THEN AtMost(left, FifoSize) ELSE 0
           ends  == units = 0 /\ blocking.sent = blocking.read
       IN /\ tx' = tx \o [n \in 1 .. units |-> blocking.sent + n]
          /\ blocking' = IF ends THEN NoExchange
                         ELSE [blocking EXCEPT !.sent = @ + units]
          /\ clocked' = IF ends THEN <<>> ELSE clocked
          /\ pc' = IF ends THEN "client" ELSE "drain"
    /\ UNCHANGED <<poolVars, currentJob, symbolsInProgress, shift, rx,
                   overflow, received, done>>

\* It waits for the answer of each of them.
Blocking_Drain ==
    /\ pc = "drain"
    /\ IF blocking.sent = blocking.read
       THEN pc' = "fill" /\ UNCHANGED <<blocking, rx>>
       ELSE /\ rx # <<>>
            /\ rx' = Tail(rx)
            /\ blocking' = [blocking EXCEPT !.read = @ + 1]
            /\ UNCHANGED pc
    /\ UNCHANGED <<poolVars, currentJob, symbolsInProgress, tx, shift,
                   overflow, received, clocked, done>>

BufferAddWriteRead == Blocking_Fill \/ Blocking_Drain
----------------------------------------------------------------------------
\* drv_spi_mapping.c: the calls by handle.  One of another instance than 0
\* answers that the handle is invalid and does nothing; Open gives an invalid
\* handle for another index.
Invalid == 65535
DRV_SPI_Open(index) == IF index = 0 THEN 0 ELSE Invalid
IsInstance0(h)      == h % 256 = 0

DRV_SPI_Tasks(object)           == object = 0 /\ DRV_SPI0_Tasks
DRV_SPI_BufferAddRead(h)        == IsInstance0(h) /\ BufferAddRead
DRV_SPI_BufferAddWrite(h)       == IsInstance0(h) /\ BufferAddWrite
DRV_SPI_BufferAddRead2(h)       == IsInstance0(h) /\ BufferAddRead2
DRV_SPI_BufferAddWrite2(h)      == IsInstance0(h) /\ BufferAddWrite2
DRV_SPI_BufferAddWriteRead2(h)  == IsInstance0(h) /\ BufferAddWriteRead2

\* It calls the blocking exchange of the old driver, not a job.
DRV_SPI_BufferAddWriteRead(h) ==
    IsInstance0(h) /\ \E n \in BlockingSizes : Blocking_Start(n)
----------------------------------------------------------------------------
\* The SPI module: it shifts a symbol out and the answer in; an answer for
\* which the receive FIFO has no room is an overflow.
Module_ShiftStarts == /\ tx # <<>> /\ shift = <<>>
                      /\ shift' = <<Head(tx)>>
                      /\ tx' = Tail(tx)
                      /\ UNCHANGED <<poolVars, driverVars, rx, overflow,
                                     blocking, received, clocked, done>>

Module_ShiftEnds ==
    /\ shift # <<>>
    /\ shift' = <<>>
    /\ clocked' = clocked \o shift
    /\ IF Len(rx) < FifoSize
       THEN rx' = Append(rx, Len(clocked')) /\ UNCHANGED overflow
       ELSE overflow' = TRUE /\ UNCHANGED rx
    /\ UNCHANGED <<poolVars, driverVars, tx, blocking, received, done>>

Module == Module_ShiftStarts \/ Module_ShiftEnds

Client == \E index \in {0, 1} :
    LET h == DRV_SPI_Open(index)
    IN \/ DRV_SPI_BufferAddRead(h)  \/ DRV_SPI_BufferAddWrite(h)
       \/ DRV_SPI_BufferAddRead2(h) \/ DRV_SPI_BufferAddWrite2(h)
       \/ DRV_SPI_BufferAddWriteRead2(h) \/ DRV_SPI_BufferAddWriteRead(h)

Next == \/ Client \/ OtherClient \/ DRV_SPI_Tasks(0) \/ BufferAddWriteRead
        \/ Module

\* The main loop calls DRV_SPI0_Tasks on every turn, whatever its other tasks
\* do in between; a call that is under way goes on, and so does the module.
Fairness == /\ SF_vars(DRV_SPI_Tasks(0))
            /\ WF_vars(BufferAddWriteRead \/ Destroy_Loop)
            /\ WF_vars(Module)

Spec == Init /\ [][Next]_vars /\ Fairness
----------------------------------------------------------------------------
\* The driver's queue is filled to the receive FIFO's size and never past it:
\* symbolsInProgress counts exactly what is in the module, so that no answer
\* is lost (drv_spi_static_ebm_tasks.c, the 16-symbol FIFOs) and the error
\* path, which goes on with a job it has freed, is not reached; a blocking
\* exchange, called between two jobs, finds and leaves the module empty.  A
\* job in progress has exactly one answer to come for every symbol it still
\* has to send or has in the module: the dummies of DRV_SPI0_BufferAdd* make
\* both sides equal.
InModule == Len(tx) + Len(shift) + Len(rx)

NothingLost ==
    /\ ~overflow
    /\ pc \notin {"errorCallback", "errorFree", "stale"}
    /\ InModule <= FifoSize
    /\ currentJob # NULL => symbolsInProgress = InModule
    /\ currentJob # NULL /\ pc # "callback" =>
         LET j == job[currentJob]
         IN j.dataLeftToTx + j.dummyLeftToTx + InModule = LeftToReceive(j)
    /\ LET waiting == Contents(mem, Q)
       IN /\ \A n \in DOMAIN waiting : BufferStatus(waiting[n]) = "PENDING"
          /\ Peek(mem, Q) = IF waiting = <<>> THEN NoElement ELSE waiting[1]
    /\ currentJob # NULL =>
         BufferStatus(currentJob) = IF pc \in {"callback", "free"} THEN "COMPLETE"
                                    ELSE "PROCESSING"
    /\ currentJob = NULL =>
         /\ InModule = blocking.sent - blocking.read
         /\ rx = [n \in DOMAIN rx |-> blocking.read + n]

\* Whatever both clients do, every element of the pool is in exactly one
\* place, and the counters count (drv_spi_static_sys_queue.c).
PoolWhole == PoolIsWhole(mem, Open, Held)

\* Reservations hold: the pool's counter is what the queues may still claim,
\* and a queue that has less than it reserved, and not its maximum, can take
\* an element (the comment of DRV_SPI_SYS_QUEUE_AllocElement).
Unclaimed == Claim(mem, Q) + IF other.open THEN Claim(mem, OtherQ) ELSE 0

ReservationsHonoured ==
    /\ mem.numReserve = Unclaimed
    /\ mem.numReserve <= mem.numFree
    /\ \A q \in Open :
         BelowReserve(mem, q) /\ mem.queue[q].numAlloc # mem.queue[q].maxElements
             => CanAlloc(mem, q)

\* The driver does what SpiJobs promises: the jobs are done in order, each
\* exactly once, each with its own symbols and answers, and all of them.
AsAsked(e) == [id |-> e, tx |-> asked[e].tx, rx |-> asked[e].rx]

Waiting == LET c == Contents(mem, Q) IN [n \in DOMAIN c |-> AsAsked(c[n])]

InProgress == IF currentJob # NULL /\ pc \notin {"callback", "free"}
              THEN <<AsAsked(currentJob)>> ELSE <<>>

Jobs == INSTANCE SpiJobs
        WITH jobs <- InProgress \o Waiting,
             Handles <- Elements,
             Requests <- Shapes \cup (Sizes \X {0}) \cup ({0} \X Sizes)

ImplementsJobs == Jobs!Spec
=============================================================================

------------------------------ MODULE SpiQueue ------------------------------
(***************************************************************************)
(* drv_spi_static_sys_queue.c: a pool of elements shared by several        *)
(* queues, in one area of memory.  A client takes an element (alloc),      *)
(* fills it, enqueues it; later it is dequeued and given back (free).  A   *)
(* queue may reserve elements: the pool keeps them for it, whatever the    *)
(* other queues take.                                                      *)
(*                                                                         *)
(* `m` is the content of that area: the links of the elements and of the   *)
(* queues, the manager and the queues' records, with the fields of the     *)
(* source.  Each operator is the area after a successful call; the         *)
(* conditions under which the code refuses are operators of their own.     *)
(* The counters of _SPI_DRV_SYS_QUEUE_TRACKING are left out, and so are    *)
(* the *Lock functions' locks: fptrIntChange is NULL and the manager's     *)
(* lock is empty.                                                          *)
(*                                                                         *)
(* Operators whose name has a suffix after the name of the one that        *)
(* follows them are deliberate faults: they are in no specification.       *)
(***************************************************************************)
EXTENDS Naturals, Sequences, FiniteSetsExt

CONSTANTS
    NumElements,    \* elements that fit in the area
    NumQueues       \* numQueues of the manager's set-up

ASSUME SpiQueueAssumption ==
    /\ NumElements \in Nat \ {0}
    /\ NumQueues \in Nat \ {0}

NULL     == 0
Elements == 1 .. NumElements
Queues   == 1 .. NumQueues

Queue == [pNext       : Queues \cup {NULL},
          pHead       : Elements \cup {NULL},
          pTail       : Elements \cup {NULL},
          numAlloc    : 0 .. NumElements,
          numReserved : 0 .. NumElements,
          maxElements : 0 .. NumElements]

Area == [pNext       : [Elements -> Elements \cup {NULL}],
         pFreeHead   : Elements \cup {NULL},
         pFreeTail   : Elements \cup {NULL},
         numFree     : 0 .. NumElements,
         numReserve  : 0 .. NumElements,
         pFreeQueueHead : Queues \cup {NULL},
         pFreeQueueTail : Queues \cup {NULL},
         queue       : [Queues -> Queue]]

BlankQueue == [pNext |-> NULL, pHead |-> NULL, pTail |-> NULL,
               numAlloc |-> 0, numReserved |-> 0, maxElements |-> 0]

\* DRV_SPI_SYS_QUEUE_Initialize: all elements and all queues are free, linked
\* in the order of their addresses.
Initialized ==
    [pNext |-> [e \in Elements |-> IF e < NumElements THEN e + 1 ELSE NULL],
     pFreeHead |-> 1, pFreeTail |-> NumElements,
     numFree |-> NumElements, numReserve |-> 0,
     pFreeQueueHead |-> 1, pFreeQueueTail |-> NumQueues,
     queue |-> [q \in Queues |->
                  [BlankQueue EXCEPT !.pNext = IF q < NumQueues THEN q + 1
                                               ELSE NULL]]]

\* Every operation refuses a queue that is linked in the free list.
IsValid(m, q) == m.queue[q].pNext = NULL
----------------------------------------------------------------------------
\* DRV_SPI_SYS_QUEUE_CreateQueue: the first free queue.
CanCreate(m, reserve) == /\ m.pFreeQueueHead # NULL
                         /\ m.numReserve + reserve <= m.numFree

Created(m, reserve, max) ==
    LET q == m.pFreeQueueHead
        h == m.queue[q].pNext
    IN [m EXCEPT !.pFreeQueueHead = h,
                 !.pFreeQueueTail = IF h = NULL THEN NULL ELSE @,
                 !.queue[q] = [BlankQueue EXCEPT !.numReserved = reserve,
                                                 !.maxElements = max],
                 !.numReserve = @ + reserve]

\* DRV_SPI_SYS_QUEUE_AllocElement: the first free element, unless the queue
\* has its maximum, or is past its reservation and what is free is reserved.
BelowReserve(m, q) == m.queue[q].numAlloc < m.queue[q].numReserved

CanAlloc(m, q) == /\ IsValid(m, q)
                  /\ m.pFreeHead # NULL
                  /\ m.queue[q].numAlloc # m.queue[q].maxElements
                  /\ BelowReserve(m, q) \/ m.numFree # m.numReserve

Allocated(m, q) ==
    LET e == m.pFreeHead
        h == m.pNext[e]
    IN [m EXCEPT !.numReserve = IF BelowReserve(m, q) THEN @ - 1 ELSE @,
                 !.pFreeHead = h,
                 !.pFreeTail = IF h = NULL THEN NULL ELSE @,
                 !.pNext[e] = NULL,
                 !.numFree = @ - 1,
                 !.queue[q].numAlloc = @ + 1]

\* DRV_SPI_SYS_QUEUE_FreeElement: at the end of the free list.
Freed_AlwaysReserves(m, q, e) ==
    [m EXCEPT !.pFreeHead = IF @ = NULL THEN e ELSE @,
              !.pNext = IF m.pFreeHead = NULL THEN @
                        ELSE [@ EXCEPT ![m.pFreeTail] = e],
              !.pFreeTail = e, !.numFree = @ + 1,
              !.queue[q].numAlloc = @ - 1,
              !.numReserve = IF m.queue[q].numAlloc <= m.queue[q].numReserved + 1
                             THEN @ + 1 ELSE @]
Freed(m, q, e) ==
    [m EXCEPT !.pFreeHead = IF @ = NULL THEN e ELSE @,
              !.pNext = IF m.pFreeHead = NULL THEN @
                        ELSE [@ EXCEPT ![m.pFreeTail] = e],
              !.pFreeTail = e,
              !.numFree = @ + 1,
              !.queue[q].numAlloc = @ - 1,
              !.numReserve = IF m.queue[q].numAlloc - 1 < m.queue[q].numReserved
                             THEN @ + 1 ELSE @]

\* DRV_SPI_SYS_QUEUE_Enqueue: at the end of the queue.
Enqueued(m, q, e) ==
    [m EXCEPT !.queue[q].pHead = IF @ = NULL THEN e ELSE @,
              !.pNext = IF m.queue[q].pHead = NULL THEN @
                        ELSE [@ EXCEPT ![m.queue[q].pTail] = e],
              !.queue[q].pTail = e]

\* DRV_SPI_SYS_QUEUE_Dequeue of a queue that is not empty.
IsEmpty(m, q) == m.queue[q].pHead = NULL

\* DRV_SPI_SYS_QUEUE_Peek.  Of an empty queue it gives the place behind the
\* header of an element at NULL: no element, but not NULL either.
NoElement  == -1
Peek(m, q) == IF IsEmpty(m, q) THEN NoElement ELSE m.queue[q].pHead

Dequeued_KeepsTail(m, q) ==
    LET e == m.queue[q].pHead
    IN [m EXCEPT !.queue[q].pHead = m.pNext[e]]
Dequeued(m, q) ==
    LET e == m.queue[q].pHead
        h == m.pNext[e]
    IN [m EXCEPT !.queue[q].pHead = h,
                 !.queue[q].pTail = IF h = NULL THEN NULL ELSE @,
                 !.pNext[e] = NULL]

\* DRV_SPI_SYS_QUEUE_DestroyQueue: what the queue still holds is freed, an
\* element at a time; then what it had reserved is released and it becomes
\* the first free queue.  When no other queue is free its pNext stays NULL.
Drained(m, q) == Freed(Dequeued(m, q), q, m.queue[q].pHead)

Destroyed(m, q) ==
    [m EXCEPT !.numReserve = @ - m.queue[q].numReserved,
              !.pFreeQueueHead = q,
              !.pFreeQueueTail = IF @ = NULL THEN q ELSE @,
              !.queue[q].pNext = IF m.pFreeQueueTail = NULL THEN @
                                 ELSE m.pFreeQueueHead]
----------------------------------------------------------------------------
\* The elements linked from head on, in order; at most NumElements of them,
\* so that a cycle shows as a repetition.
Chain(m, head) ==
    LET at[n \in 1 .. NumElements] ==
            IF n = 1 THEN head
            ELSE IF at[n - 1] = NULL THEN NULL
            ELSE m.pNext[at[n - 1]]
    IN [n \in {i \in 1 .. NumElements : at[i] # NULL} |-> at[n]]

FreeList(m)    == Chain(m, m.pFreeHead)
Contents(m, q) == Chain(m, m.queue[q].pHead)

\* No element is on the list twice, the last one links to nothing, and the
\* recorded tail is the last one.
IsList(m, tail, s) == /\ IsInjective(s)
                      /\ s # <<>> => /\ m.pNext[s[Len(s)]] = NULL
                                     /\ tail = s[Len(s)]

\* What a queue may still claim of its reservation.
Claim(m, q) == IF BelowReserve(m, q)
               THEN m.queue[q].numReserved - m.queue[q].numAlloc
               ELSE 0

\* Every element is in exactly one place: the free list, one queue, or the
\* hands of a client (held[q], taken from queue q and not enqueued).  The
\* lists end where the tails say, and the counters of the pool count.
PoolIsWhole(m, open, held) ==
    LET free    == FreeList(m)
        list    == [q \in open |-> Contents(m, q)]
        used    == [q \in open |-> Range(list[q]) \cup held[q]]
    IN /\ IsList(m, m.pFreeTail, free)
       /\ m.numFree = Len(free)
       /\ Range(free) \cup UNION {used[q] : q \in open} = Elements
       /\ \A q \in open :
            /\ IsList(m, m.queue[q].pTail, list[q])
            /\ m.queue[q].numAlloc = Len(list[q]) + Cardinality(held[q])
            /\ Range(list[q]) \cap held[q] = {}
            /\ Range(free) \cap used[q] = {}
            /\ \A p \in open \ {q} : used[p] \cap used[q] = {}
=============================================================================

----------------------------- MODULE NvmDriver -----------------------------
(***************************************************************************)
(* drv_nvm_static.c: the flash driver.  A client call takes a free buffer  *)
(* object and links it at the end of a list; the object at the head is     *)
(* being worked on, one flash operation (a row programmed or a page        *)
(* erased) at a time.  _DRV_NVM_UnlockSequence waits for the operation, so *)
(* its effect is immediate; the flash interrupt flag it leaves makes the   *)
(* next DRV_NVM_Tasks go on.  Everything runs in the super-loop.           *)
(*                                                                         *)
(* At the end of a request the driver calls the client's event handler, if *)
(* one is set, before it gives the object back; the handler may make any   *)
(* request of its own, a read among them, at whose end it is called again. *)
(*                                                                         *)
(* Addresses are row numbers.  The k-th row of a client's data is k; the   *)
(* data of an erase-write is taken from the page buffer it is merged into. *)
(* Fields of an object that is free, and those of an erase-write when the  *)
(* list is empty, are dead and kept at fixed values.                       *)
(*                                                                         *)
(* History variables: `accepted` and `base`, those of NvmContract, and the *)
(* handles the clients were given for the requests in `accepted`.          *)
(*                                                                         *)
(* Operators whose name has a suffix after the name of the one that        *)
(* follows them are deliberate faults: they are in no specification.       *)
(***************************************************************************)
EXTENDS Naturals, Sequences

CONSTANTS
    NumBuffers,     \* DRV_NVM_BUFFER_OBJECT_NUMBER (5)
    TokenMax,       \* _DRV_NVM_BUF_TOKEN_MAX (0xFFFF)
    Rows,           \* rows of the media (8192)
    RowsPerPage,    \* DRV_NVM_PAGE_SIZE / DRV_NVM_ROW_SIZE (8)
    Word,           \* the uint32_t of an address or a count (2^32)
    Requests        \* bound of the model: the requests the clients make

\* The bounds checks add in a Word.  The requests are those whose sum fits in
\* it: ProfilStorage, the one client, asks at 0xBD1FC000.  One whose sum wraps
\* round would be accepted off the media.
ASSUME NvmAssumption ==
    /\ NumBuffers \in Nat \ {0}
    /\ TokenMax \in Nat \ {0}
    /\ RowsPerPage \in Nat \ {0}
    /\ Rows \in {RowsPerPage * p : p \in 1 .. Rows}
    /\ Requests \subseteq [kind  : {"WRITE", "ERASE", "ERASE_WRITE"},
                            block : Nat, n : Nat \ {0}]
    /\ Word \in Nat \ {0}
    /\ \A q \in Requests : q.block + q.n < Word

VARIABLES
    buf,            \* gDrvNVMBufferObject
    writeEraseQ,    \* index of the head of the list, or None
    token,          \* gDrvNVMBufferToken
    ew,             \* the erase-write under way: eraseWriteStep, nRowsPending,
                    \* appDataMemory, eraseWriteStartAddress
    eraseBuffer,    \* the copy of a page
    irq,            \* INT_SOURCE_FLASH_CONTROL
    flash,
    eventHandler,   \* one is set
    inHandler,      \* the processor is in the one of the innermost event
    events,         \* the objects whose end is being handled, innermost first
    accepted, base, handles  \* history

workVars    == <<buf, writeEraseQ, token, ew, eraseBuffer, irq, flash>>
eventVars   == <<eventHandler, inHandler, events>>
historyVars == <<accepted, base, handles>>
vars        == <<workVars, eventVars, historyVars>>

Contract == INSTANCE NvmContract

Row     == Contract!Row
Erased  == Contract!Erased
Buffers == 0 .. NumBuffers - 1
None    == NumBuffers
InPage  == 0 .. RowsPerPage - 1
Content == 0 .. Rows \cup {Contract!Garbage}

PageStart(r) == (r \div RowsPerPage) * RowsPerPage

\* DRV_NVM_BUFFER_FLAGS; "NONE" for an object that holds no queued request.
Flags == {"NONE", "WRITE", "ERASE", "ERASE_WRITE"}

\* DRV_NVM_ERASE_WRITE_STEP, of which the third is never seen between calls.
Steps == {"NONE", "ERASE_COMPLETE", "WRITE_PAGE"}

Buffer == [inUse   : BOOLEAN,
           flag    : Flags,
           status  : {"COMPLETED", "QUEUED", "IN_PROGRESS"},
           token   : 0 .. TokenMax - 1,     \* makes the handle, with the index
           next    : Buffers \cup {None},
           pending : 0 .. Rows,             \* nBlocksPending
           size    : 0 .. Rows,             \* in rows
           blockSize : {0, 1, RowsPerPage}, \* in rows
           flashMem : Row,                  \* flashMemPointer
           appData  : 0 .. Rows]            \* appDataPointer: rows used so far

TypeOK == /\ buf \in [Buffers -> Buffer]
          /\ writeEraseQ \in Buffers \cup {None}
          /\ token \in 0 .. TokenMax - 1
          /\ ew \in [step : Steps,
                     nRows : 0 .. Rows, appData : 0 .. Rows, start : 0 .. Rows]
          /\ eraseBuffer \in [InPage -> Content]
          /\ irq \in BOOLEAN
          /\ flash \in [Row -> Content]
          /\ eventHandler \in BOOLEAN /\ inHandler \in BOOLEAN
          /\ events \in Seq(Buffers)
          /\ irq <=> writeEraseQ # None /\ buf[writeEraseQ].status # "COMPLETED"

Free == [inUse |-> FALSE, flag |-> "NONE", status |-> "COMPLETED",
         token |-> 0, next |-> None, pending |-> 0, size |-> 0,
         blockSize |-> 0, flashMem |-> 0, appData |-> 0]

NoEraseWrite == [step |-> "NONE", nRows |-> 0, appData |-> 0, start |-> 0]
BlankPage    == [r \in InPage |-> Erased]

Init == /\ buf = [k \in Buffers |-> Free]
        /\ writeEraseQ = None
        /\ token = 0
        /\ ew = NoEraseWrite
        /\ eraseBuffer = BlankPage
        /\ irq = FALSE
        /\ flash = [r \in Row |-> Erased]
        /\ eventHandler = FALSE /\ inHandler = FALSE /\ events = <<>>
        /\ accepted = <<>>
        /\ base = flash
        /\ handles = <<>>
----------------------------------------------------------------------------
\* _DRV_NVM_UPDATE_BUF_TOKEN
NextToken_NoWrap == token + 1
NextToken == IF token + 1 = TokenMax THEN 0 ELSE token + 1

\* The buffer object the search loops find: the first free one.
FirstFree(k) == /\ ~buf[k].inUse
                /\ \A m \in Buffers : m < k => buf[m].inUse

\* The list, and its last object.  (The object of a read is not on it.)
Listed(k) == buf[k].inUse /\ buf[k].flag # "NONE"
Last(k)   == Listed(k) /\ buf[k].next = None

\* A call comes from the super-loop, or from the handler while it runs: the
\* one that was set when the event came, also once another, or none, is set.
Caller == events = <<>> \/ inHandler

\* The end of the request or read of object k, and the return from it: to the
\* handler that made the read, if one did.
EventBegins(k) == /\ events' = <<k>> \o events
                  /\ inHandler' = eventHandler
EventEnds == /\ events # <<>>
             /\ events' = Tail(events)
             /\ inHandler' = (Tail(events) # <<>>)

\* _DRV_NVM_WriteBufferObjProcess and _DRV_NVM_EraseBufferObjProcess.
ProgramRow(r, v) == /\ flash' = [flash EXCEPT ![r] = Contract!Programmed(@, v)]
                    /\ irq' = TRUE
ErasePage(r) == /\ flash' = [s \in Row |-> IF PageStart(s) = PageStart(r)
                                           THEN Erased ELSE flash[s]]
                /\ irq' = TRUE

\* The copy of the page that starts at r.
Backup(r) == eraseBuffer' = [s \in InPage |-> flash[r + s]]

\* The first operation of the object at index k of `bufs`.
Start(bufs, k) ==
    LET b == bufs[k] IN
    \/ /\ b.flag = "WRITE"
       /\ ProgramRow(b.flashMem, b.appData + 1)
       /\ buf' = bufs
       /\ UNCHANGED <<ew, eraseBuffer>>
    \/ /\ b.flag = "ERASE"
       /\ ErasePage(b.flashMem)
       /\ buf' = bufs
       /\ UNCHANGED <<ew, eraseBuffer>>
    \/ /\ b.flag = "ERASE_WRITE"
       /\ ew' = [step |-> "ERASE_COMPLETE", nRows |-> b.size,
                 appData |-> b.appData, start |-> b.flashMem]
       /\ Backup(PageStart(b.flashMem))
       /\ ErasePage(b.flashMem)
       /\ buf' = [bufs EXCEPT ![k].status = "IN_PROGRESS",
                              ![k].pending = 1,
                              ![k].blockSize = RowsPerPage,
                              ![k].flashMem = PageStart(b.flashMem)]

\* Take object k for a request and start it, or link it behind the last one.
Enqueue_Unlinked(k, obj) ==
    IF writeEraseQ = None
    THEN /\ writeEraseQ' = k
         /\ Start([buf EXCEPT ![k] = [obj EXCEPT !.status = "IN_PROGRESS"]], k)
    ELSE /\ buf' = [buf EXCEPT ![k] = obj]
         /\ UNCHANGED <<writeEraseQ, ew, eraseBuffer, irq, flash>>

Enqueue(k, obj) ==
    IF writeEraseQ = None
    THEN /\ writeEraseQ' = k
         /\ Start([buf EXCEPT ![k] = [obj EXCEPT !.status = "IN_PROGRESS"]], k)
    ELSE /\ \E l \in Buffers :
              /\ Last(l)
              /\ buf' = [buf EXCEPT ![k] = obj, ![l].next = k]
         /\ UNCHANGED <<writeEraseQ, ew, eraseBuffer, irq, flash>>

\* History: the request is accepted, its client has the handle of object k.
Accepted(q, k) ==
    /\ accepted' = Append(accepted, q)
    /\ handles' = Append(handles, [token |-> token, index |-> k])
    /\ base' = IF accepted = <<>> THEN flash ELSE base

\* A request of n blocks of `size` rows from block number `block` on: refused
\* when it goes beyond the media or no buffer object is free.
Request(flag, block, n, size) ==
    /\ Caller
    /\ ((block + n) % Word) * size <= Rows
    /\ \E k \in Buffers :
         /\ FirstFree(k)
         /\ Enqueue(k, [inUse |-> TRUE, flag |-> flag, status |-> "QUEUED",
                        token |-> token, next |-> None,
                        pending |-> IF flag = "ERASE_WRITE" THEN 0 ELSE n,
                        size |-> n * size,
                        blockSize |-> IF flag = "ERASE_WRITE" THEN 0 ELSE size,
                        flashMem |-> block * size, appData |-> 0])
         /\ Accepted([kind |-> flag, start |-> block * size, n |-> n * size], k)
    /\ token' = NextToken
    /\ UNCHANGED eventVars

\* Blocks are rows for a write or an erase-write, pages for an erase.
DRV_NVM_Write      == \E q \in Requests :
                          q.kind = "WRITE" /\ Request(q.kind, q.block, q.n, 1)
DRV_NVM_Erase      == \E q \in Requests :
                          q.kind = "ERASE" /\ Request(q.kind, q.block, q.n, RowsPerPage)
DRV_NVM_EraseWrite == \E q \in Requests :
                          q.kind = "ERASE_WRITE" /\ Request(q.kind, q.block, q.n, 1)

\* A read is done at once, but it takes a buffer object to give its caller a
\* handle, and keeps it while the handler runs; only then is the token
\* updated.  (What it reads is the flash of this moment.)
DRV_NVM_Read_AnyObject == \E k \in Buffers :
    /\ Caller
    /\ buf' = [buf EXCEPT ![k].status = "COMPLETED", ![k].token = token]
    /\ token' = NextToken
    /\ UNCHANGED <<writeEraseQ, ew, eraseBuffer, irq, flash, eventVars, historyVars>>

DRV_NVM_Read == \E k \in Buffers :
    /\ Caller
    /\ FirstFree(k)
    /\ buf' = [buf EXCEPT ![k] = [Free EXCEPT !.inUse = TRUE, !.token = token]]
    /\ EventBegins(k)
    /\ UNCHANGED <<writeEraseQ, token, ew, eraseBuffer, irq, flash,
                   eventHandler, historyVars>>

\* The handler has returned, or there is none.
Read_Release ==
    /\ EventEnds /\ ~Listed(Head(events))
    /\ buf' = [buf EXCEPT ![Head(events)] = Free]
    /\ token' = NextToken
    /\ UNCHANGED <<writeEraseQ, ew, eraseBuffer, irq, flash,
                   eventHandler, historyVars>>

DRV_NVM_EventHandlerSet(set) ==
    /\ Caller
    /\ eventHandler' = set
    /\ UNCHANGED <<workVars, inHandler, events, historyVars>>
----------------------------------------------------------------------------
\* DRV_NVM_Tasks, once the flash interrupt flag is set: one block of the head
\* object is done.

head == buf[writeEraseQ]
left == head.pending - 1

RequestDone == /\ left = 0
               /\ head.flag = "ERASE_WRITE" =>
                      ew.step = "WRITE_PAGE" /\ ew.nRows = 0

\* The object that follows, if any, is started.
StartNext_Forgotten(bufs, k) ==
    /\ buf' = bufs
    /\ UNCHANGED <<ew, eraseBuffer, irq, flash>>

StartNext(bufs, k) ==
    IF k = None
    THEN /\ buf' = bufs
         /\ ew' = NoEraseWrite
         /\ eraseBuffer' = BlankPage
         /\ UNCHANGED <<irq, flash>>
    ELSE Start(bufs, k)

\* The request at the head is done: the handler is called.
Tasks_Complete ==
    /\ events = <<>> /\ irq /\ RequestDone
    /\ irq' = FALSE
    /\ buf' = [buf EXCEPT ![writeEraseQ].status = "COMPLETED",
                          ![writeEraseQ].pending = 0]
    /\ EventBegins(writeEraseQ)
    /\ accepted' = Tail(accepted)
    /\ base' = flash
    /\ handles' = Tail(handles)
    /\ UNCHANGED <<writeEraseQ, token, ew, eraseBuffer, flash, eventHandler>>

\* Its object is released and the one behind it, which may be the handler's,
\* becomes the head.
Tasks_Release ==
    /\ EventEnds /\ Listed(Head(events))
    /\ writeEraseQ' = head.next
    /\ StartNext([buf EXCEPT ![writeEraseQ] = Free], head.next)
    /\ UNCHANGED <<token, eventHandler, historyVars>>

\* The next row of a write.
Tasks_Write ==
    /\ events = <<>> /\ irq /\ left > 0 /\ head.flag = "WRITE"
    /\ ProgramRow(head.flashMem + 1, head.appData + 2)
    /\ buf' = [buf EXCEPT ![writeEraseQ].pending = left,
                          ![writeEraseQ].flashMem = @ + 1,
                          ![writeEraseQ].appData = @ + 1]
    /\ UNCHANGED <<writeEraseQ, token, ew, eraseBuffer, eventVars, historyVars>>

\* The next page of an erase.
Tasks_Erase ==
    /\ events = <<>> /\ irq /\ left > 0 /\ head.flag = "ERASE"
    /\ ErasePage(head.flashMem + RowsPerPage)
    /\ buf' = [buf EXCEPT ![writeEraseQ].pending = left,
                          ![writeEraseQ].flashMem = @ + RowsPerPage]
    /\ UNCHANGED <<writeEraseQ, token, ew, eraseBuffer, eventVars, historyVars>>

\* How many rows of the request are on the page that begins at flashMem.
BlocksInPage(offset) ==
    IF RowsPerPage - offset > ew.nRows THEN ew.nRows ELSE RowsPerPage - offset

\* The page is erased: merge the client's rows into its copy, program row one.
Tasks_Merge ==
    /\ events = <<>> /\ irq /\ left = 0 /\ head.flag = "ERASE_WRITE" /\ ew.step = "ERASE_COMPLETE"
    /\ LET offset == ew.start - head.flashMem
           n      == BlocksInPage(offset)
           merged == [s \in InPage |-> IF s \in offset .. offset + n - 1
                                       THEN ew.appData + (s - offset) + 1
                                       ELSE eraseBuffer[s]]
       IN  /\ eraseBuffer' = merged
           /\ ew' = [step |-> "WRITE_PAGE", nRows |-> ew.nRows - n,
                     appData |-> ew.appData + n, start |-> ew.start + n]
           /\ ProgramRow(head.flashMem, merged[0])
    /\ buf' = [buf EXCEPT ![writeEraseQ].pending = RowsPerPage,
                          ![writeEraseQ].blockSize = 1,
                          ![writeEraseQ].appData = 0]
    /\ UNCHANGED <<writeEraseQ, token, eventVars, historyVars>>

\* The next row of the merged page.
Tasks_PageRow ==
    /\ events = <<>> /\ irq /\ left > 0 /\ head.flag = "ERASE_WRITE" /\ ew.step = "WRITE_PAGE"
    /\ ProgramRow(head.flashMem + 1, eraseBuffer[head.appData + 1])
    /\ buf' = [buf EXCEPT ![writeEraseQ].pending = left,
                          ![writeEraseQ].flashMem = @ + 1,
                          ![writeEraseQ].appData = @ + 1]
    /\ UNCHANGED <<writeEraseQ, token, ew, eraseBuffer, eventVars, historyVars>>

\* The page is written and rows remain: erase the next page.
Tasks_NextPage_NoBackup ==
    /\ events = <<>> /\ irq /\ left = 0 /\ head.flag = "ERASE_WRITE"
    /\ ew.step = "WRITE_PAGE" /\ ew.nRows # 0
    /\ ErasePage(head.flashMem + 1)
    /\ ew' = [ew EXCEPT !.step = "ERASE_COMPLETE"]
    /\ buf' = [buf EXCEPT ![writeEraseQ].pending = 1,
                          ![writeEraseQ].blockSize = RowsPerPage,
                          ![writeEraseQ].flashMem = @ + 1]
    /\ UNCHANGED <<eraseBuffer, writeEraseQ, token, eventVars, historyVars>>

Tasks_NextPage ==
    /\ events = <<>> /\ irq /\ left = 0 /\ head.flag = "ERASE_WRITE"
    /\ ew.step = "WRITE_PAGE" /\ ew.nRows # 0
    /\ Backup(head.flashMem + 1)
    /\ ErasePage(head.flashMem + 1)
    /\ ew' = [ew EXCEPT !.step = "ERASE_COMPLETE"]
    /\ buf' = [buf EXCEPT ![writeEraseQ].pending = 1,
                          ![writeEraseQ].blockSize = RowsPerPage,
                          ![writeEraseQ].flashMem = @ + 1]
    /\ UNCHANGED <<writeEraseQ, token, eventVars, historyVars>>

DRV_NVM_Tasks == \/ Tasks_Complete \/ Tasks_Write \/ Tasks_Erase
                 \/ Tasks_Merge \/ Tasks_PageRow \/ Tasks_NextPage

Release == Tasks_Release \/ Read_Release

Next == \/ DRV_NVM_Write \/ DRV_NVM_Erase \/ DRV_NVM_EraseWrite \/ DRV_NVM_Read
        \/ \E set \in BOOLEAN : DRV_NVM_EventHandlerSet(set)
        \/ DRV_NVM_Tasks \/ Release

\* SYS_Tasks calls DRV_NVM_Tasks on every turn of the super-loop, and the
\* client's handler returns, whatever it calls.
Fairness == /\ SF_vars(DRV_NVM_Tasks)
            /\ \A depth \in 1 .. NumBuffers : SF_vars(Len(events) = depth /\ Release)

Spec == Init /\ [][Next]_vars /\ Fairness
----------------------------------------------------------------------------
\* Every object in use is on the list or belongs to a read whose handler runs,
\* and the other way round, however requests, reads, completions and the
\* handler's own requests alternate: none leaks.
NoBufferLeaks ==
    {k \in Buffers : buf[k].inUse} =
        {k \in Buffers : \/ k = writeEraseQ
                         \/ \E m \in Buffers : Listed(m) /\ buf[m].next = k
                         \/ \E n \in DOMAIN events : events[n] = k}

\* DRV_NVM_CommandStatus of a handle: the token must still be its object's.
DRV_NVM_CommandStatus(h) ==
    IF buf[h.index].token # h.token THEN "COMPLETED" ELSE buf[h.index].status

\* A request that is not done is never reported as completed to the client
\* that polls its handle, whatever requests and reads take the other objects
\* meanwhile and however often the token wraps round.
UnfinishedNotCompleted ==
    \A n \in 1 .. Len(handles) : DRV_NVM_CommandStatus(handles[n]) # "COMPLETED"

\* Every accepted request eventually completes and gives its object back,
\* however many requests follow it.
RequestsComplete == \A k \in Buffers : buf[k].inUse ~> ~buf[k].inUse

\* The driver keeps its contract: requests take effect in the order in which
\* they were accepted, each as a whole, and an erase-write preserves the rows
\* it shares its pages with.
ImplementsContract == Contract!Spec
=============================================================================

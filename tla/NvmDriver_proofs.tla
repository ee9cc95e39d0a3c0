-------------------------- MODULE NvmDriver_proofs --------------------------
(***************************************************************************)
(* Theorems about NvmDriver, for every number of buffer objects, every     *)
(* token range, every media and every set of requests: the list of buffer  *)
(* objects keeps its shape, no object leaks and no handle lies (IInv); and *)
(* the flash is at every moment what the request under way has made of it  *)
(* so far (Data), from which the driver implements NvmContract.            *)
(***************************************************************************)
EXTENDS NvmDriver, SequenceTheorems, TLAPS

\* An object with its numbers left open: the shape of the list and the
\* handles do not depend on them.
Shape == [inUse : BOOLEAN, flag : Flags,
          status : {"COMPLETED", "QUEUED", "IN_PROGRESS"},
          token : 0 .. TokenMax - 1, next : Buffers \cup {None},
          pending : Int, size : Int, blockSize : Int, flashMem : Int,
          appData : Int]

ShapeOK == /\ buf \in [Buffers -> Shape]
           /\ writeEraseQ \in Buffers \cup {None}
           /\ token \in 0 .. TokenMax - 1
           /\ handles \in Seq([token : 0 .. TokenMax - 1, index : Buffers])
           /\ events \in Seq(Buffers)
           /\ irq \in BOOLEAN

\* The head is done and its client is being told.
HeadDone == writeEraseQ # None /\ buf[writeEraseQ].status = "COMPLETED"

\* The first object that is not done.
FirstPending == IF HeadDone THEN buf[writeEraseQ].next ELSE writeEraseQ

Index(n) == handles[n].index

\* The list, behind a head that is done, is that of the handles of the
\* unfinished requests, in their order: from it follow both theorems.
ListIsHandles ==
    /\ handles = <<>> => FirstPending = None
    /\ handles # <<>> => /\ Index(1) = FirstPending
                         /\ buf[Index(Len(handles))].next = None
    /\ \A n \in 1 .. Len(handles) :
         n + 1 \in 1 .. Len(handles) => buf[Index(n)].next = Index(n + 1)

HandlesValid ==
    \A n \in 1 .. Len(handles) : /\ Listed(Index(n))
                                 /\ buf[Index(n)].token = handles[n].token
                                 /\ buf[Index(n)].status # "COMPLETED"

HandlesDiffer ==
    \A m, n \in 1 .. Len(handles) : Index(m) = Index(n) => m = n

\* No other object is on the list.
ListedKnown ==
    /\ HeadDone => Listed(writeEraseQ)
    /\ \A k \in Buffers :
         Listed(k) => \/ HeadDone /\ k = writeEraseQ
                      \/ \E n \in 1 .. Len(handles) : k = Index(n)

\* Those whose end is being handled.
EventsValid ==
    /\ \A n \in 1 .. Len(events) :
         /\ buf[events[n]].inUse
         /\ Listed(events[n]) => HeadDone /\ events[n] = writeEraseQ
    /\ \A m, n \in 1 .. Len(events) : events[m] = events[n] => m = n
    /\ \A k \in Buffers :
         buf[k].inUse /\ ~Listed(k) => \E n \in 1 .. Len(events) : events[n] = k

FlagRaised == irq <=> writeEraseQ # None /\ ~HeadDone

IInv == /\ ShapeOK
        /\ ListIsHandles /\ HandlesValid /\ HandlesDiffer /\ ListedKnown
        /\ EventsValid /\ FlagRaised
----------------------------------------------------------------------------
LEMMA NoneOutside == None \notin Buffers /\ None \in Int
<1> QED BY NvmAssumption DEF None, Buffers

LEMMA IndexType ==
    ASSUME ShapeOK, NEW n \in 1 .. Len(handles)
    PROVE  Index(n) \in Buffers /\ handles[n].token \in 0 .. TokenMax - 1
<1>1. handles[n] \in [token : 0 .. TokenMax - 1, index : Buffers]
  <2>1. handles \in Seq([token : 0 .. TokenMax - 1, index : Buffers])
    BY DEF ShapeOK
  <2> QED BY <2>1, ElementOfSeq
<1> QED BY <1>1 DEF Index

LEMMA FreeShape == Free \in Shape
<1>1. 0 \in 0 .. TokenMax - 1
  BY NvmAssumption
<1> QED BY <1>1 DEF Free, Shape, Flags

LEMMA NextTokenType == token \in 0 .. TokenMax - 1 => NextToken \in 0 .. TokenMax - 1
<1> QED BY NvmAssumption DEF NextToken

LEMMA PageStartType == ASSUME NEW r \in Int PROVE PageStart(r) \in Int
<1>1. RowsPerPage \in Int /\ RowsPerPage > 0
  BY NvmAssumption
<1>2. r \div RowsPerPage \in Int
  BY <1>1
<1> QED BY <1>1, <1>2 DEF PageStart

\* r is b but for its numbers.
SameButNumbers(r, b) == /\ r \in Shape
                        /\ r.inUse = b.inUse /\ r.flag = b.flag
                        /\ r.token = b.token /\ r.next = b.next

LEMMA ObjectReplaced ==
    ASSUME NEW bufs \in [Buffers -> Shape], NEW k \in Buffers,
           NEW r, SameButNumbers(r, bufs[k])
    PROVE  LET new == [bufs EXCEPT ![k] = r]
           IN /\ new \in [Buffers -> Shape]
              /\ \A m \in Buffers : /\ new[m].inUse = bufs[m].inUse
                                    /\ new[m].flag  = bufs[m].flag
                                    /\ new[m].token = bufs[m].token
                                    /\ new[m].next  = bufs[m].next
                                    /\ m # k => new[m].status = bufs[m].status
              /\ new[k].status = r.status
<1> QED BY DEF SameButNumbers

\* What a step may change of the objects without changing the list.
KeepsShape == \A m \in Buffers : /\ buf'[m].inUse  = buf[m].inUse
                                 /\ buf'[m].flag   = buf[m].flag
                                 /\ buf'[m].status = buf[m].status
                                 /\ buf'[m].token  = buf[m].token
                                 /\ buf'[m].next   = buf[m].next

LEMMA ShapeKept ==
    ASSUME IInv, buf' \in [Buffers -> Shape], KeepsShape,
           UNCHANGED <<writeEraseQ, token, handles, events, irq>>
    PROVE  IInv'
<1> USE DEF IInv, ShapeOK, Index, KeepsShape, Listed
<1>1. \A n \in 1 .. Len(handles) : Index(n) \in Buffers
  BY IndexType
<1>2. \A n \in 1 .. Len(events) : events[n] \in Buffers
  OBVIOUS
<1>3. /\ HeadDone' <=> HeadDone
      /\ FirstPending' = FirstPending
  BY NoneOutside DEF HeadDone, FirstPending
<1>4. ShapeOK'
  OBVIOUS
<1>5. ListIsHandles'
  <2>1. handles # <<>> => Len(handles) \in 1 .. Len(handles)
    OBVIOUS
  <2> QED BY <1>1, <1>3, <2>1 DEF ListIsHandles
<1>6. HandlesValid' /\ HandlesDiffer'
  <2>1. ASSUME NEW n \in 1 .. Len(handles)
        PROVE  /\ Listed(Index(n))'
               /\ buf'[Index(n)].token = handles[n].token
               /\ buf'[Index(n)].status # "COMPLETED"
    <3>1. Index(n) \in Buffers
      BY <1>1
    <3>2. /\ Listed(Index(n)) /\ buf[Index(n)].token = handles[n].token
          /\ buf[Index(n)].status # "COMPLETED"
      BY DEF HandlesValid
    <3> QED BY <3>1, <3>2
  <2> QED BY <2>1 DEF HandlesValid, HandlesDiffer
<1>7. ListedKnown'
  BY <1>3 DEF ListedKnown, HeadDone
<1>8. EventsValid'
  BY <1>2, <1>3 DEF EventsValid
<1>9. FlagRaised'
  BY <1>3 DEF FlagRaised
<1> QED BY <1>4, <1>5, <1>6, <1>7, <1>8, <1>9

\* The first operation of a request: the list stays as it is, the request is
\* not done, the flash interrupt is raised.
LEMMA StartShape ==
    ASSUME NEW bufs \in [Buffers -> Shape], NEW k \in Buffers, Start(bufs, k),
           bufs[k].status # "COMPLETED"
    PROVE  /\ buf' \in [Buffers -> Shape]
           /\ \A m \in Buffers : /\ buf'[m].inUse = bufs[m].inUse
                                 /\ buf'[m].flag  = bufs[m].flag
                                 /\ buf'[m].token = bufs[m].token
                                 /\ buf'[m].next  = bufs[m].next
                                 /\ m # k => buf'[m].status = bufs[m].status
           /\ buf'[k].status # "COMPLETED"
           /\ irq' = TRUE
<1>1. CASE buf' = bufs /\ irq' = TRUE
  BY <1>1
<1>2. CASE /\ buf' = [bufs EXCEPT ![k].status = "IN_PROGRESS",
                                  ![k].pending = 1,
                                  ![k].blockSize = RowsPerPage,
                                  ![k].flashMem = PageStart(bufs[k].flashMem)]
           /\ irq' = TRUE
  <2> DEFINE b  == bufs[k]
             f  == PageStart(b.flashMem)
             p  == 1
             st == "IN_PROGRESS"
             r  == [b EXCEPT !.status = st, !.pending = p,
                             !.blockSize = RowsPerPage, !.flashMem = f]
  <2>1. b \in Shape /\ RowsPerPage \in Int /\ p \in Int
        /\ st \in {"COMPLETED", "QUEUED", "IN_PROGRESS"} /\ st # "COMPLETED"
    BY NvmAssumption
  <2>2. f \in Int
    BY <2>1, PageStartType DEF Shape
  <2>3. buf' = [bufs EXCEPT ![k] = r] /\ irq' = TRUE
    BY <1>2
  <2> HIDE DEF b, f, p, st
  <2>4. SameButNumbers(r, b) /\ r.status = st
    BY <2>1, <2>2 DEF Shape, SameButNumbers
  <2> HIDE DEF r
  <2>5. SameButNumbers(r, bufs[k]) /\ r.status # "COMPLETED"
    BY <2>1, <2>4 DEF b
  <2> QED BY <2>3, <2>5, ObjectReplaced
<1> QED BY <1>1, <1>2 DEF Start, ProgramRow, ErasePage
----------------------------------------------------------------------------
\* A request taken by the driver.

LEMMA InitIInv == Init => IInv
<1> SUFFICES ASSUME Init PROVE IInv
  OBVIOUS
<1> USE DEF Init
<1>1. 0 \in 0 .. TokenMax - 1
  BY NvmAssumption
<1>2. ShapeOK
  <2>1. buf \in [Buffers -> Shape]
    BY FreeShape
  <2>2. /\ handles \in Seq([token : 0 .. TokenMax - 1, index : Buffers])
        /\ events \in Seq(Buffers)
    OBVIOUS
  <2>3. writeEraseQ = None /\ token = 0 /\ irq = FALSE
    OBVIOUS
  <2> QED BY <1>1, <2>1, <2>2, <2>3 DEF ShapeOK
<1>3. \A k \in Buffers : buf[k] = Free
  OBVIOUS
<1>4. ~HeadDone /\ FirstPending = None
  BY DEF HeadDone, FirstPending
<1>5. ListIsHandles /\ HandlesValid /\ HandlesDiffer /\ EventsValid
  BY <1>3, <1>4
     DEF ListIsHandles, HandlesValid, HandlesDiffer, EventsValid, Free
<1>6. ListedKnown /\ FlagRaised
  BY <1>3, <1>4 DEF ListedKnown, FlagRaised, Listed, Free
<1> QED BY <1>2, <1>5, <1>6 DEF IInv

\* A step of the work on the head changes only its numbers.
LEMMA WorkShape ==
    ASSUME IInv, irq = TRUE, irq' = TRUE, NEW r,
           buf' = [buf EXCEPT ![writeEraseQ] = r],
           SameButNumbers(r, head), r.status = head.status,
           UNCHANGED <<writeEraseQ, token, handles, events>>
    PROVE  IInv'
<1>1. writeEraseQ \in Buffers /\ buf \in [Buffers -> Shape]
  BY DEF IInv, ShapeOK, FlagRaised
<1>2. SameButNumbers(r, buf[writeEraseQ]) /\ r.status = buf[writeEraseQ].status
  BY DEF head
<1>3. buf' \in [Buffers -> Shape] /\ KeepsShape
  BY <1>1, <1>2, ObjectReplaced DEF KeepsShape
<1> QED BY <1>3, ShapeKept

\* Its numbers.
LEMMA HeadType ==
    ASSUME IInv, irq = TRUE
    PROVE  /\ head \in Shape /\ left \in Int
           /\ head.flashMem + 1 \in Int /\ head.flashMem + RowsPerPage \in Int
           /\ head.appData + 1 \in Int /\ RowsPerPage \in Int
           /\ 0 \in Int /\ 1 \in Int
<1>1. writeEraseQ \in Buffers /\ buf \in [Buffers -> Shape]
  BY DEF IInv, ShapeOK, FlagRaised
<1>2. head \in Shape
  BY <1>1 DEF head
<1>3. head.pending \in Int /\ head.flashMem \in Int /\ head.appData \in Int
  BY <1>2 DEF Shape
<1>4. RowsPerPage \in Int
  BY NvmAssumption
<1> QED BY <1>2, <1>3, <1>4 DEF left

LEMMA RowStep == ASSUME IInv, Tasks_Write \/ Tasks_PageRow PROVE IInv'
<1> DEFINE b == head
           p == left
           f == head.flashMem + 1
           a == head.appData + 1
           r == [b EXCEPT !.pending = p, !.flashMem = f, !.appData = a]
<1>1. /\ irq = TRUE /\ irq' = TRUE
      /\ buf' = [buf EXCEPT ![writeEraseQ] = r]
      /\ UNCHANGED <<writeEraseQ, token, handles, events>>
  BY DEF Tasks_Write, Tasks_PageRow, ProgramRow, head, eventVars, historyVars,
         IInv, ShapeOK
<1>2. b \in Shape /\ p \in Int /\ f \in Int /\ a \in Int
  BY <1>1, HeadType
<1> HIDE DEF p, f, a, b
<1>3. SameButNumbers(r, b) /\ r.status = b.status
  BY <1>2 DEF Shape, SameButNumbers
<1> HIDE DEF r
<1> QED BY <1>1, <1>3, WorkShape DEF b

LEMMA EraseStep == ASSUME IInv, Tasks_Erase PROVE IInv'
<1> DEFINE b == head
           p == left
           f == head.flashMem + RowsPerPage
           r == [b EXCEPT !.pending = p, !.flashMem = f]
<1>1. /\ irq = TRUE /\ irq' = TRUE
      /\ buf' = [buf EXCEPT ![writeEraseQ] = r]
      /\ UNCHANGED <<writeEraseQ, token, handles, events>>
  BY DEF Tasks_Erase, ErasePage, head, eventVars, historyVars, IInv, ShapeOK
<1>2. b \in Shape /\ p \in Int /\ f \in Int
  BY <1>1, HeadType
<1> HIDE DEF p, f, b
<1>3. SameButNumbers(r, b) /\ r.status = b.status
  BY <1>2 DEF Shape, SameButNumbers
<1> HIDE DEF r
<1> QED BY <1>1, <1>3, WorkShape DEF b

LEMMA MergeStep == ASSUME IInv, Tasks_Merge PROVE IInv'
<1> DEFINE b == head
           p == RowsPerPage
           s == 1
           a == 0
           r == [b EXCEPT !.pending = p, !.blockSize = s, !.appData = a]
<1>1. /\ irq = TRUE /\ irq' = TRUE
      /\ buf' = [buf EXCEPT ![writeEraseQ] = r]
      /\ UNCHANGED <<writeEraseQ, token, handles, events>>
  BY DEF Tasks_Merge, ProgramRow, head, eventVars, historyVars, IInv, ShapeOK
<1>2. b \in Shape /\ p \in Int /\ s \in Int /\ a \in Int
  BY <1>1, HeadType
<1> HIDE DEF p, s, a, b
<1>3. SameButNumbers(r, b) /\ r.status = b.status
  BY <1>2 DEF Shape, SameButNumbers
<1> HIDE DEF r
<1> QED BY <1>1, <1>3, WorkShape DEF b

LEMMA NextPageStep == ASSUME IInv, Tasks_NextPage PROVE IInv'
<1> DEFINE b == head
           p == 1
           s == RowsPerPage
           f == head.flashMem + 1
           r == [b EXCEPT !.pending = p, !.blockSize = s, !.flashMem = f]
<1>1. /\ irq = TRUE /\ irq' = TRUE
      /\ buf' = [buf EXCEPT ![writeEraseQ] = r]
      /\ UNCHANGED <<writeEraseQ, token, handles, events>>
  BY DEF Tasks_NextPage, ErasePage, head, eventVars, historyVars, IInv, ShapeOK
<1>2. b \in Shape /\ p \in Int /\ s \in Int /\ f \in Int
  BY <1>1, HeadType
<1> HIDE DEF p, s, f, b
<1>3. SameButNumbers(r, b) /\ r.status = b.status
  BY <1>2 DEF Shape, SameButNumbers
<1> HIDE DEF r
<1> QED BY <1>1, <1>3, WorkShape DEF b
----------------------------------------------------------------------------
\* The calls.

\* A new object at the end of the list, for a request of a client.
NewObject(obj) == /\ obj \in Shape
                  /\ obj.inUse /\ obj.flag # "NONE" /\ obj.status # "COMPLETED"
                  /\ obj.token = token /\ obj.next = None

\* The only object without a successor is the last of the pending ones, or
\* the head that is done.
LEMMA LastKnown ==
    ASSUME IInv, NEW l \in Buffers, Last(l)
    PROVE  IF handles = <<>> THEN HeadDone /\ l = writeEraseQ
                             ELSE l = Index(Len(handles))
<1> USE DEF IInv
<1>1. buf[l].next = None /\ Listed(l)
  BY DEF Last
<1>2. None \notin Buffers
  BY NoneOutside
<1>3. CASE HeadDone /\ l = writeEraseQ
  <2>1. FirstPending = None
    BY <1>1, <1>3 DEF FirstPending
  <2>2. handles # <<>> => Index(1) \in Buffers
    <3>1. handles # <<>> => 1 \in 1 .. Len(handles)
      BY DEF ShapeOK
    <3> QED BY <3>1, IndexType
  <2> QED BY <1>2, <1>3, <2>1, <2>2 DEF ListIsHandles
<1>4. ASSUME NEW n \in 1 .. Len(handles), l = Index(n)
      PROVE  l = Index(Len(handles)) /\ handles # <<>>
  <2>1. CASE n = Len(handles)
    BY <1>4, <2>1
  <2>2. CASE n # Len(handles)
    <3>1. n + 1 \in 1 .. Len(handles)
      BY <2>2 DEF ShapeOK
    <3>2. buf[l].next = Index(n + 1) /\ Index(n + 1) \in Buffers
      BY <1>4, <3>1, IndexType DEF ListIsHandles
    <3> QED BY <1>1, <1>2, <3>2
  <2> QED BY <2>1, <2>2
<1> QED BY <1>1, <1>3, <1>4 DEF ListedKnown

\* What the two ways of taking a request have in common.
LEMMA TakenHandles ==
    ASSUME ShapeOK, NEW k \in Buffers,
           handles' = Append(handles, [token |-> token, index |-> k])
    PROVE  /\ handles' \in Seq([token : 0 .. TokenMax - 1, index : Buffers])
           /\ Len(handles') = Len(handles) + 1 /\ Len(handles) \in Nat
           /\ handles' # <<>>
           /\ \A n \in 1 .. Len(handles) : handles'[n] = handles[n]
           /\ handles'[Len(handles) + 1] = [token |-> token, index |-> k]
<1>1. [token |-> token, index |-> k] \in [token : 0 .. TokenMax - 1, index : Buffers]
  BY DEF ShapeOK
<1>2. handles \in Seq([token : 0 .. TokenMax - 1, index : Buffers])
  BY DEF ShapeOK
<1> QED BY <1>1, <1>2

\* The list is empty: the request is started at once.
LEMMA FirstRequest ==
    ASSUME IInv, NEW k \in Buffers, ~buf[k].inUse, writeEraseQ = None,
           NEW obj, NewObject(obj),
           writeEraseQ' = k, Start([buf EXCEPT ![k] = obj], k),
           handles' = Append(handles, [token |-> token, index |-> k]),
           token' = NextToken, UNCHANGED events
    PROVE  IInv'
<1> DEFINE bufs == [buf EXCEPT ![k] = obj]
<1>1. /\ ~HeadDone /\ handles = <<>>
      /\ \A m \in Buffers : ~Listed(m)
  <2>1. ~HeadDone
    BY DEF HeadDone
  <2>2. ASSUME handles # <<>> PROVE FALSE
    <3>1. 1 \in 1 .. Len(handles)
      BY <2>2 DEF IInv, ShapeOK
    <3>2. Index(1) \in Buffers
      BY <3>1, IndexType DEF IInv
    <3>3. Index(1) = None
      BY <2>1, <2>2 DEF IInv, ListIsHandles, FirstPending
    <3> QED BY <3>2, <3>3, NoneOutside
  <2>3. \A m \in Buffers : ~Listed(m)
    BY <2>1, <2>2 DEF IInv, ListedKnown
  <2> QED BY <2>1, <2>2, <2>3
<1>2. /\ bufs \in [Buffers -> Shape] /\ bufs[k] = obj
      /\ \A m \in Buffers : m # k => bufs[m] = buf[m]
  BY DEF IInv, ShapeOK, NewObject
<1>3. /\ buf' \in [Buffers -> Shape] /\ irq' = TRUE
      /\ buf'[k].inUse /\ buf'[k].flag # "NONE" /\ buf'[k].status # "COMPLETED"
      /\ buf'[k].token = token /\ buf'[k].next = None
      /\ \A m \in Buffers : m # k => /\ buf'[m].inUse = buf[m].inUse
                                     /\ buf'[m].flag  = buf[m].flag
  <2> HIDE DEF bufs
  <2>1. bufs[k].status # "COMPLETED" /\ Start(bufs, k)
    BY <1>2 DEF NewObject, bufs
  <2>2. /\ buf' \in [Buffers -> Shape]
        /\ \A m \in Buffers : /\ buf'[m].inUse = bufs[m].inUse
                              /\ buf'[m].flag  = bufs[m].flag
                              /\ buf'[m].token = bufs[m].token
                              /\ buf'[m].next  = bufs[m].next
        /\ buf'[k].status # "COMPLETED" /\ irq' = TRUE
    BY <1>2, <2>1, StartShape
  <2>3. /\ buf'[k].inUse = obj.inUse /\ buf'[k].flag = obj.flag
        /\ buf'[k].token = obj.token /\ buf'[k].next = obj.next
    BY <1>2, <2>2
  <2> QED BY <1>2, <2>2, <2>3 DEF NewObject
<1> HIDE DEF bufs
<1>4. /\ handles' \in Seq([token : 0 .. TokenMax - 1, index : Buffers])
      /\ Len(handles') = 1 /\ handles' # <<>>
      /\ handles'[1] = [token |-> token, index |-> k]
  BY <1>1, TakenHandles DEF IInv
<1>5. /\ \A n \in 1 .. Len(handles') : n = 1
      /\ Index(1)' = k
  BY <1>4 DEF Index
<1>6. ~HeadDone' /\ FirstPending' = k
  BY <1>3 DEF HeadDone, FirstPending
<1>7. ShapeOK'
  BY <1>3, <1>4, NextTokenType DEF IInv, ShapeOK
<1>8. Listed(k)' /\ \A m \in Buffers : m # k => ~Listed(m)'
  BY <1>1, <1>3 DEF Listed
<1>9. ListIsHandles'
  BY <1>3, <1>4, <1>5, <1>6 DEF ListIsHandles
<1>10. HandlesValid' /\ HandlesDiffer'
  BY <1>3, <1>4, <1>5, <1>8 DEF HandlesValid, HandlesDiffer
<1>11. ListedKnown'
  BY <1>4, <1>5, <1>6, <1>8 DEF ListedKnown
<1>12. EventsValid'
  <2>1. ASSUME NEW n \in 1 .. Len(events)
        PROVE  /\ events[n] \in Buffers /\ events[n] # k
               /\ buf'[events[n]].inUse /\ ~Listed(events[n])'
    BY <1>3, <1>8 DEF IInv, ShapeOK, EventsValid
  <2>2. ASSUME NEW m \in Buffers, buf'[m].inUse, ~Listed(m)'
        PROVE  \E n \in 1 .. Len(events) : events[n] = m
    BY <1>1, <1>3, <1>8, <2>2 DEF IInv, EventsValid
  <2> QED BY <2>1, <2>2 DEF IInv, EventsValid
<1>13. FlagRaised'
  BY <1>3, <1>6, NoneOutside DEF FlagRaised
<1> QED BY <1>7, <1>9, <1>10, <1>11, <1>12, <1>13 DEF IInv

\* The list is not empty: the request is linked behind the last object.
LEMMA LaterRequest ==
    ASSUME IInv, NEW k \in Buffers, ~buf[k].inUse, writeEraseQ # None,
           NEW obj, NewObject(obj), NEW l \in Buffers, Last(l),
           buf' = [buf EXCEPT ![k] = obj, ![l].next = k],
           handles' = Append(handles, [token |-> token, index |-> k]),
           token' = NextToken, UNCHANGED <<writeEraseQ, events, irq>>
    PROVE  IInv'
<1> DEFINE last == [buf[l] EXCEPT !.next = k]
<1>0. PICK N \in Nat : N = Len(handles)
  BY DEF IInv, ShapeOK
<1>1. /\ buf \in [Buffers -> Shape] /\ buf[l] \in Shape
      /\ Listed(l) /\ buf[l].next = None /\ l # k
  BY DEF IInv, ShapeOK, Last, Listed
<1>2. /\ last \in Shape /\ last.next = k
      /\ last.inUse = buf[l].inUse /\ last.flag = buf[l].flag
      /\ last.token = buf[l].token /\ last.status = buf[l].status
  BY <1>1 DEF Shape
<1>3. buf' = [buf EXCEPT ![k] = obj, ![l] = last]
  BY <1>1
<1> HIDE DEF last
<1>4. /\ buf' \in [Buffers -> Shape] /\ buf'[k] = obj /\ buf'[l].next = k
      /\ \A m \in Buffers : m # k => /\ buf'[m].inUse  = buf[m].inUse
                                     /\ buf'[m].flag   = buf[m].flag
                                     /\ buf'[m].status = buf[m].status
                                     /\ buf'[m].token  = buf[m].token
                                     /\ m # l => buf'[m].next = buf[m].next
  BY <1>1, <1>2, <1>3 DEF NewObject
<1>5. /\ handles' \in Seq([token : 0 .. TokenMax - 1, index : Buffers])
      /\ Len(handles') = N + 1 /\ N \in Nat /\ handles' # <<>>
      /\ \A n \in 1 .. N : handles'[n] = handles[n]
      /\ handles'[N + 1] = [token |-> token, index |-> k]
  BY <1>0, TakenHandles DEF IInv
<1>6. /\ \A n \in 1 .. N : /\ Index(n)' = Index(n) /\ Index(n) \in Buffers
                           /\ Index(n) # k /\ buf[Index(n)].inUse
      /\ Index(N + 1)' = k
      /\ handles # <<>> => N \in 1 .. N /\ 1 \in 1 .. N
      /\ handles = <<>> => N = 0
  <2>1. \A n \in 1 .. N : Index(n) \in Buffers /\ buf[Index(n)].inUse
    BY <1>0, IndexType DEF IInv, HandlesValid, Listed
  <2>2. /\ handles # <<>> => N \in 1 .. N /\ 1 \in 1 .. N
        /\ handles = <<>> => N = 0
    BY <1>0 DEF IInv, ShapeOK
  <2>3. \A n \in 1 .. N : Index(n) # k
    BY <2>1
  <2>4. \A n \in 1 .. N : Index(n)' = Index(n)
    BY <1>5 DEF Index
  <2>5. Index(N + 1)' = k
    BY <1>5 DEF Index
  <2> QED BY <2>1, <2>2, <2>3, <2>4, <2>5
<1>7. IF handles = <<>> THEN HeadDone /\ l = writeEraseQ ELSE l = Index(N)
  BY <1>0, LastKnown
<1>8. writeEraseQ \in Buffers /\ writeEraseQ # k
  <2>1. writeEraseQ \in Buffers
    BY DEF IInv, ShapeOK
  <2>2. CASE HeadDone
    BY <2>1, <2>2 DEF IInv, ListedKnown, Listed
  <2>3. CASE ~HeadDone
    <3>1. handles # <<>> /\ Index(1) = writeEraseQ
      BY <2>3 DEF IInv, ListIsHandles, FirstPending
    <3> QED BY <3>1, <1>6
  <2> QED BY <2>1, <2>2, <2>3
<1>9. HeadDone' <=> HeadDone
  BY <1>4, <1>8 DEF HeadDone
<1>10. FirstPending' = IF handles = <<>> THEN k ELSE FirstPending
  <2>1. CASE handles = <<>>
    BY <2>1, <1>4, <1>7, <1>9 DEF FirstPending
  <2>2. CASE handles # <<>>
    <3>1. HeadDone => writeEraseQ # l
      BY <1>0, <2>2, <1>6, <1>7 DEF IInv, HandlesValid, HeadDone
    <3> QED BY <2>2, <3>1, <1>4, <1>8, <1>9 DEF FirstPending
  <2> QED BY <2>1, <2>2
<1>11. /\ Listed(k)'
       /\ \A m \in Buffers : m # k => (Listed(m)' <=> Listed(m))
  BY <1>4 DEF Listed, NewObject
<1>12. ShapeOK'
  BY <1>4, <1>5, NextTokenType DEF IInv, ShapeOK
<1>13. ListIsHandles'
  <2>1. Index(1)' = FirstPending'
    BY <1>0, <1>5, <1>6, <1>10 DEF IInv, ListIsHandles
  <2>2. buf'[Index(Len(handles))'].next = None
    <3>1. Index(Len(handles))' = k
      BY <1>5, <1>6
    <3> QED BY <3>1, <1>4 DEF NewObject
  <2>3. ASSUME NEW n \in 1 .. Len(handles'), n + 1 \in 1 .. Len(handles')
        PROVE  buf'[Index(n)'].next = Index(n + 1)'
    <3>1. n \in 1 .. N
      BY <2>3, <1>5
    <3>2. CASE n = N
      BY <3>1, <3>2, <1>4, <1>6, <1>7
    <3>3. CASE n # N
      <4>1. n + 1 \in 1 .. N
        BY <3>1, <3>3, <1>5
      <4>2. buf[Index(n)].next = Index(n + 1)
        BY <1>0, <3>1, <4>1 DEF IInv, ListIsHandles
      <4>3. Index(n) # l
        BY <4>1, <4>2, <1>1, <1>6, NoneOutside
      <4> QED BY <3>1, <4>1, <4>2, <4>3, <1>4, <1>6
    <3> QED BY <3>2, <3>3
  <2> QED BY <2>1, <2>2, <2>3, <1>5 DEF ListIsHandles
<1>14. HandlesValid'
  <2>1. ASSUME NEW n \in 1 .. Len(handles')
        PROVE  /\ Listed(Index(n))' /\ buf'[Index(n)'].token = handles'[n].token
               /\ buf'[Index(n)'].status # "COMPLETED"
    <3>1. CASE n \in 1 .. N
      BY <1>0, <3>1, <1>4, <1>5, <1>6, <1>11 DEF IInv, HandlesValid
    <3>2. CASE n = N + 1
      BY <3>2, <1>4, <1>5, <1>6, <1>11 DEF NewObject
    <3> QED BY <3>1, <3>2, <1>5
  <2> QED BY <2>1 DEF HandlesValid
<1>15. HandlesDiffer'
  BY <1>0, <1>5, <1>6 DEF IInv, HandlesDiffer
<1>16. ListedKnown'
  <2>1. HeadDone' => Listed(writeEraseQ)'
    BY <1>8, <1>9, <1>11 DEF IInv, ListedKnown
  <2>2. ASSUME NEW m \in Buffers, Listed(m)'
        PROVE  \/ HeadDone' /\ m = writeEraseQ'
               \/ \E n \in 1 .. Len(handles') : m = Index(n)'
    <3>1. CASE m = k
      BY <3>1, <1>5, <1>6
    <3>2. CASE m # k
      BY <1>0, <2>2, <3>2, <1>5, <1>6, <1>9, <1>11 DEF IInv, ListedKnown
    <3> QED BY <3>1, <3>2
  <2> QED BY <2>1, <2>2 DEF ListedKnown
<1>17. EventsValid'
  <2>1. ASSUME NEW n \in 1 .. Len(events)
        PROVE  /\ buf'[events[n]].inUse
               /\ Listed(events[n])' => HeadDone' /\ events[n] = writeEraseQ'
    BY <1>4, <1>9, <1>11 DEF IInv, ShapeOK, EventsValid
  <2>2. ASSUME NEW m \in Buffers, buf'[m].inUse, ~Listed(m)'
        PROVE  \E n \in 1 .. Len(events) : events[n] = m
    BY <1>4, <1>11, <2>2 DEF IInv, EventsValid
  <2> QED BY <2>1, <2>2 DEF IInv, EventsValid
<1>18. FlagRaised'
  BY <1>9 DEF IInv, FlagRaised
<1> QED BY <1>12, <1>13, <1>14, <1>15, <1>16, <1>17, <1>18 DEF IInv

LEMMA RequestStep ==
    ASSUME IInv, NEW flag \in Flags \ {"NONE"}, NEW block \in Int, NEW n \in Int,
           NEW size \in Int, Request(flag, block, n, size)
    PROVE  IInv'
<1> DEFINE obj == [inUse |-> TRUE, flag |-> flag, status |-> "QUEUED",
                   token |-> token, next |-> None,
                   pending |-> IF flag = "ERASE_WRITE" THEN 0 ELSE n,
                   size |-> n * size,
                   blockSize |-> IF flag = "ERASE_WRITE" THEN 0 ELSE size,
                   flashMem |-> block * size, appData |-> 0]
           started == [obj EXCEPT !.status = "IN_PROGRESS"]
<1>1. PICK k \in Buffers : /\ FirstFree(k) /\ Enqueue(k, obj)
                           /\ handles' = Append(handles, [token |-> token, index |-> k])
                           /\ token' = NextToken /\ UNCHANGED events
  BY DEF Request, Accepted, eventVars
<1>2. ~buf[k].inUse
  BY <1>1 DEF FirstFree
<1>3. NewObject(obj)
  <2>1. token \in 0 .. TokenMax - 1 /\ None \in Buffers \cup {None}
    BY DEF IInv, ShapeOK
  <2>2. n * size \in Int /\ block * size \in Int
    OBVIOUS
  <2>3. obj \in Shape
    BY <2>1, <2>2 DEF Shape
  <2> QED BY <2>3 DEF NewObject
<1>4. NewObject(started)
  <2> DEFINE st == "IN_PROGRESS"
             s  == [obj EXCEPT !.status = st]
  <2>1. st \in {"COMPLETED", "QUEUED", "IN_PROGRESS"} /\ st # "COMPLETED"
    OBVIOUS
  <2>2. /\ obj \in Shape /\ obj.inUse /\ obj.flag # "NONE"
        /\ obj.token = token /\ obj.next = None
    BY <1>3 DEF NewObject
  <2> HIDE DEF obj, st
  <2>3. SameButNumbers(s, obj) /\ s.status = st
    BY <2>1, <2>2 DEF Shape, SameButNumbers
  <2> HIDE DEF s
  <2>4. NewObject(s)
    BY <2>1, <2>2, <2>3 DEF NewObject, SameButNumbers
  <2> QED BY <2>4 DEF s, st
<1>5. CASE writeEraseQ = None
  <2>1. writeEraseQ' = k /\ Start([buf EXCEPT ![k] = started], k)
    BY <1>1, <1>5 DEF Enqueue
  <2> HIDE DEF obj, started
  <2> QED BY <1>1, <1>2, <1>4, <1>5, <2>1, FirstRequest
<1>6. CASE writeEraseQ # None
  <2>1. PICK l \in Buffers : Last(l) /\ buf' = [buf EXCEPT ![k] = obj, ![l].next = k]
    BY <1>1, <1>6 DEF Enqueue
  <2>2. UNCHANGED <<writeEraseQ, irq>>
    BY <1>1, <1>6 DEF Enqueue
  <2> HIDE DEF obj, started
  <2> QED BY <1>1, <1>2, <1>3, <1>6, <2>1, <2>2, LaterRequest
<1> QED BY <1>5, <1>6
----------------------------------------------------------------------------
\* Reads.

LEMMA HeadListed ==
    ASSUME IInv, writeEraseQ # None
    PROVE  writeEraseQ \in Buffers /\ Listed(writeEraseQ)
<1>1. writeEraseQ \in Buffers
  BY DEF IInv, ShapeOK
<1>2. CASE HeadDone
  BY <1>1, <1>2 DEF IInv, ListedKnown
<1>3. CASE ~HeadDone
  <2>1. handles # <<>> /\ Index(1) = writeEraseQ
    BY <1>3 DEF IInv, ListIsHandles, FirstPending
  <2>2. 1 \in 1 .. Len(handles)
    BY <2>1 DEF IInv, ShapeOK
  <2> QED BY <1>1, <2>1, <2>2 DEF IInv, HandlesValid
<1> QED BY <1>2, <1>3

\* An object that is not on the list, before and after, does not matter to it.
LEMMA UnlistedChanged ==
    ASSUME IInv, NEW k \in Buffers, ~Listed(k), NEW obj \in Shape,
           obj.flag = "NONE", buf' = [buf EXCEPT ![k] = obj],
           token' \in 0 .. TokenMax - 1, events' \in Seq(Buffers),
           UNCHANGED <<writeEraseQ, handles, irq>>
    PROVE  /\ ShapeOK' /\ ListIsHandles' /\ HandlesValid' /\ HandlesDiffer'
           /\ ListedKnown' /\ FlagRaised'
           /\ HeadDone' <=> HeadDone
           /\ buf'[k] = obj /\ \A m \in Buffers : m # k => buf'[m] = buf[m]
           /\ \A m \in Buffers : Listed(m)' <=> Listed(m)
<1>1. /\ buf' \in [Buffers -> Shape] /\ buf'[k] = obj
      /\ \A m \in Buffers : m # k => buf'[m] = buf[m]
  BY DEF IInv, ShapeOK
<1>2. \A m \in Buffers : Listed(m)' <=> Listed(m)
  BY <1>1 DEF Listed
<1>3. writeEraseQ # None => writeEraseQ \in Buffers /\ writeEraseQ # k
  BY HeadListed
<1>4. /\ HeadDone' <=> HeadDone
      /\ FirstPending' = FirstPending
  BY <1>1, <1>3 DEF HeadDone, FirstPending
<1>5. \A n \in 1 .. Len(handles) : /\ Index(n)' = Index(n) /\ Index(n) \in Buffers
                                   /\ buf'[Index(n)] = buf[Index(n)]
  <2>1. \A n \in 1 .. Len(handles) : Index(n) \in Buffers /\ Index(n) # k
    BY IndexType DEF IInv, HandlesValid
  <2> QED BY <1>1, <2>1 DEF Index
<1>6. handles # <<>> => Len(handles) \in 1 .. Len(handles) /\ 1 \in 1 .. Len(handles)
  BY DEF IInv, ShapeOK
<1>7. ShapeOK'
  BY <1>1 DEF IInv, ShapeOK
<1>8. ListIsHandles'
  BY <1>4, <1>5, <1>6 DEF IInv, ListIsHandles, Index
<1>9. HandlesValid' /\ HandlesDiffer'
  BY <1>2, <1>5 DEF IInv, HandlesValid, HandlesDiffer
<1>10. ListedKnown'
  <2>1. HeadDone => writeEraseQ \in Buffers
    BY <1>3 DEF HeadDone
  <2> QED BY <1>2, <1>4, <1>5, <2>1 DEF IInv, ListedKnown
<1>11. FlagRaised'
  BY <1>4 DEF IInv, FlagRaised
<1> QED BY <1>1, <1>2, <1>4, <1>7, <1>8, <1>9, <1>10, <1>11

LEMMA ReadStep == ASSUME IInv, DRV_NVM_Read PROVE IInv'
<1>1. PICK k \in Buffers :
        /\ FirstFree(k)
        /\ buf' = [buf EXCEPT ![k] = [Free EXCEPT !.inUse = TRUE, !.token = token]]
        /\ events' = <<k>> \o events
        /\ UNCHANGED <<writeEraseQ, token, irq, handles>>
  BY DEF DRV_NVM_Read, EventBegins, historyVars
<1> DEFINE obj == [Free EXCEPT !.inUse = TRUE, !.token = token]
<1>2. /\ obj \in Shape /\ obj.inUse /\ obj.flag = "NONE"
      /\ token \in 0 .. TokenMax - 1
  BY FreeShape DEF IInv, ShapeOK, Free, Shape, Flags
<1>3. ~buf[k].inUse /\ ~Listed(k)
  BY <1>1 DEF FirstFree, Listed
<1>4. /\ events \in Seq(Buffers) /\ events' \in Seq(Buffers)
      /\ Len(events') = Len(events) + 1 /\ events'[1] = k
      /\ \A n \in 1 .. Len(events) : events'[n + 1] = events[n]
      /\ \A n \in 2 .. Len(events') : n - 1 \in 1 .. Len(events)
                                      /\ events'[n] = events[n - 1]
      /\ Len(events) \in Nat
  <2>1. events \in Seq(Buffers) /\ <<k>> \in Seq(Buffers)
    BY DEF IInv, ShapeOK
  <2> QED BY <1>1, <2>1
<1>5. buf' = [buf EXCEPT ![k] = obj]
  BY <1>1
<1> HIDE DEF obj
<1>6. /\ ShapeOK' /\ ListIsHandles' /\ HandlesValid' /\ HandlesDiffer'
      /\ ListedKnown' /\ FlagRaised'
      /\ HeadDone' <=> HeadDone
      /\ buf'[k] = obj /\ \A m \in Buffers : m # k => buf'[m] = buf[m]
      /\ \A m \in Buffers : Listed(m)' <=> Listed(m)
  BY <1>1, <1>2, <1>3, <1>4, <1>5, UnlistedChanged
<1>7. EventsValid'
  <2>1. \A n \in 1 .. Len(events) : events[n] \in Buffers /\ events[n] # k
    BY <1>3, <1>4 DEF IInv, EventsValid
  <2>2. ASSUME NEW n \in 1 .. Len(events'), NEW o \in Buffers, events'[n] = o
        PROVE  buf'[o].inUse /\ (Listed(o)' => HeadDone' /\ o = writeEraseQ')
    <3>1. CASE n = 1
      BY <2>2, <3>1, <1>2, <1>3, <1>4, <1>6
    <3>2. CASE n # 1
      <4>1. n - 1 \in 1 .. Len(events) /\ o = events[n - 1]
        BY <2>2, <3>2, <1>4
      <4>2. buf[o].inUse /\ (Listed(o) => HeadDone /\ o = writeEraseQ) /\ o # k
        BY <4>1, <2>1 DEF IInv, EventsValid
      <4> QED BY <4>2, <1>1, <1>6
    <3> QED BY <3>1, <3>2
  <2>3. ASSUME NEW m \in 1 .. Len(events'), NEW n \in 1 .. Len(events'),
               events'[m] = events'[n]
        PROVE  m = n
    <3>1. m = 1 \/ (m - 1 \in 1 .. Len(events) /\ events'[m] = events[m - 1])
      BY <1>4
    <3>2. n = 1 \/ (n - 1 \in 1 .. Len(events) /\ events'[n] = events[n - 1])
      BY <1>4
    <3> QED BY <2>1, <2>3, <3>1, <3>2, <1>4 DEF IInv, EventsValid
  <2>4. ASSUME NEW m \in Buffers, buf'[m].inUse, ~Listed(m)'
        PROVE  \E n \in 1 .. Len(events') : events'[n] = m
    <3>1. CASE m = k
      BY <3>1, <1>4
    <3>2. CASE m # k
      <4>1. PICK n \in 1 .. Len(events) : events[n] = m
        BY <2>4, <3>2, <1>6 DEF IInv, EventsValid
      <4>2. n + 1 \in 1 .. Len(events') /\ events'[n + 1] = m
        BY <4>1, <1>4
      <4> QED BY <4>2
    <3> QED BY <3>1, <3>2
  <2>5. \A n \in 1 .. Len(events') : events'[n] \in Buffers
    BY <1>4
  <2> QED BY <2>2, <2>3, <2>4, <2>5 DEF EventsValid, Listed
<1> QED BY <1>6, <1>7 DEF IInv

\* What the innermost handler returning means for the events.
LEMMA HandlerReturned ==
    ASSUME IInv, events # <<>>, events' = Tail(events)
    PROVE  /\ Head(events) \in Buffers /\ Head(events) = events[1]
           /\ events' \in Seq(Buffers) /\ events \in Seq(Buffers)
           /\ Len(events) \in Nat /\ Len(events') = Len(events) - 1
           /\ 1 \in 1 .. Len(events)
           /\ \A n \in 1 .. Len(events') : /\ n + 1 \in 1 .. Len(events)
                                           /\ events'[n] = events[n + 1]
                                           /\ events'[n] # Head(events)
           /\ \A n \in 1 .. Len(events) :
                n # 1 => n - 1 \in 1 .. Len(events') /\ events'[n - 1] = events[n]
<1>1. events \in Seq(Buffers)
  BY DEF IInv, ShapeOK
<1>2. /\ Head(events) = events[1] /\ events' \in Seq(Buffers)
      /\ Len(events) \in Nat /\ Len(events') = Len(events) - 1
      /\ 1 \in 1 .. Len(events)
      /\ \A n \in 1 .. Len(events') : /\ n + 1 \in 1 .. Len(events)
                                      /\ events'[n] = events[n + 1]
  BY <1>1
<1>3. Head(events) \in Buffers
  BY <1>1
<1>4. \A n \in 1 .. Len(events') : events'[n] # Head(events)
  <2>1. ASSUME NEW n \in 1 .. Len(events'), events'[n] = Head(events) PROVE FALSE
    <3>1. n + 1 \in 1 .. Len(events) /\ events[n + 1] = events[1] /\ n + 1 # 1
      BY <2>1, <1>2
    <3> QED BY <3>1, <1>2 DEF IInv, EventsValid
  <2> QED BY <2>1
<1>5. \A n \in 1 .. Len(events) :
        n # 1 => n - 1 \in 1 .. Len(events') /\ events'[n - 1] = events[n]
  BY <1>1, <1>2
<1> QED BY <1>1, <1>2, <1>3, <1>4, <1>5

LEMMA ReadReleaseStep == ASSUME IInv, Read_Release PROVE IInv'
<1> DEFINE k == Head(events)
<1>1. /\ events # <<>> /\ ~Listed(k) /\ buf' = [buf EXCEPT ![k] = Free]
      /\ events' = Tail(events) /\ token' = NextToken
      /\ UNCHANGED <<writeEraseQ, irq, handles>>
  BY DEF Read_Release, EventEnds, historyVars
<1>2. /\ k \in Buffers /\ k = events[1]
      /\ events' \in Seq(Buffers) /\ events \in Seq(Buffers)
      /\ Len(events) \in Nat /\ Len(events') = Len(events) - 1
      /\ \A n \in 1 .. Len(events') : /\ n + 1 \in 1 .. Len(events)
                                      /\ events'[n] = events[n + 1]
                                      /\ events'[n] # k
      /\ \A n \in 1 .. Len(events) :
           n # 1 => n - 1 \in 1 .. Len(events') /\ events'[n - 1] = events[n]
  BY <1>1, HandlerReturned
<1> HIDE DEF k
<1>3. Free \in Shape /\ Free.flag = "NONE" /\ ~Free.inUse
  BY FreeShape DEF Free
<1>4. token' \in 0 .. TokenMax - 1
  BY <1>1, NextTokenType DEF IInv, ShapeOK
<1>5. /\ ShapeOK' /\ ListIsHandles' /\ HandlesValid' /\ HandlesDiffer'
      /\ ListedKnown' /\ FlagRaised'
      /\ HeadDone' <=> HeadDone
      /\ buf'[k] = Free /\ \A m \in Buffers : m # k => buf'[m] = buf[m]
      /\ \A m \in Buffers : Listed(m)' <=> Listed(m)
  BY <1>1, <1>2, <1>3, <1>4, UnlistedChanged
<1>6. EventsValid'
  <2>1. ASSUME NEW n \in 1 .. Len(events'), NEW o \in Buffers, events'[n] = o
        PROVE  buf'[o].inUse /\ (Listed(o)' => HeadDone' /\ o = writeEraseQ')
    <3>1. n + 1 \in 1 .. Len(events) /\ o = events[n + 1] /\ o # k
      BY <2>1, <1>2
    <3>2. buf[o].inUse /\ (Listed(o) => HeadDone /\ o = writeEraseQ)
      BY <3>1 DEF IInv, EventsValid
    <3> QED BY <3>1, <3>2, <1>1, <1>5
  <2>2. ASSUME NEW m \in 1 .. Len(events'), NEW n \in 1 .. Len(events'),
               events'[m] = events'[n]
        PROVE  m = n
    <3>1. m + 1 = n + 1
      BY <2>2, <1>2 DEF IInv, EventsValid
    <3> QED BY <3>1, <1>2
  <2>3. ASSUME NEW m \in Buffers, buf'[m].inUse, ~Listed(m)'
        PROVE  \E n \in 1 .. Len(events') : events'[n] = m
    <3>1. m # k
      BY <2>3, <1>3, <1>5
    <3>2. PICK n \in 1 .. Len(events) : events[n] = m
      BY <2>3, <3>1, <1>5 DEF IInv, EventsValid
    <3>3. n # 1
      BY <3>1, <3>2, <1>2
    <3> QED BY <3>2, <3>3, <1>2
  <2>4. \A n \in 1 .. Len(events') : events'[n] \in Buffers
    BY <1>2
  <2> QED BY <2>1, <2>2, <2>3, <2>4 DEF EventsValid, Listed
<1> QED BY <1>5, <1>6 DEF IInv
----------------------------------------------------------------------------
\* The end of a request.

LEMMA CompleteStep == ASSUME IInv, Tasks_Complete PROVE IInv'
<1> DEFINE b  == head
           p  == 0
           st == "COMPLETED"
           r  == [b EXCEPT !.status = st, !.pending = p]
<1>1. /\ irq = TRUE /\ irq' = FALSE /\ events = <<>> /\ events' = <<writeEraseQ>>
      /\ handles' = Tail(handles) /\ UNCHANGED <<writeEraseQ, token>>
      /\ buf' = [buf EXCEPT ![writeEraseQ] = r]
  <2>1. /\ irq = TRUE /\ irq' = FALSE /\ events = <<>>
        /\ events' = <<writeEraseQ>> \o events
        /\ handles' = Tail(handles) /\ UNCHANGED <<writeEraseQ, token>>
        /\ buf' = [buf EXCEPT ![writeEraseQ] = r]
    BY DEF Tasks_Complete, EventBegins, head, IInv, ShapeOK
  <2>2. \A x : <<x>> \o <<>> = <<x>>
    OBVIOUS
  <2> QED BY <2>1, <2>2
<1>2. PICK w \in Buffers : /\ w = writeEraseQ /\ w = writeEraseQ'
                           /\ ~HeadDone /\ FirstPending = w
                           /\ buf \in [Buffers -> Shape]
  BY <1>1 DEF IInv, ShapeOK, FlagRaised, FirstPending
<1>3. b \in Shape /\ p \in Int /\ st \in {"COMPLETED", "QUEUED", "IN_PROGRESS"}
  BY <1>1, HeadType
<1> HIDE DEF b, p, st
<1>4. SameButNumbers(r, b) /\ r.status = st
  BY <1>3 DEF Shape, SameButNumbers
<1> HIDE DEF r
<1>5. SameButNumbers(r, buf[w]) /\ r.status = "COMPLETED"
  BY <1>2, <1>4 DEF b, st, head
<1>6. /\ buf' \in [Buffers -> Shape] /\ buf'[w].status = "COMPLETED"
      /\ \A m \in Buffers : /\ buf'[m].inUse = buf[m].inUse
                            /\ buf'[m].flag  = buf[m].flag
                            /\ buf'[m].token = buf[m].token
                            /\ buf'[m].next  = buf[m].next
                            /\ m # w => buf'[m].status = buf[m].status
  BY <1>1, <1>2, <1>5, ObjectReplaced
<1>7. \A m \in Buffers : Listed(m)' <=> Listed(m)
  BY <1>6 DEF Listed
<1>8. HeadDone' /\ FirstPending' = buf[w].next
  BY <1>1, <1>2, <1>6, NoneOutside DEF HeadDone, FirstPending
<1>9. /\ handles # <<>> /\ Index(1) = w
      /\ handles \in Seq([token : 0 .. TokenMax - 1, index : Buffers])
  <2>1. w # None
    BY <1>2, NoneOutside
  <2> QED BY <1>2, <2>1 DEF IInv, ShapeOK, ListIsHandles
<1>10. /\ handles' \in Seq([token : 0 .. TokenMax - 1, index : Buffers])
       /\ Len(handles) \in Nat /\ Len(handles') = Len(handles) - 1
       /\ 1 \in 1 .. Len(handles) /\ Len(handles) \in 1 .. Len(handles)
       /\ \A n \in 1 .. Len(handles') : /\ n + 1 \in 1 .. Len(handles)
                                        /\ handles'[n] = handles[n + 1]
       /\ \A n \in 1 .. Len(handles) :
            n # 1 => n - 1 \in 1 .. Len(handles') /\ handles'[n - 1] = handles[n]
  BY <1>1, <1>9
<1>11. ASSUME NEW n \in 1 .. Len(handles')
       PROVE  /\ n + 1 \in 1 .. Len(handles) /\ Index(n)' = Index(n + 1)
              /\ Index(n + 1) \in Buffers /\ Index(n + 1) # w
              /\ handles'[n].token = handles[n + 1].token
  <2>1. n + 1 \in 1 .. Len(handles) /\ handles'[n] = handles[n + 1]
    BY <1>10
  <2>2. Index(n + 1) \in Buffers
    BY <2>1, IndexType DEF IInv
  <2>3. Index(n + 1) # Index(1)
    <3>1. n + 1 # 1 /\ 1 \in 1 .. Len(handles)
      BY <1>10
    <3> QED BY <2>1, <3>1 DEF IInv, HandlesDiffer
  <2> QED BY <2>1, <2>2, <2>3, <1>9 DEF Index
<1>12. ShapeOK'
  <2>1. events' \in Seq(Buffers)
    BY <1>1, <1>2
  <2> QED BY <2>1, <1>1, <1>2, <1>6, <1>10 DEF IInv, ShapeOK
<1>13. ListIsHandles'
  <2>1. handles' = <<>> => FirstPending' = None
    <3>1. handles' = <<>> => Len(handles) = 1
      BY <1>10
    <3> QED BY <3>1, <1>8, <1>9 DEF IInv, ListIsHandles
  <2>2. ASSUME handles' # <<>>
        PROVE  /\ handles'[1].index = FirstPending'
               /\ buf'[handles'[Len(handles')].index].next = None
    <3>1. 1 \in 1 .. Len(handles') /\ Len(handles') \in 1 .. Len(handles')
      BY <2>2, <1>10
    <3>2. handles'[1].index = Index(2) /\ 2 \in 1 .. Len(handles)
      BY <3>1, <1>10 DEF Index
    <3>3. Index(2) = buf[w].next
      <4>1. 1 + 1 = 2
        OBVIOUS
      <4> QED BY <4>1, <3>2, <1>9, <1>10 DEF IInv, ListIsHandles
    <3>4. /\ handles'[Len(handles')].index = Index(Len(handles))
          /\ Index(Len(handles)) \in Buffers
      <4>1. Len(handles') + 1 = Len(handles)
        BY <1>10
      <4> QED BY <3>1, <4>1, <1>10, IndexType DEF Index, IInv
    <3> QED BY <3>2, <3>3, <3>4, <1>6, <1>8, <1>9 DEF IInv, ListIsHandles
  <2>3. ASSUME NEW n \in 1 .. Len(handles'), n + 1 \in 1 .. Len(handles')
        PROVE  buf'[handles'[n].index].next = handles'[n + 1].index
    <3>1. /\ handles'[n].index = Index(n + 1) /\ Index(n + 1) \in Buffers
          /\ n + 1 \in 1 .. Len(handles)
      BY <1>11 DEF Index
    <3>2. handles'[n + 1].index = Index((n + 1) + 1) /\ (n + 1) + 1 \in 1 .. Len(handles)
      BY <2>3, <1>10 DEF Index
    <3>3. buf[Index(n + 1)].next = Index((n + 1) + 1)
      BY <3>1, <3>2 DEF IInv, ListIsHandles
    <3> QED BY <3>1, <3>2, <3>3, <1>6
  <2> QED BY <2>1, <2>2, <2>3 DEF ListIsHandles, Index
<1>14. HandlesValid'
  <2>1. ASSUME NEW n \in 1 .. Len(handles'), NEW o \in Buffers, handles'[n].index = o
        PROVE  /\ Listed(o)' /\ buf'[o].token = handles'[n].token
               /\ buf'[o].status # "COMPLETED"
    <3>1. /\ n + 1 \in 1 .. Len(handles) /\ o = Index(n + 1) /\ o # w
          /\ handles'[n].token = handles[n + 1].token
      BY <2>1, <1>11 DEF Index
    <3>2. /\ Listed(o) /\ buf[o].token = handles[n + 1].token
          /\ buf[o].status # "COMPLETED"
      BY <3>1 DEF IInv, HandlesValid
    <3> QED BY <3>1, <3>2, <1>6, <1>7
  <2>2. \A n \in 1 .. Len(handles') : handles'[n].index \in Buffers
    BY <1>11 DEF Index
  <2> QED BY <2>1, <2>2 DEF HandlesValid, Index, Listed
<1>15. HandlesDiffer'
  <2>1. ASSUME NEW m \in 1 .. Len(handles'), NEW n \in 1 .. Len(handles'),
               handles'[m].index = handles'[n].index
        PROVE  m = n
    <3>1. /\ m + 1 \in 1 .. Len(handles) /\ n + 1 \in 1 .. Len(handles)
          /\ Index(m + 1) = Index(n + 1)
      BY <2>1, <1>11 DEF Index
    <3>2. m + 1 = n + 1
      BY <3>1 DEF IInv, HandlesDiffer
    <3> QED BY <3>2, <1>10
  <2> QED BY <2>1 DEF HandlesDiffer, Index
<1>16. ListedKnown'
  <2>1. Listed(w)'
    <3>1. Listed(w)
      BY <1>9, <1>10 DEF IInv, HandlesValid
    <3> QED BY <3>1, <1>2, <1>7
  <2>2. ASSUME NEW k \in Buffers, Listed(k)', k # w
        PROVE  \E n \in 1 .. Len(handles') : k = handles'[n].index
    <3>1. PICK n \in 1 .. Len(handles) : k = Index(n)
      BY <2>2, <1>2, <1>7 DEF IInv, ListedKnown
    <3>2. n # 1
      BY <2>2, <3>1, <1>9
    <3>3. n - 1 \in 1 .. Len(handles') /\ handles'[n - 1].index = k
      BY <3>1, <3>2, <1>10 DEF Index
    <3> QED BY <3>3
  <2> QED BY <2>1, <2>2, <1>2, <1>8 DEF ListedKnown, Index, Listed
<1>17. EventsValid'
  <2>1. Len(events') = 1 /\ events'[1] = w /\ Len(events) = 0
    BY <1>1, <1>2
  <2>2. \A n \in 1 .. Len(events') : n = 1 /\ events'[n] = w
    BY <2>1
  <2>3. buf'[w].inUse
    <3>1. Listed(w)
      BY <1>9, <1>10 DEF IInv, HandlesValid
    <3> QED BY <3>1, <1>2, <1>6 DEF Listed
  <2>4. \A k \in Buffers : buf'[k].inUse => Listed(k)'
    <3>1. \A k \in Buffers : buf[k].inUse => Listed(k)
      BY <2>1 DEF IInv, EventsValid
    <3> QED BY <3>1, <1>6, <1>7
  <2> QED BY <2>2, <2>3, <2>4, <1>2, <1>8 DEF EventsValid, Listed
<1>18. FlagRaised'
  BY <1>1, <1>8 DEF FlagRaised
<1> QED BY <1>12, <1>13, <1>14, <1>15, <1>16, <1>17, <1>18 DEF IInv

LEMMA ReleaseStep == ASSUME IInv, Tasks_Release PROVE IInv'
<1>1. /\ events # <<>> /\ Listed(Head(events)) /\ events' = Tail(events)
      /\ writeEraseQ' = head.next /\ UNCHANGED <<token, handles>>
      /\ StartNext([buf EXCEPT ![writeEraseQ] = Free], head.next)
  BY DEF Tasks_Release, EventEnds, historyVars
<1>2. /\ Head(events) \in Buffers /\ Head(events) = events[1]
      /\ events' \in Seq(Buffers) /\ events \in Seq(Buffers)
      /\ Len(events) \in Nat /\ Len(events') = Len(events) - 1
      /\ 1 \in 1 .. Len(events)
      /\ \A n \in 1 .. Len(events') : /\ n + 1 \in 1 .. Len(events)
                                      /\ events'[n] = events[n + 1]
                                      /\ events'[n] # Head(events)
      /\ \A n \in 1 .. Len(events) :
           n # 1 => n - 1 \in 1 .. Len(events') /\ events'[n - 1] = events[n]
  BY <1>1, HandlerReturned
<1>3. PICK w \in Buffers : /\ w = Head(events) /\ w = writeEraseQ
                           /\ HeadDone /\ Listed(w)
  BY <1>1, <1>2 DEF IInv, EventsValid
<1>4. PICK x \in Buffers \cup {None} : x = head.next
  BY <1>3 DEF IInv, ShapeOK, Shape, head
<1> DEFINE bufs == [buf EXCEPT ![w] = Free]
<1>5. /\ bufs \in [Buffers -> Shape] /\ bufs[w] = Free
      /\ \A m \in Buffers : m # w => bufs[m] = buf[m]
  BY FreeShape DEF IInv, ShapeOK
<1>6. StartNext(bufs, x) /\ writeEraseQ' = x
  BY <1>1, <1>3, <1>4
<1> HIDE DEF bufs
<1>7. FirstPending = x /\ buf[w].status = "COMPLETED" /\ irq = FALSE
  BY <1>3, <1>4 DEF FirstPending, HeadDone, head, IInv, FlagRaised, ShapeOK
<1>8. \A n \in 1 .. Len(handles) :
        /\ Index(n) \in Buffers /\ Index(n) # w /\ Listed(Index(n))
        /\ buf[Index(n)].token = handles[n].token
        /\ buf[Index(n)].status # "COMPLETED"
  BY <1>7, IndexType DEF IInv, HandlesValid
<1>9. x # None => /\ handles # <<>> /\ Index(1) = x /\ 1 \in 1 .. Len(handles)
                  /\ x \in Buffers /\ x # w
  <2>1. handles # <<>> => 1 \in 1 .. Len(handles)
    BY DEF IInv, ShapeOK
  <2> QED BY <2>1, <1>7, <1>8 DEF IInv, ListIsHandles
<1>10. x = None => handles = <<>>
  <2>1. handles # <<>> => 1 \in 1 .. Len(handles)
    BY DEF IInv, ShapeOK
  <2> QED BY <2>1, <1>7, <1>8, NoneOutside DEF IInv, ListIsHandles
\* What becomes of the objects and of the flag.
<1>11. /\ buf' \in [Buffers -> Shape]
       /\ \A m \in Buffers : /\ buf'[m].inUse = bufs[m].inUse
                             /\ buf'[m].flag  = bufs[m].flag
                             /\ buf'[m].token = bufs[m].token
                             /\ buf'[m].next  = bufs[m].next
       /\ \A m \in Buffers : bufs[m].status # "COMPLETED" /\ m # w
                                 => buf'[m].status # "COMPLETED"
       /\ x = None => irq' = FALSE
       /\ x # None => irq' = TRUE /\ buf'[x].status # "COMPLETED"
  <2>1. CASE x = None
    <3>1. buf' = bufs /\ irq' = irq
      BY <1>6, <2>1 DEF StartNext
    <3> QED BY <3>1, <2>1, <1>5, <1>7
  <2>2. CASE x # None
    <3>1. x \in Buffers /\ x # w /\ bufs[x].status # "COMPLETED"
      BY <2>2, <1>5, <1>8, <1>9
    <3>2. Start(bufs, x)
      BY <1>6, <2>2 DEF StartNext
    <3> QED BY <2>2, <3>1, <3>2, <1>5, StartShape
  <2> QED BY <2>1, <2>2
<1>12. /\ ~buf'[w].inUse
       /\ \A m \in Buffers : m # w =>
            /\ buf'[m].inUse = buf[m].inUse /\ buf'[m].flag = buf[m].flag
            /\ buf'[m].token = buf[m].token /\ buf'[m].next = buf[m].next
            /\ buf[m].status # "COMPLETED" => buf'[m].status # "COMPLETED"
            /\ Listed(m)' <=> Listed(m)
  BY <1>5, <1>11 DEF Free, Listed
<1> HIDE DEF bufs
<1>13. ~HeadDone' /\ FirstPending' = x
  BY <1>6, <1>11 DEF HeadDone, FirstPending
<1>14. ShapeOK'
  BY <1>1, <1>2, <1>6, <1>11 DEF IInv, ShapeOK
<1>15. ListIsHandles'
  <2>1. handles # <<>> => Len(handles) \in 1 .. Len(handles)
    BY DEF IInv, ShapeOK
  <2> QED BY <2>1, <1>1, <1>7, <1>8, <1>12, <1>13 DEF IInv, ListIsHandles, Index
<1>16. HandlesValid' /\ HandlesDiffer'
  <2>1. \A n \in 1 .. Len(handles) :
          /\ Listed(Index(n)) /\ Index(n) \in Buffers /\ Index(n) # w
          /\ buf'[Index(n)].inUse /\ buf'[Index(n)].flag # "NONE"
          /\ buf'[Index(n)].token = handles[n].token
          /\ buf'[Index(n)].status # "COMPLETED"
    BY <1>8, <1>12 DEF Listed
  <2> QED BY <2>1, <1>1 DEF IInv, HandlesValid, HandlesDiffer, Index, Listed
<1>17. ListedKnown'
  <2>1. \A k \in Buffers : Listed(k)' =>
          k # w /\ Listed(k) /\ \E n \in 1 .. Len(handles) : k = Index(n)
    <3>1. ~Listed(w)'
      BY <1>12 DEF Listed
    <3> QED BY <3>1, <1>3, <1>12 DEF IInv, ListedKnown
  <2> QED BY <2>1, <1>1, <1>13 DEF ListedKnown, Index
<1>18. EventsValid'
  <2>1. ASSUME NEW n \in 1 .. Len(events'), NEW o \in Buffers, events'[n] = o
        PROVE  buf'[o].inUse /\ ~Listed(o)'
    <3>1. n + 1 \in 1 .. Len(events) /\ o = events[n + 1] /\ o # w
      BY <2>1, <1>2, <1>3
    <3>2. buf[o].inUse /\ (Listed(o) => o = writeEraseQ)
      BY <3>1 DEF IInv, EventsValid
    <3> QED BY <3>1, <3>2, <1>3, <1>12
  <2>2. ASSUME NEW m \in 1 .. Len(events'), NEW n \in 1 .. Len(events'),
               events'[m] = events'[n]
        PROVE  m = n
    <3>1. m + 1 = n + 1
      BY <2>2, <1>2 DEF IInv, EventsValid
    <3> QED BY <3>1, <1>2
  <2>3. ASSUME NEW m \in Buffers, buf'[m].inUse, ~Listed(m)'
        PROVE  \E n \in 1 .. Len(events') : events'[n] = m
    <3>1. m # w
      BY <2>3, <1>12
    <3>2. PICK n \in 1 .. Len(events) : events[n] = m
      BY <2>3, <3>1, <1>12 DEF IInv, EventsValid
    <3>3. n # 1
      BY <3>1, <3>2, <1>2, <1>3
    <3> QED BY <3>2, <3>3, <1>2
  <2>4. \A n \in 1 .. Len(events') : events'[n] \in Buffers
    BY <1>2
  <2> QED BY <2>1, <2>2, <2>3, <2>4 DEF EventsValid, Listed
<1>19. FlagRaised'
  BY <1>6, <1>11, <1>13 DEF FlagRaised
<1> QED BY <1>14, <1>15, <1>16, <1>17, <1>18, <1>19 DEF IInv
----------------------------------------------------------------------------
\* Every step.

LEMMA HandlerSetStep ==
    ASSUME IInv, NEW set \in BOOLEAN, DRV_NVM_EventHandlerSet(set)
    PROVE  IInv'
<1>1. UNCHANGED <<buf, writeEraseQ, token, handles, events, irq>>
  BY DEF DRV_NVM_EventHandlerSet, workVars, historyVars
<1>2. buf' \in [Buffers -> Shape] /\ KeepsShape
  BY <1>1 DEF KeepsShape, IInv, ShapeOK
<1> QED BY <1>1, <1>2, ShapeKept

LEMMA StepIInv == IInv /\ [Next]_vars => IInv'
<1> SUFFICES ASSUME IInv, [Next]_vars PROVE IInv'
  OBVIOUS
<1>1. \A q \in Requests : q.block \in Int /\ q.n \in Int
  BY NvmAssumption
<1>2. 1 \in Int /\ RowsPerPage \in Int
  BY NvmAssumption
<1>3. CASE DRV_NVM_Write
  <2>1. PICK q \in Requests : q.kind = "WRITE" /\ Request(q.kind, q.block, q.n, 1)
    BY <1>3 DEF DRV_NVM_Write
  <2>2. q.kind \in Flags \ {"NONE"}
    BY <2>1 DEF Flags
  <2> QED BY <1>1, <1>2, <2>1, <2>2, RequestStep
<1>4. CASE DRV_NVM_Erase
  <2>1. PICK q \in Requests :
          q.kind = "ERASE" /\ Request(q.kind, q.block, q.n, RowsPerPage)
    BY <1>4 DEF DRV_NVM_Erase
  <2>2. q.kind \in Flags \ {"NONE"}
    BY <2>1 DEF Flags
  <2> QED BY <1>1, <1>2, <2>1, <2>2, RequestStep
<1>5. CASE DRV_NVM_EraseWrite
  <2>1. PICK q \in Requests :
          q.kind = "ERASE_WRITE" /\ Request(q.kind, q.block, q.n, 1)
    BY <1>5 DEF DRV_NVM_EraseWrite
  <2>2. q.kind \in Flags \ {"NONE"}
    BY <2>1 DEF Flags
  <2> QED BY <1>1, <1>2, <2>1, <2>2, RequestStep
<1>6. CASE DRV_NVM_Read
  BY <1>6, ReadStep
<1>7. CASE \E set \in BOOLEAN : DRV_NVM_EventHandlerSet(set)
  BY <1>7, HandlerSetStep
<1>8. CASE DRV_NVM_Tasks
  BY <1>8, CompleteStep, RowStep, EraseStep, MergeStep, NextPageStep
     DEF DRV_NVM_Tasks
<1>9. CASE Release
  BY <1>9, ReleaseStep, ReadReleaseStep DEF Release
<1>10. CASE UNCHANGED vars
  <2>1. UNCHANGED <<buf, writeEraseQ, token, handles, events, irq>>
    BY <1>10 DEF vars, workVars, eventVars, historyVars
  <2>2. buf' \in [Buffers -> Shape] /\ KeepsShape
    BY <2>1 DEF KeepsShape, IInv, ShapeOK
  <2> QED BY <2>1, <2>2, ShapeKept
<1> QED BY <1>3, <1>4, <1>5, <1>6, <1>7, <1>8, <1>9, <1>10 DEF Next

\* The list of the driver is the list of the unfinished requests at all times:
\* the code that links, completes and releases objects keeps it, whatever the
\* event handler does in between.
THEOREM Invariance == Spec => []IInv
<1> QED BY InitIInv, StepIInv, PTL DEF Spec

LEMMA ShapeNoLeak == IInv => NoBufferLeaks
<1> SUFFICES ASSUME IInv PROVE NoBufferLeaks
  OBVIOUS
<1>1. ASSUME NEW k \in Buffers, buf[k].inUse
      PROVE  \/ k = writeEraseQ
             \/ \E m \in Buffers : Listed(m) /\ buf[m].next = k
             \/ \E n \in DOMAIN events : events[n] = k
  <2>1. CASE ~Listed(k)
    <3>1. DOMAIN events = 1 .. Len(events)
      BY DEF IInv, ShapeOK
    <3> QED BY <1>1, <2>1, <3>1 DEF IInv, EventsValid
  <2>2. CASE Listed(k) /\ k # writeEraseQ
    <3>1. PICK n \in 1 .. Len(handles) : k = Index(n)
      BY <2>2 DEF IInv, ListedKnown
    <3>2. CASE n = 1
      <4>1. handles # <<>> /\ FirstPending = k
        BY <3>1, <3>2 DEF IInv, ListIsHandles
      <4>2. HeadDone /\ buf[writeEraseQ].next = k
        BY <2>2, <4>1 DEF FirstPending
      <4>3. writeEraseQ \in Buffers /\ Listed(writeEraseQ)
        BY <4>2, HeadListed DEF HeadDone
      <4> QED BY <4>2, <4>3
    <3>3. CASE n # 1
      <4>1. /\ n - 1 \in 1 .. Len(handles) /\ (n - 1) + 1 = n
            /\ (n - 1) + 1 \in 1 .. Len(handles)
        BY <3>3 DEF IInv, ShapeOK
      <4>2. buf[Index(n - 1)].next = k
        BY <3>1, <4>1 DEF IInv, ListIsHandles
      <4>3. Index(n - 1) \in Buffers /\ Listed(Index(n - 1))
        BY <4>1, IndexType DEF IInv, HandlesValid
      <4> QED BY <4>2, <4>3
    <3> QED BY <3>2, <3>3
  <2> QED BY <2>1, <2>2
<1>2. writeEraseQ \in Buffers => buf[writeEraseQ].inUse
  BY HeadListed, NoneOutside DEF Listed
<1>3. ASSUME NEW k \in Buffers, NEW m \in Buffers, Listed(m), buf[m].next = k
      PROVE  buf[k].inUse
  <2>1. k # None /\ Len(handles) \in Nat
    BY NoneOutside DEF IInv, ShapeOK
  <2>2. CASE HeadDone /\ m = writeEraseQ
    <3>1. FirstPending = k
      BY <1>3, <2>2 DEF FirstPending
    <3>2. handles # <<>> /\ Index(1) = k
      BY <2>1, <3>1 DEF IInv, ListIsHandles
    <3>3. 1 \in 1 .. Len(handles)
      BY <3>2 DEF IInv, ShapeOK
    <3> QED BY <3>2, <3>3 DEF IInv, HandlesValid, Listed
  <2>3. CASE ~(HeadDone /\ m = writeEraseQ)
    <3>1. PICK n \in 1 .. Len(handles) : m = Index(n)
      BY <1>3, <2>3 DEF IInv, ListedKnown
    <3>2. handles # <<>>
      BY <3>1 DEF IInv, ShapeOK
    <3>3. n # Len(handles)
      BY <1>3, <2>1, <3>1, <3>2 DEF IInv, ListIsHandles
    <3>4. n + 1 \in 1 .. Len(handles)
      BY <2>1, <3>3
    <3>5. k = Index(n + 1)
      BY <1>3, <3>1, <3>4 DEF IInv, ListIsHandles
    <3> QED BY <3>4, <3>5 DEF IInv, HandlesValid, Listed
  <2> QED BY <2>2, <2>3
<1>4. \A n \in DOMAIN events : buf[events[n]].inUse
  <2>1. DOMAIN events = 1 .. Len(events)
    BY DEF IInv, ShapeOK
  <2> QED BY <2>1 DEF IInv, EventsValid
<1>5. \A k \in Buffers : buf[k].inUse <=>
        \/ k = writeEraseQ
        \/ \E m \in Buffers : Listed(m) /\ buf[m].next = k
        \/ \E n \in DOMAIN events : events[n] = k
  BY <1>1, <1>2, <1>3, <1>4
<1> QED BY <1>5 DEF NoBufferLeaks

\* No buffer object leaks: those in use are those of the list and those of
\* the reads whose handler runs, for every number of objects.
THEOREM BuffersAccounted == Spec => []NoBufferLeaks
<1> QED BY Invariance, ShapeNoLeak, PTL

\* DRV_NVM_CommandStatus never answers "completed" for a request that is not,
\* although the tokens that make the handles repeat.
THEOREM HandlesTruthful == Spec => []UnfinishedNotCompleted
<1>1. IInv => UnfinishedNotCompleted
  BY DEF IInv, HandlesValid, UnfinishedNotCompleted, DRV_NVM_CommandStatus, Index
<1> QED BY <1>1, Invariance, PTL
----------------------------------------------------------------------------
\* What the requests do to the flash.

\* Requests of whole pages are those of erases.
OnPages(r) == PageStart(r) = r

Order == {q \in [kind : {"WRITE", "ERASE", "ERASE_WRITE"}, start : Row, n : 1 .. Rows] :
            /\ q.start + q.n <= Rows
            /\ q.kind = "ERASE" => OnPages(q.start) /\ OnPages(q.n)}

\* The object of request q before its first operation.
Asked(b, q) == /\ b.flag = q.kind /\ b.size = q.n
               /\ b.flashMem = q.start /\ b.appData = 0
               /\ q.kind = "WRITE" => b.pending = q.n
               /\ q.kind = "ERASE" => b.pending * RowsPerPage = q.n

\* The flash when the rows before r are as request q is to leave them, the
\* following ones up to e are erased, and the others untouched.
Reached(q, r, e) ==
    \A s \in Row : flash[s] = IF s < r THEN Contract!Apply(q, base)[s]
                              ELSE IF s < e THEN Erased ELSE base[s]

Writing(b, q) ==
    /\ b.pending \in 1 .. q.n
    /\ b.flashMem = q.start + q.n - b.pending /\ b.appData = q.n - b.pending
    /\ Reached(q, b.flashMem + 1, 0)

Erasing(b, q) ==
    /\ b.pending \in Nat \ {0} /\ OnPages(b.flashMem)
    /\ q.start <= b.flashMem
    /\ b.flashMem + b.pending * RowsPerPage = q.start + q.n
    /\ Reached(q, b.flashMem + RowsPerPage, 0)

\* The rows of the client before ew.start are merged.
MergedUpTo(q) == /\ ew.start \in q.start .. q.start + q.n
                 /\ ew.nRows = q.start + q.n - ew.start
                 /\ ew.appData = ew.start - q.start

\* The page at flashMem is erased, its copy is in the page buffer.
PageErased(b, q) ==
    /\ ew.step = "ERASE_COMPLETE"
    /\ b.pending = 1 /\ OnPages(b.flashMem)
    /\ ew.start < q.start + q.n
    /\ ew.start \in b.flashMem .. b.flashMem + RowsPerPage - 1
    /\ ew.start \in {b.flashMem, q.start}
    /\ \A s \in InPage : eraseBuffer[s] = base[b.flashMem + s]
    /\ Reached(q, b.flashMem, b.flashMem + RowsPerPage)

\* The page is programmed up to flashMem from its merged copy.
PageWriting(b, q) ==
    LET page == b.flashMem - b.appData
    IN /\ ew.step = "WRITE_PAGE"
       /\ b.pending \in 1 .. RowsPerPage /\ b.appData = RowsPerPage - b.pending
       /\ page \in Row /\ OnPages(page)
       /\ q.start < ew.start
       /\ ew.start \in page + 1 .. page + RowsPerPage
       /\ ew.nRows # 0 => ew.start = page + RowsPerPage
       /\ \A s \in InPage : eraseBuffer[s] = Contract!Apply(q, base)[page + s]
       /\ Reached(q, b.flashMem + 1, page + RowsPerPage)

\* The work on the first request.
Working(b, q) ==
    /\ b.flag = q.kind
    /\ q.kind = "WRITE" => Writing(b, q)
    /\ q.kind = "ERASE" => Erasing(b, q)
    /\ q.kind = "ERASE_WRITE" => MergedUpTo(q) /\ (PageErased(b, q) \/ PageWriting(b, q))

InRange(b) == /\ b.pending \in 0 .. Rows /\ b.size \in 0 .. Rows
              /\ b.blockSize \in {0, 1, RowsPerPage}
              /\ b.flashMem \in Row /\ b.appData \in 0 .. Rows

DataOK == /\ \A k \in Buffers : InRange(buf[k])
          /\ ew \in [step : Steps, nRows : 0 .. Rows, appData : 0 .. Rows, start : 0 .. Rows]
          /\ eraseBuffer \in [InPage -> Content]
          /\ flash \in [Row -> Content] /\ base \in [Row -> Content]
          /\ accepted \in Seq(Order) /\ Len(accepted) = Len(handles)

\* Before the first request is begun, and after the last one, the flash is
\* what the request before left.
Data == /\ DataOK
        /\ \A n \in 1 .. Len(handles) :
             n # 1 \/ ~irq => Asked(buf[Index(n)], accepted[n])
        /\ irq => Working(head, accepted[1])
        /\ ~irq => flash = base
----------------------------------------------------------------------------
\* Pages.

LEMMA Media == /\ RowsPerPage \in Nat /\ RowsPerPage > 0
               /\ Rows \in Nat /\ Rows > 0
               /\ \E p \in Nat : Rows = p * RowsPerPage
<1>1. RowsPerPage \in Nat /\ RowsPerPage > 0
  BY NvmAssumption
<1>2. PICK p \in 1 .. Rows : Rows = RowsPerPage * p
  BY NvmAssumption
<1>3. p \in Nat /\ p > 0
  BY <1>2
<1>4. \A d, e \in Nat : d > 0 /\ e > 0 => d * e \in Nat /\ d * e > 0 /\ d * e = e * d
  OBVIOUS
<1>5. Rows \in Nat /\ Rows > 0 /\ Rows = p * RowsPerPage
  BY <1>1, <1>2, <1>3, <1>4
<1> QED BY <1>1, <1>3, <1>5

LEMMA Multiples ==
    ASSUME NEW d \in Nat, d > 0, NEW p \in Int, NEW q \in Int
    PROVE  /\ p * d \in Int
           /\ (p + 1) * d = p * d + d
           /\ (p - 1) * d = p * d - d
           /\ p < q => p * d + d <= q * d
           /\ p <= q => p * d <= q * d
  OBVIOUS

LEMMA Division ==
    ASSUME NEW d \in Nat, d > 0, NEW r \in Nat
    PROVE  /\ r \div d \in Nat
           /\ (r \div d) * d <= r
           /\ r < (r \div d) * d + d
           /\ \A p \in Nat : p * d <= r /\ r < p * d + d => r \div d = p
<1>1. /\ r \div d \in Nat /\ (r \div d) * d <= r /\ r < (r \div d) * d + d
  OBVIOUS
<1>2. ASSUME NEW p \in Nat, p * d <= r, r < p * d + d
      PROVE  r \div d = p
  <2> DEFINE q == r \div d
  <2>1. q \in Nat /\ q * d <= r /\ r < q * d + d
    BY <1>1
  <2> HIDE DEF q
  <2>2. ~(p < q) /\ ~(q < p)
    <3>1. p < q => p * d + d <= q * d
      BY <2>1, Multiples
    <3>2. q < p => q * d + d <= p * d
      BY <2>1, Multiples
    <3>3. p * d \in Int /\ q * d \in Int
      BY <2>1
    <3> QED BY <1>2, <2>1, <3>1, <3>2, <3>3
  <2> QED BY <2>1, <2>2 DEF q
<1> QED BY <1>1, <1>2

LEMMA PageBounds ==
    ASSUME NEW r \in Nat
    PROVE  /\ PageStart(r) \in Nat
           /\ PageStart(r) <= r /\ r < PageStart(r) + RowsPerPage
           /\ OnPages(PageStart(r))
<1> DEFINE p == r \div RowsPerPage
<1>1. p \in Nat /\ p * RowsPerPage <= r /\ r < p * RowsPerPage + RowsPerPage
  BY Media, Division
<1>2. PageStart(r) = p * RowsPerPage
  BY DEF PageStart
<1> HIDE DEF p
<1>3. p * RowsPerPage \in Nat
  BY <1>1, Media
<1>4. (p * RowsPerPage) \div RowsPerPage = p
  BY <1>1, <1>3, Media, Division
<1>5. OnPages(p * RowsPerPage)
  BY <1>4 DEF OnPages, PageStart
<1> QED BY <1>1, <1>2, <1>3, <1>5

LEMMA Multiple == ASSUME NEW p \in Nat PROVE OnPages(p * RowsPerPage) /\ p * RowsPerPage \in Nat
<1>1. p * RowsPerPage \in Nat /\ p * RowsPerPage < p * RowsPerPage + RowsPerPage
  BY Media
<1>2. (p * RowsPerPage) \div RowsPerPage = p
  BY <1>1, Media, Division
<1> QED BY <1>1, <1>2 DEF OnPages, PageStart

\* The rows of a page are the RowsPerPage rows from its start on; the next
\* page begins behind them.
LEMMA PageRows ==
    ASSUME NEW a \in Nat, OnPages(a)
    PROVE  /\ \A r \in Nat : PageStart(r) = a <=> a <= r /\ r < a + RowsPerPage
           /\ OnPages(a + RowsPerPage)
           /\ \A r \in Nat : OnPages(r) /\ a < r => a + RowsPerPage <= r
           /\ a < Rows => a + RowsPerPage <= Rows
<1> DEFINE p == a \div RowsPerPage
<1>0. RowsPerPage \in Nat /\ RowsPerPage > 0
  BY Media
<1>1. p \in Nat
  BY <1>0, Division
<1>2. a = p * RowsPerPage
  BY DEF OnPages, PageStart
<1> HIDE DEF p
<1>3. ASSUME NEW r \in Nat PROVE PageStart(r) = a <=> a <= r /\ r < a + RowsPerPage
  <2>1. PageStart(r) = a => a <= r /\ r < a + RowsPerPage
    BY PageBounds
  <2>2. ASSUME a <= r, r < a + RowsPerPage PROVE PageStart(r) = a
    <3>1. r \div RowsPerPage = p
      BY <1>0, <1>1, <1>2, <2>2, Division
    <3> QED BY <1>2, <3>1 DEF PageStart
  <2> QED BY <2>1, <2>2
<1>4. OnPages(a + RowsPerPage)
  <2>1. (p + 1) * RowsPerPage = a + RowsPerPage
    BY <1>0, <1>1, <1>2, Multiples
  <2>2. OnPages((p + 1) * RowsPerPage)
    BY <1>1, Multiple
  <2> QED BY <2>1, <2>2
<1>5. ASSUME NEW r \in Nat, NEW k \in Nat, r = k * RowsPerPage, a < r
      PROVE  a + RowsPerPage <= r
  <2>1. p < k
    <3>1. k <= p => k * RowsPerPage <= p * RowsPerPage
      BY <1>0, <1>1, Multiples
    <3>2. ~(k <= p)
      BY <1>2, <1>5, <3>1
    <3> QED BY <1>1, <3>2
  <2>2. p * RowsPerPage + RowsPerPage <= k * RowsPerPage
    BY <1>0, <1>1, <2>1, Multiples
  <2> QED BY <1>2, <1>5, <2>2
<1>6. ASSUME NEW r \in Nat, OnPages(r), a < r PROVE a + RowsPerPage <= r
  <2>1. r = (r \div RowsPerPage) * RowsPerPage /\ r \div RowsPerPage \in Nat
    BY <1>0, <1>6, Division DEF OnPages, PageStart
  <2> QED BY <1>5, <1>6, <2>1
<1>7. ASSUME a < Rows PROVE a + RowsPerPage <= Rows
  BY <1>5, <1>7, Media
<1> QED BY <1>3, <1>4, <1>6, <1>7

\* Rows of one page are on the same page for the contract.
LEMMA SamePage ==
    ASSUME NEW r \in Nat, NEW s \in Nat, PageStart(r) = PageStart(s)
    PROVE  Contract!PageOf(r) = Contract!PageOf(s)
<1>1. /\ r \div RowsPerPage \in Nat /\ s \div RowsPerPage \in Nat
      /\ RowsPerPage \in Nat /\ RowsPerPage > 0
  BY Media, Division
<1>2. \A p, q \in Nat : \A d \in Nat : d > 0 /\ p * d = q * d => p = q
  <2> SUFFICES ASSUME NEW p \in Nat, NEW q \in Nat, NEW d \in Nat, d > 0, p * d = q * d
               PROVE  p = q
    OBVIOUS
  <2>1. p < q => p * d + d <= q * d
    BY Multiples
  <2>2. q < p => q * d + d <= p * d
    BY Multiples
  <2>3. p * d \in Int /\ q * d \in Int
    OBVIOUS
  <2> QED BY <2>1, <2>2, <2>3
<1> QED BY <1>1, <1>2 DEF PageStart, Contract!PageOf
----------------------------------------------------------------------------
\* The contents of the flash.

LEMMA OrderType ==
    ASSUME NEW q \in Order
    PROVE  /\ q.start \in Nat /\ q.n \in Nat /\ q.n > 0 /\ q.start + q.n <= Rows
           /\ q.kind \in {"WRITE", "ERASE", "ERASE_WRITE"}
           /\ q.kind = "ERASE" => OnPages(q.start) /\ OnPages(q.n)
           /\ Contract!Target(q) = q.start .. q.start + q.n - 1
  BY Media DEF Order, Row, Contract!Row, Contract!Target

LEMMA ContentType == Erased \in Content /\ \A k \in 0 .. Rows : k \in Content
  BY Media DEF Content, Erased, Contract!Erased

LEMMA ProgrammedType ==
    ASSUME NEW c \in Content, NEW v \in Content
    PROVE  Contract!Programmed(c, v) \in Content /\ Contract!Programmed(Erased, v) = v
  BY DEF Contract!Programmed, Content, Erased

\* What a request makes of a row.
LEMMA Applied ==
    ASSUME NEW q \in Order, NEW r \in Row, NEW f \in [Row -> Content]
    PROVE  /\ r < q.start \/ q.start + q.n <= r => Contract!Apply(q, f)[r] = f[r]
           /\ q.start <= r /\ r < q.start + q.n =>
                /\ r - q.start + 1 \in 0 .. Rows
                /\ q.kind = "ERASE" => Contract!Apply(q, f)[r] = Erased
                /\ q.kind = "WRITE" => Contract!Apply(q, f)[r]
                                        = Contract!Programmed(f[r], r - q.start + 1)
                /\ q.kind = "ERASE_WRITE" => Contract!Apply(q, f)[r] = r - q.start + 1
<1>1. r \in Nat /\ r < Rows
  BY Media DEF Row, Contract!Row
<1>2. r \in Contract!Target(q) <=> q.start <= r /\ r < q.start + q.n
  BY <1>1, OrderType
<1>3. Contract!Apply(q, f)[r] =
        IF r \notin Contract!Target(q) THEN f[r]
        ELSE CASE q.kind = "ERASE"       -> Erased
               [] q.kind = "WRITE"       -> Contract!Programmed(f[r], Contract!Datum(q, r))
               [] q.kind = "ERASE_WRITE" -> Contract!Datum(q, r)
  BY DEF Contract!Apply, Row, Erased
<1>4. Contract!Datum(q, r) = r - q.start + 1
  BY DEF Contract!Datum
<1>5. r < q.start \/ q.start + q.n <= r => Contract!Apply(q, f)[r] = f[r]
  BY <1>1, <1>2, <1>3, OrderType
<1>6. ASSUME q.start <= r, r < q.start + q.n
      PROVE  /\ r - q.start + 1 \in 0 .. Rows
             /\ q.kind = "ERASE" => Contract!Apply(q, f)[r] = Erased
             /\ q.kind = "WRITE" => Contract!Apply(q, f)[r]
                                     = Contract!Programmed(f[r], r - q.start + 1)
             /\ q.kind = "ERASE_WRITE" => Contract!Apply(q, f)[r] = r - q.start + 1
  <2>1. r \in Contract!Target(q)
    BY <1>2, <1>6
  <2>2. r - q.start + 1 \in 0 .. Rows
    <3>1. /\ q.start \in Nat /\ q.n \in Nat /\ q.start + q.n <= Rows
          /\ Rows \in Nat
      BY OrderType, Media
    <3> QED BY <1>1, <1>6, <3>1
  <2> QED BY <1>3, <1>4, <2>1, <2>2
<1> QED BY <1>5, <1>6

LEMMA AppliedType ==
    ASSUME NEW q \in Order, NEW f \in [Row -> Content]
    PROVE  Contract!Apply(q, f) \in [Row -> Content]
<1>1. ASSUME NEW r \in Row PROVE Contract!Apply(q, f)[r] \in Content
  <2>1. r \in Nat /\ f[r] \in Content
    BY Media DEF Row, Contract!Row
  <2>2. CASE r < q.start \/ q.start + q.n <= r
    BY <2>1, <2>2, Applied
  <2>3. CASE q.start <= r /\ r < q.start + q.n
    BY <2>1, <2>3, Applied, OrderType, ContentType, ProgrammedType
  <2> QED BY <2>1, <2>2, <2>3, OrderType
<1> DEFINE Body(r) == IF r \notin Contract!Target(q) THEN f[r]
                      ELSE CASE q.kind = "ERASE"       -> Erased
                             [] q.kind = "WRITE"       -> Contract!Programmed(f[r], Contract!Datum(q, r))
                             [] q.kind = "ERASE_WRITE" -> Contract!Datum(q, r)
<1>2. Contract!Apply(q, f) = [r \in Row |-> Body(r)]
  BY DEF Contract!Apply, Row, Erased
<1> HIDE DEF Body
<1>3. \A r \in Row : Body(r) \in Content
  BY <1>1, <1>2
<1> QED BY <1>2, <1>3

\* A step that changes one page of the request disturbs nothing else.
LEMMA OnePage ==
    ASSUME NEW q \in Order, NEW t \in Nat, q.start <= t, t < q.start + q.n,
           \A r \in Row : flash'[r] # flash[r] => PageStart(r) = PageStart(t)
    PROVE  Contract!Disturbed(q)
<1>1. ASSUME NEW r \in Row, PageStart(r) = PageStart(t)
      PROVE  Contract!PageOf(r) \in Contract!PagesOf(q)
  <2>1. t \in Contract!Target(q) /\ r \in Nat
    BY OrderType DEF Row, Contract!Row
  <2>2. Contract!PageOf(r) = Contract!PageOf(t)
    BY <1>1, <2>1, SamePage
  <2> QED BY <2>1, <2>2 DEF Contract!PagesOf
<1> QED BY <1>1 DEF Contract!Disturbed, Row

\* The two operations of the flash.
LEMMA Programming ==
    ASSUME NEW r \in Row, NEW v, ProgramRow(r, v), flash \in [Row -> Content]
    PROVE  /\ irq' = TRUE
           /\ DOMAIN flash' = Row /\ flash' = [s \in Row |-> flash'[s]]
           /\ flash'[r] = Contract!Programmed(flash[r], v)
           /\ \A s \in Row : s # r => flash'[s] = flash[s]
  BY DEF ProgramRow

LEMMA ErasingPage ==
    ASSUME NEW a \in Nat, OnPages(a), ErasePage(a), flash \in [Row -> Content]
    PROVE  /\ irq' = TRUE
           /\ flash' \in [Row -> Content]
           /\ \A s \in Row : flash'[s] = IF a <= s /\ s < a + RowsPerPage THEN Erased
                                         ELSE flash[s]
<1>1. /\ irq' = TRUE
      /\ flash' = [s \in Row |-> IF PageStart(s) = PageStart(a) THEN Erased ELSE flash[s]]
  BY DEF ErasePage
<1>2. PageStart(a) = a
  BY DEF OnPages
<1>3. \A s \in Row : PageStart(s) = a <=> a <= s /\ s < a + RowsPerPage
  BY PageRows DEF Row, Contract!Row
<1>4. flash' \in [Row -> Content]
  BY <1>1, ContentType
<1> QED BY <1>1, <1>2, <1>3, <1>4
----------------------------------------------------------------------------
\* The request under way.

LEMMA SeqEnds ==
    ASSUME NEW S, NEW s \in Seq(S)
    PROVE  /\ Len(s) \in Nat /\ (s = <<>> <=> Len(s) = 0)
           /\ \A n \in 1 .. Len(s) : s[n] \in S
           /\ s # <<>> => 1 \in 1 .. Len(s) /\ Head(s) = s[1]
  OBVIOUS

LEMMA UnderWay ==
    ASSUME IInv, Data, irq = TRUE
    PROVE  \E q \in Order :
             /\ q = accepted[1] /\ accepted # <<>> /\ Head(accepted) = q
             /\ Working(head, q)
             /\ writeEraseQ \in Buffers /\ buf \in [Buffers -> Shape]
             /\ 1 \in 1 .. Len(handles) /\ Index(1) = writeEraseQ
             /\ head \in Shape /\ InRange(head)
<1>1. writeEraseQ \in Buffers /\ buf \in [Buffers -> Shape] /\ ~HeadDone
  BY DEF IInv, ShapeOK, FlagRaised
<1>2. writeEraseQ # None
  BY DEF IInv, FlagRaised
<1>3. handles # <<>> /\ Index(1) = writeEraseQ
  BY <1>1, <1>2 DEF IInv, ListIsHandles, FirstPending
<1>4. 1 \in 1 .. Len(handles)
  BY <1>3 DEF IInv, ShapeOK
<1>5. accepted \in Seq(Order) /\ Len(accepted) = Len(handles)
  BY DEF Data, DataOK
<1>6. accepted # <<>>
  BY <1>4, <1>5, SeqEnds
<1>7. accepted[1] \in Order /\ Head(accepted) = accepted[1]
  BY <1>5, <1>6, SeqEnds
<1>8. Working(head, accepted[1])
  BY DEF Data
<1>9. head \in Shape /\ InRange(head)
  BY <1>1 DEF head, Data, DataOK
<1> QED BY <1>1, <1>3, <1>4, <1>6, <1>7, <1>8, <1>9

\* A step of the work on it leaves the other requests alone.
LEMMA WorkData ==
    ASSUME IInv, Data, irq = TRUE, irq' = TRUE, NEW r, NEW q, q = accepted[1],
           buf' = [buf EXCEPT ![writeEraseQ] = r], r \in Shape, InRange(r),
           UNCHANGED <<writeEraseQ, handles, accepted, base>>,
           ew' \in [step : Steps, nRows : 0 .. Rows, appData : 0 .. Rows, start : 0 .. Rows],
           eraseBuffer' \in [InPage -> Content], flash' \in [Row -> Content],
           Working(r, q)'
    PROVE  Data'
<1>1. /\ writeEraseQ \in Buffers /\ buf \in [Buffers -> Shape]
      /\ 1 \in 1 .. Len(handles) /\ Index(1) = writeEraseQ
  BY UnderWay
<1>2. buf'[writeEraseQ] = r /\ \A k \in Buffers : k # writeEraseQ => buf'[k] = buf[k]
  BY <1>1
<1>3. DataOK'
  <2>1. \A k \in Buffers : InRange(buf[k])
    BY DEF Data, DataOK
  <2>2. \A k \in Buffers : InRange(buf'[k])
    BY <1>2, <2>1
  <2>3. /\ base \in [Row -> Content] /\ accepted \in Seq(Order)
        /\ Len(accepted) = Len(handles)
    BY DEF Data, DataOK
  <2> QED BY <2>2, <2>3 DEF DataOK, InRange
<1>4. ASSUME NEW n \in 1 .. Len(handles), n # 1
      PROVE  Asked(buf'[Index(n)], accepted[n])
  <2>1. Asked(buf[Index(n)], accepted[n])
    BY <1>4 DEF Data
  <2>2. Index(n) # writeEraseQ /\ Index(n) \in Buffers
    BY <1>1, <1>4, IndexType DEF IInv, HandlesDiffer
  <2> QED BY <1>2, <2>1, <2>2
<1>5. \A n \in 1 .. Len(handles') :
        n # 1 \/ ~irq' => Asked(buf'[Index(n)'], accepted'[n])
  BY <1>4 DEF Index
<1>6. Working(head, accepted[1])'
  <2>1. head' = r /\ accepted'[1] = q
    BY <1>2 DEF head
  <2> QED BY <2>1 DEF Working, Writing, Erasing, PageErased, PageWriting, MergedUpTo
<1> QED BY <1>3, <1>5, <1>6 DEF Data, Asked

LEMMA WorkingKept ==
    ASSUME NEW b, NEW q, Working(b, q), UNCHANGED <<ew, eraseBuffer, flash, base>>
    PROVE  Working(b, q)'
<1>1. Contract!Apply(q, base)' = Contract!Apply(q, base)
  BY DEF Contract!Apply
<1>2. \A r, e : Reached(q, r, e) => Reached(q, r, e)'
  BY <1>1 DEF Reached
<1>3. MergedUpTo(q) => MergedUpTo(q)'
  BY DEF MergedUpTo
<1>4. Writing(b, q) => Writing(b, q)'
  BY <1>2 DEF Writing
<1>5. Erasing(b, q) => Erasing(b, q)'
  BY <1>2 DEF Erasing
<1>6. PageErased(b, q) => PageErased(b, q)'
  BY <1>2 DEF PageErased
<1>7. PageWriting(b, q) => PageWriting(b, q)'
  BY <1>1, <1>2 DEF PageWriting
<1> QED BY <1>3, <1>4, <1>5, <1>6, <1>7 DEF Working

\* A step that leaves the listed objects and all requests alone.
SameNumbers(r, b) == /\ r.flag = b.flag /\ r.pending = b.pending /\ r.size = b.size
                     /\ r.flashMem = b.flashMem /\ r.appData = b.appData

LEMMA QuietData ==
    ASSUME IInv, Data, \A k \in Buffers : InRange(buf'[k]),
           \A k \in Buffers : Listed(k) => SameNumbers(buf'[k], buf[k]),
           UNCHANGED <<writeEraseQ, ew, eraseBuffer, irq, flash, accepted, base, handles>>
    PROVE  Data'
<1>1. DataOK'
  BY DEF Data, DataOK, InRange
<1>2. ASSUME NEW n \in 1 .. Len(handles), n # 1 \/ ~irq
      PROVE  Asked(buf'[Index(n)], accepted[n])
  <2>1. Asked(buf[Index(n)], accepted[n])
    BY <1>2 DEF Data
  <2>2. Index(n) \in Buffers /\ Listed(Index(n))
    BY IndexType DEF IInv, HandlesValid
  <2>3. SameNumbers(buf'[Index(n)], buf[Index(n)])
    BY <2>2
  <2> QED BY <2>1, <2>3 DEF Asked, SameNumbers
<1>3. \A n \in 1 .. Len(handles') :
        n # 1 \/ ~irq' => Asked(buf'[Index(n)'], accepted'[n])
  BY <1>2 DEF Index
<1>4. ASSUME irq PROVE Working(head, accepted[1])'
  <2>1. PICK q : q = accepted[1]
    OBVIOUS
  <2>2. PICK b : b = buf'[writeEraseQ]
    OBVIOUS
  <2>3. irq = TRUE
    BY <1>4 DEF IInv, ShapeOK
  <2>4. Listed(writeEraseQ) /\ writeEraseQ \in Buffers
    BY <1>4, HeadListed DEF IInv, FlagRaised
  <2>5. SameNumbers(b, head)
    BY <2>2, <2>4 DEF head
  <2>6. Working(head, q)
    BY <2>1, <2>3 DEF Data
  <2>7. Working(b, q)
    BY <2>5, <2>6 DEF SameNumbers, Working, Writing, Erasing, PageErased, PageWriting
  <2>8. Working(b, q)'
    BY <2>7, WorkingKept
  <2>9. head' = b /\ accepted'[1] = q
    BY <2>1, <2>2 DEF head
  <2> QED BY <2>8, <2>9 DEF Working, Writing, Erasing, PageErased, PageWriting, MergedUpTo
<1>5. ~irq' => flash' = base'
  BY DEF Data
<1> QED BY <1>1, <1>3, <1>4, <1>5 DEF Data, Asked
----------------------------------------------------------------------------
\* The steps of the work: each keeps the data and is one of the contract.

ContractWork == Data' /\ Contract!Work

LEMMA OneStep ==
    ASSUME IInv, Data, irq = TRUE, NEW q \in Order, q = accepted[1],
           UNCHANGED <<accepted, base>>, Contract!Disturbed(q)
    PROVE  Contract!Work
<1>1. accepted # <<>> /\ Head(accepted) = q
  BY UnderWay
<1> QED BY <1>1 DEF Contract!Work

\* Programming the next row of those that Reached speaks of.
LEMMA RowReached ==
    ASSUME NEW q \in Order, NEW r \in Row, NEW e \in Nat, NEW v \in Content,
           flash \in [Row -> Content], base \in [Row -> Content], base' = base,
           ProgramRow(r, v), Reached(q, r, e),
           \/ v = Contract!Apply(q, base)[r] /\ r < e
           \/ Contract!Programmed(base[r], v) = Contract!Apply(q, base)[r] /\ e <= r
    PROVE  /\ irq' = TRUE /\ flash' \in [Row -> Content]
           /\ \A s \in Row : flash'[s] # flash[s] => s = r
           /\ Reached(q, r + 1, e)'
<1>1. /\ irq' = TRUE
      /\ DOMAIN flash' = Row /\ flash' = [s \in Row |-> flash'[s]]
      /\ flash'[r] = Contract!Programmed(flash[r], v)
      /\ \A s \in Row : s # r => flash'[s] = flash[s]
  BY Programming
<1>2. Contract!Programmed(flash[r], v) \in Content /\ Contract!Programmed(Erased, v) = v
  BY ProgrammedType
<1>3. \A s \in Row : s \in Nat
  BY DEF Row, Contract!Row
<1>4. flash'[r] = Contract!Apply(q, base)[r]
  <2>1. flash[r] = IF r < e THEN Erased ELSE base[r]
    BY <1>3 DEF Reached
  <2> QED BY <1>1, <1>2, <1>3, <2>1
<1>5. flash' \in [Row -> Content]
  BY <1>1, <1>2
<1>6. ASSUME NEW s \in Row
      PROVE  flash'[s] = IF s < r + 1 THEN Contract!Apply(q, base)[s]
                         ELSE IF s < e THEN Erased ELSE base[s]
  <2>1. CASE s = r
    BY <1>3, <1>4, <2>1
  <2>2. CASE s # r
    <3>1. flash'[s] = IF s < r THEN Contract!Apply(q, base)[s]
                      ELSE IF s < e THEN Erased ELSE base[s]
      BY <1>1, <2>2 DEF Reached
    <3>2. s < r <=> s < r + 1
      BY <1>3, <2>2
    <3> QED BY <3>1, <3>2
  <2> QED BY <2>1, <2>2
<1>7. Reached(q, r + 1, e)'
  <2>1. Contract!Apply(q, base)' = Contract!Apply(q, base)
    BY DEF Contract!Apply
  <2> QED BY <1>6, <2>1 DEF Reached
<1> QED BY <1>1, <1>5, <1>7

LEMMA WriteData == ASSUME IInv, Data, Tasks_Write PROVE ContractWork
<1>1. /\ irq = TRUE /\ left > 0 /\ head.flag = "WRITE"
      /\ ProgramRow(head.flashMem + 1, head.appData + 2)
      /\ UNCHANGED <<writeEraseQ, handles, accepted, base, ew, eraseBuffer>>
  BY DEF Tasks_Write, historyVars, IInv, ShapeOK
<1>2. PICK q \in Order :
             /\ q = accepted[1] /\ Working(head, q)
             /\ head \in Shape /\ InRange(head)
  BY <1>1, UnderWay
<1>3. PICK b : b = head
  OBVIOUS
<1>4. PICK p : p = b.pending
  OBVIOUS
<1>5. PICK f : f = b.flashMem
  OBVIOUS
<1>6. PICK a : a = b.appData
  OBVIOUS
<1>7. PICK r : r = [b EXCEPT !.pending = p - 1, !.flashMem = f + 1, !.appData = a + 1]
  OBVIOUS
<1>8. buf' = [buf EXCEPT ![writeEraseQ] = r]
  BY <1>3, <1>4, <1>5, <1>6, <1>7 DEF Tasks_Write, head, left
<1>9. q.kind = "WRITE" /\ Writing(b, q)
  BY <1>1, <1>2, <1>3 DEF Working
<1>10. /\ q.start \in Nat /\ q.n \in Nat /\ q.n > 0 /\ q.start + q.n <= Rows
       /\ Rows \in Nat
  BY OrderType, Media
<1>11. /\ p \in 1 .. q.n /\ f = q.start + q.n - p /\ a = q.n - p
       /\ Reached(q, f + 1, 0) /\ p - 1 > 0
  BY <1>1, <1>3, <1>4, <1>5, <1>6, <1>9 DEF Writing, left
<1>12. /\ f + 1 \in Row /\ a + 2 \in 0 .. Rows /\ p - 1 \in 1 .. q.n /\ p - 1 \in 0 .. Rows
       /\ q.start <= f + 1 /\ f + 1 < q.start + q.n
       /\ a + 2 = (f + 1) - q.start + 1 /\ a + 1 \in 0 .. Rows /\ f + 1 \in Nat
       /\ f + 1 = q.start + q.n - (p - 1) /\ a + 1 = q.n - (p - 1)
  BY <1>10, <1>11 DEF Row, Contract!Row
<1>13. /\ flash \in [Row -> Content] /\ base \in [Row -> Content]
       /\ ew \in [step : Steps, nRows : 0 .. Rows, appData : 0 .. Rows, start : 0 .. Rows]
       /\ eraseBuffer \in [InPage -> Content]
  BY DEF Data, DataOK
<1>14. Contract!Apply(q, base)[f + 1] = Contract!Programmed(base[f + 1], a + 2)
  BY <1>9, <1>12, <1>13, Applied
<1>15. ProgramRow(f + 1, a + 2) /\ a + 2 \in Content
  BY <1>1, <1>3, <1>5, <1>6, <1>12, ContentType
<1>16. /\ irq' = TRUE /\ flash' \in [Row -> Content]
       /\ \A s \in Row : flash'[s] # flash[s] => s = f + 1
       /\ Reached(q, (f + 1) + 1, 0)'
  <2>1. PICK g \in Row : g = f + 1
    BY <1>12
  <2>2. PICK v \in Content : v = a + 2
    BY <1>15
  <2>3. /\ ProgramRow(g, v) /\ Reached(q, g, 0)
        /\ Contract!Programmed(base[g], v) = Contract!Apply(q, base)[g]
        /\ 0 \in Nat /\ 0 <= g
    BY <2>1, <2>2, <1>11, <1>12, <1>14, <1>15
  <2>4. /\ irq' = TRUE /\ flash' \in [Row -> Content]
        /\ \A s \in Row : flash'[s] # flash[s] => s = g
        /\ Reached(q, g + 1, 0)'
    BY <2>3, <1>1, <1>13, RowReached
  <2> QED BY <2>1, <2>4
<1>17. /\ r \in Shape /\ r.pending = p - 1 /\ r.flashMem = f + 1 /\ r.appData = a + 1
       /\ r.flag = b.flag /\ r.size = b.size /\ r.blockSize = b.blockSize
  <2>1. p - 1 \in Int /\ f + 1 \in Int /\ a + 1 \in Int /\ b \in Shape
    BY <1>2, <1>3, <1>12
  <2> DEFINE p1 == p - 1
             f1 == f + 1
             a1 == a + 1
  <2>2. r = [b EXCEPT !.pending = p1, !.flashMem = f1, !.appData = a1]
    BY <1>7
  <2>3. p1 \in Int /\ f1 \in Int /\ a1 \in Int
    BY <2>1
  <2> HIDE DEF p1, f1, a1
  <2>4. /\ r \in Shape /\ r.pending = p1 /\ r.flashMem = f1 /\ r.appData = a1
        /\ r.flag = b.flag /\ r.size = b.size /\ r.blockSize = b.blockSize
    BY <2>1, <2>2, <2>3 DEF Shape
  <2> QED BY <2>4 DEF p1, f1, a1
<1>18. InRange(r)
  BY <1>2, <1>3, <1>12, <1>17 DEF InRange
<1>19. Writing(r, q)'
  BY <1>12, <1>16, <1>17 DEF Writing
<1>20. Working(r, q)'
  BY <1>1, <1>3, <1>9, <1>17, <1>19 DEF Working
<1>21. Data'
  BY <1>1, <1>2, <1>8, <1>13, <1>16, <1>17, <1>18, <1>20, WorkData
<1>22. Contract!Disturbed(q)
  BY <1>12, <1>16, OnePage
<1> QED BY <1>1, <1>2, <1>21, <1>22, OneStep DEF ContractWork

\* Erasing the page at a, which was as before the request.
LEMMA PageReached ==
    ASSUME NEW q \in Order, NEW a \in Nat, OnPages(a), ErasePage(a),
           flash \in [Row -> Content], base' = base,
           Reached(q, a, 0)
    PROVE  /\ irq' = TRUE /\ flash' \in [Row -> Content]
           /\ \A s \in Row : flash'[s] # flash[s] => PageStart(s) = a
           /\ Reached(q, a, a + RowsPerPage)'
<1>1. /\ irq' = TRUE
      /\ flash' \in [Row -> Content]
      /\ \A s \in Row : flash'[s] = IF a <= s /\ s < a + RowsPerPage THEN Erased
                                    ELSE flash[s]
  BY ErasingPage
<1>2. \A s \in Row : s \in Nat
  BY DEF Row, Contract!Row
<1>3. \A s \in Row : flash'[s] # flash[s] => PageStart(s) = a
  BY <1>1, <1>2, PageRows
<1>4. ASSUME NEW s \in Row
      PROVE  flash'[s] = IF s < a THEN Contract!Apply(q, base)[s]
                         ELSE IF s < a + RowsPerPage THEN Erased ELSE base[s]
  <2>1. flash[s] = IF s < a THEN Contract!Apply(q, base)[s] ELSE base[s]
    BY <1>2 DEF Reached
  <2>2. s < a \/ a <= s
    BY <1>2
  <2>3. ~(s < a /\ a <= s)
    BY <1>2
  <2> QED BY <1>1, <2>1, <2>2, <2>3
<1>5. Contract!Apply(q, base)' = Contract!Apply(q, base)
  BY DEF Contract!Apply
<1> QED BY <1>1, <1>3, <1>4, <1>5 DEF Reached

\* A page of an erase is done once it is erased.
LEMMA ErasedReached ==
    ASSUME NEW q \in Order, q.kind = "ERASE", NEW a \in Nat,
           q.start <= a, a + RowsPerPage <= q.start + q.n,
           base' \in [Row -> Content],
           Reached(q, a, a + RowsPerPage)'
    PROVE  Reached(q, a + RowsPerPage, 0)'
<1>1. RowsPerPage \in Nat /\ q.start \in Nat /\ q.n \in Nat
  BY Media, OrderType
<1>2. ASSUME NEW s \in Row
      PROVE  flash'[s] = IF s < a + RowsPerPage THEN Contract!Apply(q, base')[s]
                         ELSE IF s < 0 THEN Erased ELSE base'[s]
  <2>1. s \in Nat
    BY DEF Row, Contract!Row
  <2>2. flash'[s] = IF s < a THEN Contract!Apply(q, base')[s]
                    ELSE IF s < a + RowsPerPage THEN Erased ELSE base'[s]
    BY DEF Reached, Contract!Apply
  <2>3. a <= s /\ s < a + RowsPerPage => Contract!Apply(q, base')[s] = Erased
    <3>1. ASSUME a <= s, s < a + RowsPerPage
          PROVE  q.start <= s /\ s < q.start + q.n
      BY <1>1, <2>1, <3>1
    <3> QED BY <3>1, Applied
  <2>4. ~(s < 0) /\ (s < a => s < a + RowsPerPage) /\ (s < a \/ a <= s)
    BY <1>1, <2>1
  <2> QED BY <2>2, <2>3, <2>4
<1> QED BY <1>2 DEF Reached, Contract!Apply

LEMMA EraseData == ASSUME IInv, Data, Tasks_Erase PROVE ContractWork
<1>1. /\ irq = TRUE /\ left > 0 /\ head.flag = "ERASE"
      /\ ErasePage(head.flashMem + RowsPerPage)
      /\ UNCHANGED <<writeEraseQ, handles, accepted, base, ew, eraseBuffer>>
  BY DEF Tasks_Erase, historyVars, IInv, ShapeOK
<1>2. PICK q \in Order :
             /\ q = accepted[1] /\ Working(head, q)
             /\ head \in Shape /\ InRange(head)
  BY <1>1, UnderWay
<1>3. PICK b : b = head
  OBVIOUS
<1>4. PICK p : p = b.pending
  OBVIOUS
<1>5. PICK f : f = b.flashMem
  OBVIOUS
<1>6. PICK p1 : p1 = p - 1
  OBVIOUS
<1>7. PICK f1 : f1 = f + RowsPerPage
  OBVIOUS
<1>8. PICK r : r = [b EXCEPT !.pending = p1, !.flashMem = f1]
  OBVIOUS
<1>9. buf' = [buf EXCEPT ![writeEraseQ] = r]
  BY <1>3, <1>4, <1>5, <1>6, <1>7, <1>8 DEF Tasks_Erase, head, left
<1>10. q.kind = "ERASE" /\ Erasing(b, q)
  BY <1>1, <1>2, <1>3 DEF Working
<1>11. /\ q.start \in Nat /\ q.n \in Nat /\ q.n > 0 /\ q.start + q.n <= Rows
       /\ Rows \in Nat /\ RowsPerPage \in Nat /\ RowsPerPage > 0
  BY OrderType, Media
<1>12. /\ p \in Nat \ {0} /\ OnPages(f) /\ q.start <= f /\ f \in Row /\ p \in 0 .. Rows
       /\ f + p * RowsPerPage = q.start + q.n
       /\ Reached(q, f + RowsPerPage, 0) /\ p - 1 > 0
  BY <1>1, <1>2, <1>3, <1>4, <1>5, <1>10 DEF Erasing, left, InRange
<1>13. /\ p1 \in Nat \ {0} /\ p1 \in 0 .. Rows /\ f1 \in Nat /\ OnPages(f1)
       /\ f \in Nat /\ p1 \in Int /\ f1 \in Int
  <2>1. f \in Nat
    BY <1>12 DEF Row, Contract!Row
  <2>2. OnPages(f1)
    BY <2>1, <1>7, <1>12, PageRows
  <2>3. p1 \in Nat \ {0} /\ p1 \in 0 .. Rows /\ f1 \in Nat
    BY <2>1, <1>6, <1>7, <1>11, <1>12
  <2> QED BY <2>1, <2>2, <2>3
<1>14. /\ f1 + p1 * RowsPerPage = q.start + q.n
       /\ f1 + RowsPerPage <= q.start + q.n
       /\ q.start <= f1 /\ f1 < q.start + q.n /\ f1 \in Row
  <2>1. p1 * RowsPerPage \in Int /\ (p1 + 1) * RowsPerPage = p1 * RowsPerPage + RowsPerPage
    BY <1>11, <1>13, Multiples
  <2>2. p1 + 1 = p
    BY <1>6, <1>12
  <2>3. f1 + p1 * RowsPerPage = q.start + q.n
    BY <2>1, <2>2, <1>7, <1>11, <1>12, <1>13
  <2>4. 1 * RowsPerPage <= p1 * RowsPerPage
    BY <1>11, <1>13, Multiples
  <2>5. RowsPerPage <= p1 * RowsPerPage
    BY <2>4, <1>11
  <2>6. f1 + RowsPerPage <= q.start + q.n
    BY <2>1, <2>3, <2>5, <1>11, <1>13
  <2> QED BY <2>3, <2>6, <1>7, <1>11, <1>12, <1>13 DEF Row, Contract!Row
<1>15. /\ flash \in [Row -> Content] /\ base \in [Row -> Content]
       /\ ew \in [step : Steps, nRows : 0 .. Rows, appData : 0 .. Rows, start : 0 .. Rows]
       /\ eraseBuffer \in [InPage -> Content]
  BY DEF Data, DataOK
<1>16. /\ irq' = TRUE /\ flash' \in [Row -> Content]
       /\ \A s \in Row : flash'[s] # flash[s] => PageStart(s) = f1
       /\ Reached(q, f1, f1 + RowsPerPage)'
  <2>1. ErasePage(f1) /\ Reached(q, f1, 0)
    BY <1>1, <1>3, <1>5, <1>7, <1>12
  <2> QED BY <2>1, <1>1, <1>13, <1>15, PageReached
<1>17. Reached(q, f1 + RowsPerPage, 0)'
  BY <1>1, <1>10, <1>13, <1>14, <1>15, <1>16, ErasedReached
<1>18. /\ r \in Shape /\ r.pending = p1 /\ r.flashMem = f1 /\ r.appData = b.appData
       /\ r.flag = b.flag /\ r.size = b.size /\ r.blockSize = b.blockSize
  BY <1>2, <1>3, <1>8, <1>13 DEF Shape
<1>19. InRange(r)
  BY <1>2, <1>3, <1>13, <1>14, <1>18 DEF InRange
<1>20. Erasing(r, q)'
  BY <1>13, <1>14, <1>17, <1>18 DEF Erasing
<1>21. Working(r, q)'
  BY <1>1, <1>3, <1>10, <1>18, <1>20 DEF Working
<1>22. Data'
  BY <1>1, <1>2, <1>9, <1>15, <1>16, <1>18, <1>19, <1>21, WorkData
<1>23. Contract!Disturbed(q)
  <2>1. PageStart(f1) = f1
    BY <1>13 DEF OnPages
  <2> QED BY <2>1, <1>13, <1>14, <1>16, OnePage
<1> QED BY <1>1, <1>2, <1>22, <1>23, OneStep DEF ContractWork

\* What an erase-write has merged.
LEMMA PageRowData == ASSUME IInv, Data, Tasks_PageRow PROVE ContractWork
<1>1. /\ irq = TRUE /\ left > 0 /\ head.flag = "ERASE_WRITE" /\ ew.step = "WRITE_PAGE"
      /\ ProgramRow(head.flashMem + 1, eraseBuffer[head.appData + 1])
      /\ UNCHANGED <<writeEraseQ, handles, accepted, base, ew, eraseBuffer>>
  BY DEF Tasks_PageRow, historyVars, IInv, ShapeOK
<1>2. PICK q \in Order :
             /\ q = accepted[1] /\ Working(head, q)
             /\ head \in Shape /\ InRange(head)
  BY <1>1, UnderWay
<1>3. PICK b : b = head
  OBVIOUS
<1>4. PICK p : p = b.pending
  OBVIOUS
<1>5. PICK f : f = b.flashMem
  OBVIOUS
<1>6. PICK a : a = b.appData
  OBVIOUS
<1>7. PICK p1 : p1 = p - 1
  OBVIOUS
<1>8. PICK f1 : f1 = f + 1
  OBVIOUS
<1>9. PICK a1 : a1 = a + 1
  OBVIOUS
<1>10. PICK r : r = [b EXCEPT !.pending = p1, !.flashMem = f1, !.appData = a1]
  OBVIOUS
<1>11. buf' = [buf EXCEPT ![writeEraseQ] = r]
  BY <1>3, <1>4, <1>5, <1>6, <1>7, <1>8, <1>9, <1>10 DEF Tasks_PageRow, head, left
<1>12. q.kind = "ERASE_WRITE" /\ MergedUpTo(q) /\ PageWriting(b, q)
  BY <1>1, <1>2, <1>3 DEF Working, PageErased
<1>13. PICK page : page = f - a
  OBVIOUS
<1>14. PICK e : e = page + RowsPerPage
  OBVIOUS
<1>15. /\ p \in 1 .. RowsPerPage /\ a = RowsPerPage - p /\ p - 1 > 0
       /\ page \in Row /\ OnPages(page)
       /\ q.start < ew.start /\ ew.start \in page + 1 .. e
       /\ ew.nRows # 0 => ew.start = e
       /\ \A s \in InPage : eraseBuffer[s] = Contract!Apply(q, base)[page + s]
       /\ Reached(q, f1, e) /\ f \in Row
  BY <1>1, <1>2, <1>3, <1>4, <1>5, <1>6, <1>8, <1>12, <1>13, <1>14 DEF PageWriting, left, InRange
<1>16. /\ Rows \in Nat /\ RowsPerPage \in Nat /\ RowsPerPage > 0 /\ page \in Nat /\ page < Rows
       /\ e \in Nat /\ e <= Rows /\ f \in Nat
  <2>1. /\ Rows \in Nat /\ RowsPerPage \in Nat /\ RowsPerPage > 0
        /\ page \in Nat /\ page < Rows /\ f \in Nat
    BY <1>15, Media DEF Row, Contract!Row
  <2>2. page + RowsPerPage <= Rows
    BY <2>1, <1>15, PageRows
  <2> QED BY <2>1, <2>2, <1>14
<1>17. /\ f1 = page + a1 /\ f1 < e /\ f1 \in Row /\ f1 \in Nat /\ a1 \in InPage
       /\ p1 \in 1 .. RowsPerPage /\ a1 = RowsPerPage - p1 /\ a1 \in 0 .. Rows
       /\ p1 \in 0 .. Rows /\ f1 - a1 = page /\ p1 \in Int /\ f1 \in Int /\ a1 \in Int
  <2>1. f \in Int /\ a \in Int /\ f = page + a
    BY <1>13, <1>15, <1>16
  <2>2. f1 = page + a1 /\ a1 = a + 1 /\ p1 = p - 1 /\ a1 \in Nat /\ a1 < RowsPerPage
    BY <2>1, <1>7, <1>8, <1>9, <1>15, <1>16
  <2>3. f1 < e /\ f1 \in Nat /\ f1 < Rows /\ a1 < Rows /\ f1 - a1 = page
    BY <2>2, <1>14, <1>16
  <2>4. p1 \in 1 .. RowsPerPage /\ a1 = RowsPerPage - p1 /\ p1 <= Rows
    BY <2>2, <1>14, <1>15, <1>16
  <2> QED BY <2>2, <2>3, <2>4, <1>16 DEF Row, Contract!Row, InPage
<1>18. /\ flash \in [Row -> Content] /\ base \in [Row -> Content]
       /\ ew \in [step : Steps, nRows : 0 .. Rows, appData : 0 .. Rows, start : 0 .. Rows]
       /\ eraseBuffer \in [InPage -> Content]
  BY DEF Data, DataOK
<1>19. PICK v \in Content : v = eraseBuffer[a1] /\ v = Contract!Apply(q, base)[f1]
  BY <1>15, <1>17, <1>18
<1>20. ProgramRow(f1, v)
  BY <1>1, <1>3, <1>5, <1>6, <1>8, <1>9, <1>19
<1>21. /\ irq' = TRUE /\ flash' \in [Row -> Content]
       /\ \A s \in Row : flash'[s] # flash[s] => s = f1
       /\ Reached(q, f1 + 1, e)'
  BY <1>1, <1>15, <1>16, <1>17, <1>18, <1>19, <1>20, RowReached
<1>22. /\ r \in Shape /\ r.pending = p1 /\ r.flashMem = f1 /\ r.appData = a1
       /\ r.flag = b.flag /\ r.size = b.size /\ r.blockSize = b.blockSize
  BY <1>2, <1>3, <1>10, <1>17 DEF Shape
<1>23. InRange(r)
  BY <1>2, <1>3, <1>17, <1>22 DEF InRange
<1>24. PageWriting(r, q)'
  <2>1. Contract!Apply(q, base)' = Contract!Apply(q, base)
    BY <1>1 DEF Contract!Apply
  <2>2. r.flashMem - r.appData = page /\ r.flashMem = f1
    BY <1>17, <1>22
  <2>3. /\ ew'.step = "WRITE_PAGE" /\ ew'.start \in page + 1 .. page + RowsPerPage
        /\ q.start < ew'.start /\ (ew'.nRows # 0 => ew'.start = page + RowsPerPage)
    BY <1>1, <1>14, <1>15
  <2>4. r.pending \in 1 .. RowsPerPage /\ r.appData = RowsPerPage - r.pending
    BY <1>17, <1>22
  <2>5. \A s \in InPage : eraseBuffer'[s] = Contract!Apply(q, base)'[page + s]
    BY <1>1, <1>15, <2>1
  <2>6. Reached(q, f1 + 1, page + RowsPerPage)'
    BY <1>14, <1>21
  <2> QED BY <1>15, <2>2, <2>3, <2>4, <2>5, <2>6 DEF PageWriting
<1>25. Working(r, q)'
  BY <1>1, <1>3, <1>12, <1>22, <1>24 DEF Working, MergedUpTo
<1>26. Data'
  BY <1>1, <1>2, <1>11, <1>18, <1>21, <1>22, <1>23, <1>25, WorkData
\* The row is on the page of the last row merged.
<1>27. Contract!Disturbed(q)
  <2>1. PICK t : t = ew.start - 1
    OBVIOUS
  <2>2. /\ q.start \in Nat /\ q.n \in Nat /\ ew.start \in Nat
        /\ ew.start <= q.start + q.n
    BY <1>12, OrderType DEF MergedUpTo
  <2>3. /\ t \in Nat /\ q.start <= t /\ t < q.start + q.n
        /\ page <= t /\ t < page + RowsPerPage
        /\ page <= f1 /\ f1 < page + RowsPerPage
    BY <2>1, <2>2, <1>14, <1>15, <1>16, <1>17
  <2>4. PageStart(f1) = page /\ PageStart(t) = page
    BY <2>3, <1>15, <1>16, <1>17, PageRows
  <2> QED BY <2>3, <2>4, <1>21, OnePage
<1> QED BY <1>1, <1>2, <1>26, <1>27, OneStep DEF ContractWork

\* The merged copy of a page is what the request makes of it.
LEMMA Merged ==
    ASSUME NEW q \in Order, q.kind = "ERASE_WRITE", base \in [Row -> Content],
           NEW P \in Nat, OnPages(P), P < Rows, NEW st \in Nat,
           st \in {P, q.start}, st \in P .. P + RowsPerPage - 1, q.start <= st,
           NEW n \in Nat, NEW m \in Nat, st + m = q.start + q.n,
           n = IF RowsPerPage - (st - P) > m THEN m ELSE RowsPerPage - (st - P),
           NEW s \in InPage
    PROVE  /\ P + s \in Row
           /\ s \in (st - P) .. (st - P) + n - 1 =>
                  Contract!Apply(q, base)[P + s] = (st - q.start) + (s - (st - P)) + 1
           /\ s \notin (st - P) .. (st - P) + n - 1 =>
                  Contract!Apply(q, base)[P + s] = base[P + s]
<1>1. /\ Rows \in Nat /\ RowsPerPage \in Nat /\ RowsPerPage > 0
      /\ q.start \in Nat /\ q.n \in Nat
      /\ P + RowsPerPage <= Rows
  BY Media, OrderType, PageRows
<1>2. s \in Nat /\ s < RowsPerPage
  BY <1>1 DEF InPage
<1>3. P + s \in Row
  BY <1>1, <1>2 DEF Row, Contract!Row
<1>4. ASSUME s \in (st - P) .. (st - P) + n - 1
      PROVE  Contract!Apply(q, base)[P + s] = (st - q.start) + (s - (st - P)) + 1
  <2>1. q.start <= P + s /\ P + s < q.start + q.n
    BY <1>1, <1>2, <1>4
  <2>2. Contract!Apply(q, base)[P + s] = (P + s) - q.start + 1
    BY <1>3, <2>1, Applied
  <2>3. (P + s) - q.start + 1 = (st - q.start) + (s - (st - P)) + 1
    BY <1>1, <1>2
  <2> QED BY <2>2, <2>3
<1>5. ASSUME s \notin (st - P) .. (st - P) + n - 1
      PROVE  Contract!Apply(q, base)[P + s] = base[P + s]
  <2>1. s < st - P \/ st - P + n <= s
    BY <1>1, <1>2, <1>5
  <2>2. CASE s < st - P
    <3>1. st = q.start /\ P + s < q.start
      BY <1>1, <1>2, <2>2
    <3> QED BY <1>3, <3>1, Applied
  <2>3. CASE st - P + n <= s
    <3>1. n = m
      BY <1>1, <1>2, <2>3
    <3>2. q.start + q.n <= P + s
      BY <1>1, <1>2, <2>3, <3>1
    <3> QED BY <1>3, <3>2, Applied
  <2> QED BY <2>1, <2>2, <2>3
<1> QED BY <1>3, <1>4, <1>5

LEMMA MergeData == ASSUME IInv, Data, Tasks_Merge PROVE ContractWork
<1>1. /\ irq = TRUE /\ left = 0 /\ head.flag = "ERASE_WRITE" /\ ew.step = "ERASE_COMPLETE"
      /\ UNCHANGED <<writeEraseQ, handles, accepted, base>>
  BY DEF Tasks_Merge, historyVars, IInv, ShapeOK
<1>2. PICK q \in Order :
             /\ q = accepted[1] /\ Working(head, q)
             /\ head \in Shape /\ InRange(head)
  BY <1>1, UnderWay
<1>3. PICK b : b = head
  OBVIOUS
<1>4. PICK P : P = b.flashMem
  OBVIOUS
<1>5. PICK st : st = ew.start
  OBVIOUS
<1>6. PICK m : m = ew.nRows
  OBVIOUS
<1>7. PICK a : a = ew.appData
  OBVIOUS
<1>8. PICK n : n = BlocksInPage(st - P)
  OBVIOUS
<1>9. PICK r : r = [b EXCEPT !.pending = RowsPerPage, !.blockSize = 1, !.appData = 0]
  OBVIOUS
<1>10. /\ buf' = [buf EXCEPT ![writeEraseQ] = r]
       /\ eraseBuffer' = [s \in InPage |-> IF s \in (st - P) .. (st - P) + n - 1
                                           THEN a + (s - (st - P)) + 1
                                           ELSE eraseBuffer[s]]
       /\ ew' = [step |-> "WRITE_PAGE", nRows |-> m - n, appData |-> a + n, start |-> st + n]
       /\ ProgramRow(P, eraseBuffer'[0])
  BY <1>3, <1>4, <1>5, <1>6, <1>7, <1>8, <1>9 DEF Tasks_Merge, head
<1>11. q.kind = "ERASE_WRITE" /\ MergedUpTo(q) /\ PageErased(b, q)
  BY <1>1, <1>2, <1>3 DEF Working, PageWriting
<1>12. /\ Rows \in Nat /\ RowsPerPage \in Nat /\ RowsPerPage > 0
       /\ q.start \in Nat /\ q.n \in Nat /\ q.n > 0 /\ q.start + q.n <= Rows
  BY OrderType, Media
<1>13. /\ P \in Row /\ P \in Nat /\ P < Rows /\ OnPages(P)
       /\ st \in Nat /\ st \in {P, q.start} /\ st \in P .. P + RowsPerPage - 1
       /\ q.start <= st /\ st < q.start + q.n
       /\ m = q.start + q.n - st /\ m \in Nat /\ m > 0 /\ a = st - q.start
       /\ \A s \in InPage : eraseBuffer[s] = base[P + s]
       /\ Reached(q, P, P + RowsPerPage)
  <2>1. /\ P \in Row /\ OnPages(P)
        /\ st \in {P, q.start} /\ st \in P .. P + RowsPerPage - 1
        /\ st \in q.start .. q.start + q.n /\ st < q.start + q.n
        /\ m = q.start + q.n - st /\ a = st - q.start
        /\ \A s \in InPage : eraseBuffer[s] = base[P + s]
        /\ Reached(q, P, P + RowsPerPage)
    BY <1>2, <1>3, <1>4, <1>5, <1>6, <1>7, <1>11 DEF MergedUpTo, PageErased, InRange
  <2>2. P \in Nat /\ P < Rows
    BY <2>1, <1>12 DEF Row, Contract!Row
  <2> QED BY <2>1, <2>2, <1>12
<1>14. n = IF RowsPerPage - (st - P) > m THEN m ELSE RowsPerPage - (st - P)
  BY <1>6, <1>8 DEF BlocksInPage
<1>15. /\ n \in Nat /\ n > 0 /\ n <= m /\ st + n <= P + RowsPerPage
       /\ m - n # 0 => st + n = P + RowsPerPage
       /\ st + m = q.start + q.n
  BY <1>12, <1>13, <1>14
<1>16. /\ flash \in [Row -> Content] /\ base \in [Row -> Content]
       /\ eraseBuffer \in [InPage -> Content]
  BY DEF Data, DataOK
<1>17. ASSUME NEW s \in InPage
       PROVE  P + s \in Row /\ eraseBuffer'[s] = Contract!Apply(q, base)[P + s]
  <2>1. /\ P + s \in Row
        /\ s \in (st - P) .. (st - P) + n - 1 =>
               Contract!Apply(q, base)[P + s] = (st - q.start) + (s - (st - P)) + 1
        /\ s \notin (st - P) .. (st - P) + n - 1 =>
               Contract!Apply(q, base)[P + s] = base[P + s]
    BY <1>11, <1>13, <1>14, <1>15, <1>16, Merged
  <2>2. eraseBuffer'[s] = IF s \in (st - P) .. (st - P) + n - 1
                          THEN a + (s - (st - P)) + 1 ELSE eraseBuffer[s]
    BY <1>10
  <2> QED BY <2>1, <2>2, <1>13
<1>18. eraseBuffer' \in [InPage -> Content]
  <2>1. Contract!Apply(q, base) \in [Row -> Content]
    BY <1>16, AppliedType
  <2>2. \A s \in InPage : eraseBuffer'[s] \in Content
    BY <1>17, <2>1
  <2>3. eraseBuffer' = [s \in InPage |-> eraseBuffer'[s]]
    BY <1>10, Zenon
  <2> QED BY <2>2, <2>3
<1>19. PICK v \in Content : v = eraseBuffer'[0] /\ v = Contract!Apply(q, base)[P]
  <2>1. 0 \in InPage /\ P + 0 = P
    BY <1>12, <1>13 DEF InPage
  <2> QED BY <2>1, <1>17, <1>18
<1>20. PICK e \in Nat : e = P + RowsPerPage
  BY <1>12, <1>13
<1>21. /\ irq' = TRUE /\ flash' \in [Row -> Content]
       /\ \A s \in Row : flash'[s] # flash[s] => s = P
       /\ Reached(q, P + 1, e)'
  <2>1. ProgramRow(P, v) /\ P < e /\ Reached(q, P, e)
    BY <1>10, <1>12, <1>13, <1>19, <1>20
  <2> QED BY <2>1, <1>1, <1>13, <1>16, <1>19, RowReached
<1>22. RowsPerPage \in 0 .. Rows /\ 1 \in Int /\ 0 \in Int /\ RowsPerPage \in Int /\ 0 \in 0 .. Rows
  <2>1. P + RowsPerPage <= Rows
    BY <1>13, PageRows
  <2> QED BY <2>1, <1>12, <1>13
<1>23. /\ r \in Shape /\ r.pending = RowsPerPage /\ r.flashMem = P /\ r.appData = 0
       /\ r.flag = b.flag /\ r.size = b.size /\ r.blockSize = 1
  <2>1. PICK one \in Int : one = 1
    OBVIOUS
  <2>2. PICK zero \in Int : zero = 0
    OBVIOUS
  <2>3. PICK k \in Int : k = RowsPerPage
    BY <1>22
  <2>4. r = [b EXCEPT !.pending = k, !.blockSize = one, !.appData = zero] /\ b \in Shape
    BY <1>2, <1>3, <1>9, <2>1, <2>2, <2>3
  <2>5. /\ r \in Shape /\ r.pending = k /\ r.flashMem = b.flashMem /\ r.appData = zero
        /\ r.flag = b.flag /\ r.size = b.size /\ r.blockSize = one
    BY <2>4 DEF Shape
  <2> QED BY <2>1, <2>2, <2>3, <2>5, <1>4
<1>24. InRange(r)
  BY <1>2, <1>3, <1>13, <1>22, <1>23 DEF InRange
<1>25. /\ ew' \in [step : Steps, nRows : 0 .. Rows, appData : 0 .. Rows, start : 0 .. Rows]
       /\ ew'.step = "WRITE_PAGE" /\ ew'.nRows = m - n /\ ew'.appData = a + n
       /\ ew'.start = st + n
  <2>1. m - n \in 0 .. Rows /\ a + n \in 0 .. Rows /\ st + n \in 0 .. Rows
    BY <1>12, <1>13, <1>15
  <2>2. "WRITE_PAGE" \in Steps
    BY DEF Steps
  <2> QED BY <2>1, <2>2, <1>10
<1>26. MergedUpTo(q)'
  <2>1. /\ st + n \in q.start .. q.start + q.n
        /\ m - n = q.start + q.n - (st + n) /\ a + n = (st + n) - q.start
    BY <1>12, <1>13, <1>15
  <2> QED BY <2>1, <1>25 DEF MergedUpTo
<1>27. PageWriting(r, q)'
  <2>1. Contract!Apply(q, base)' = Contract!Apply(q, base)
    BY <1>1 DEF Contract!Apply
  <2>2. r.flashMem - r.appData = P /\ r.flashMem = P
    BY <1>13, <1>23
  <2>3. /\ ew'.step = "WRITE_PAGE" /\ ew'.start \in P + 1 .. P + RowsPerPage
        /\ q.start < ew'.start /\ (ew'.nRows # 0 => ew'.start = P + RowsPerPage)
    BY <1>12, <1>13, <1>15, <1>25
  <2>4. r.pending \in 1 .. RowsPerPage /\ r.appData = RowsPerPage - r.pending
    BY <1>12, <1>23
  <2>5. \A s \in InPage : eraseBuffer'[s] = Contract!Apply(q, base)'[P + s]
    BY <1>17, <2>1
  <2>6. Reached(q, P + 1, P + RowsPerPage)'
    BY <1>20, <1>21
  <2> QED BY <1>13, <2>2, <2>3, <2>4, <2>5, <2>6 DEF PageWriting
<1>28. Working(r, q)'
  BY <1>1, <1>3, <1>11, <1>23, <1>26, <1>27 DEF Working
<1>29. Data'
  BY <1>1, <1>2, <1>10, <1>18, <1>21, <1>23, <1>24, <1>25, <1>28, WorkData
<1>30. Contract!Disturbed(q)
  <2>1. PageStart(P) = P /\ PageStart(st) = P
    <3>1. P <= st /\ st < P + RowsPerPage
      BY <1>12, <1>13
    <3> QED BY <3>1, <1>13, PageRows DEF OnPages
  <2> QED BY <2>1, <1>13, <1>21, OnePage
<1> QED BY <1>1, <1>2, <1>29, <1>30, OneStep DEF ContractWork

LEMMA NextPageData == ASSUME IInv, Data, Tasks_NextPage PROVE ContractWork
<1>1. /\ irq = TRUE /\ left = 0 /\ head.flag = "ERASE_WRITE"
      /\ ew.step = "WRITE_PAGE" /\ ew.nRows # 0
      /\ Backup(head.flashMem + 1) /\ ErasePage(head.flashMem + 1)
      /\ ew' = [ew EXCEPT !.step = "ERASE_COMPLETE"]
      /\ UNCHANGED <<writeEraseQ, handles, accepted, base>>
  BY DEF Tasks_NextPage, historyVars, IInv, ShapeOK
<1>2. PICK q \in Order :
             /\ q = accepted[1] /\ Working(head, q)
             /\ head \in Shape /\ InRange(head)
  BY <1>1, UnderWay
<1>3. PICK b : b = head
  OBVIOUS
<1>4. PICK f1 : f1 = b.flashMem + 1
  OBVIOUS
<1>5. PICK r : r = [b EXCEPT !.pending = 1, !.blockSize = RowsPerPage, !.flashMem = f1]
  OBVIOUS
<1>6. /\ buf' = [buf EXCEPT ![writeEraseQ] = r] /\ ErasePage(f1) /\ Backup(f1)
  BY <1>1, <1>3, <1>4, <1>5 DEF Tasks_NextPage, head
<1>7. q.kind = "ERASE_WRITE" /\ MergedUpTo(q) /\ PageWriting(b, q)
  BY <1>1, <1>2, <1>3 DEF Working, PageErased
<1>8. PICK page : page = b.flashMem - b.appData
  OBVIOUS
<1>9. /\ Rows \in Nat /\ RowsPerPage \in Nat /\ RowsPerPage > 0
      /\ q.start \in Nat /\ q.n \in Nat /\ q.n > 0 /\ q.start + q.n <= Rows
  BY OrderType, Media
<1>10. /\ page \in Row /\ page \in Nat /\ OnPages(page)
       /\ f1 = page + RowsPerPage /\ Reached(q, f1, f1) /\ ew.start = f1
       /\ ew.start \in q.start .. q.start + q.n
       /\ ew.nRows = q.start + q.n - ew.start
  <2>1. /\ b.pending = 1 /\ b.appData = RowsPerPage - 1 /\ b.flashMem \in Row
        /\ page \in Row /\ OnPages(page) /\ ew.start = page + RowsPerPage
        /\ Reached(q, f1, page + RowsPerPage)
        /\ ew.start \in q.start .. q.start + q.n
        /\ ew.nRows = q.start + q.n - ew.start
    <3>1. b.pending = 1
      BY <1>1, <1>2, <1>3 DEF left, InRange
    <3> QED BY <3>1, <1>1, <1>2, <1>3, <1>4, <1>7, <1>8 DEF PageWriting, MergedUpTo, InRange
  <2>2. page \in Nat /\ b.flashMem \in Nat
    BY <2>1 DEF Row, Contract!Row
  <2>3. f1 = page + RowsPerPage
    BY <2>1, <2>2, <1>4, <1>8, <1>9
  <2> QED BY <2>1, <2>2, <2>3
<1>11. /\ f1 \in Nat /\ OnPages(f1) /\ f1 < q.start + q.n /\ f1 < Rows /\ f1 \in Row
       /\ q.start <= f1 /\ f1 + RowsPerPage <= Rows
  <2>1. f1 \in Nat /\ OnPages(f1)
    BY <1>9, <1>10, PageRows
  <2>2. f1 < q.start + q.n /\ f1 < Rows /\ q.start <= f1
    BY <2>1, <1>1, <1>9, <1>10
  <2>3. f1 + RowsPerPage <= Rows
    BY <2>1, <2>2, PageRows
  <2> QED BY <2>1, <2>2, <2>3, <1>9 DEF Row, Contract!Row
<1>12. /\ flash \in [Row -> Content] /\ base \in [Row -> Content]
       /\ ew \in [step : Steps, nRows : 0 .. Rows, appData : 0 .. Rows, start : 0 .. Rows]
  BY DEF Data, DataOK
<1>13. ASSUME NEW s \in InPage
       PROVE  f1 + s \in Row /\ eraseBuffer'[s] = base[f1 + s]
              /\ flash[f1 + s] \in Content
  <2>1. s \in Nat /\ s < RowsPerPage
    BY <1>9 DEF InPage
  <2>2. f1 + s \in Row /\ ~(f1 + s < f1)
    BY <2>1, <1>9, <1>11 DEF Row, Contract!Row
  <2>3. eraseBuffer'[s] = flash[f1 + s]
    BY <1>6 DEF Backup
  <2> QED BY <2>2, <2>3, <1>10, <1>12 DEF Reached
<1>14. eraseBuffer' \in [InPage -> Content]
  <2>1. eraseBuffer' = [s \in InPage |-> flash[f1 + s]]
    BY <1>6 DEF Backup
  <2> QED BY <2>1, <1>13
<1>15. Reached(q, f1, 0)
  <2>1. \A s \in Row : s \in Nat /\ ~(s < 0)
    BY DEF Row, Contract!Row
  <2>2. \A s \in Row : flash[s] = IF s < f1 THEN Contract!Apply(q, base)[s]
                                  ELSE IF s < f1 THEN Erased ELSE base[s]
    BY <1>10 DEF Reached
  <2> QED BY <2>1, <2>2 DEF Reached
<1>16. /\ irq' = TRUE /\ flash' \in [Row -> Content]
       /\ \A s \in Row : flash'[s] # flash[s] => PageStart(s) = f1
       /\ Reached(q, f1, f1 + RowsPerPage)'
  BY <1>1, <1>6, <1>11, <1>12, <1>15, PageReached
<1>17. /\ r \in Shape /\ r.pending = 1 /\ r.flashMem = f1 /\ r.appData = b.appData
       /\ r.flag = b.flag /\ r.size = b.size /\ r.blockSize = RowsPerPage
  <2>1. PICK one \in Int : one = 1
    OBVIOUS
  <2>2. PICK k \in Int : k = RowsPerPage
    BY <1>9
  <2>3. /\ r = [b EXCEPT !.pending = one, !.blockSize = k, !.flashMem = f1] /\ b \in Shape
        /\ f1 \in Int
    BY <1>2, <1>3, <1>5, <1>11, <2>1, <2>2
  <2>4. /\ r \in Shape /\ r.pending = one /\ r.flashMem = f1 /\ r.appData = b.appData
        /\ r.flag = b.flag /\ r.size = b.size /\ r.blockSize = k
    BY <2>3 DEF Shape
  <2> QED BY <2>1, <2>2, <2>4
<1>18. InRange(r)
  <2>1. 1 \in 0 .. Rows
    BY <1>9, <1>11
  <2> QED BY <2>1, <1>2, <1>3, <1>11, <1>17 DEF InRange
<1>19. /\ ew' \in [step : Steps, nRows : 0 .. Rows, appData : 0 .. Rows, start : 0 .. Rows]
       /\ ew'.step = "ERASE_COMPLETE" /\ ew'.nRows = ew.nRows /\ ew'.appData = ew.appData
       /\ ew'.start = ew.start
  BY <1>1, <1>12 DEF Steps
<1>20. MergedUpTo(q)'
  BY <1>7, <1>19 DEF MergedUpTo
<1>21. PageErased(r, q)'
  <2>1. /\ ew'.start < q.start + q.n
        /\ ew'.start \in r.flashMem .. r.flashMem + RowsPerPage - 1
        /\ ew'.start \in {r.flashMem, q.start}
    BY <1>9, <1>10, <1>11, <1>17, <1>19
  <2>2. \A s \in InPage : eraseBuffer'[s] = base'[r.flashMem + s]
    BY <1>1, <1>13, <1>17
  <2> QED BY <2>1, <2>2, <1>11, <1>16, <1>17, <1>19 DEF PageErased
<1>22. Working(r, q)'
  BY <1>1, <1>3, <1>7, <1>17, <1>20, <1>21 DEF Working
<1>23. Data'
  BY <1>1, <1>2, <1>6, <1>14, <1>16, <1>17, <1>18, <1>19, <1>22, WorkData
<1>24. Contract!Disturbed(q)
  <2>1. PageStart(f1) = f1
    BY <1>11 DEF OnPages
  <2> QED BY <2>1, <1>11, <1>16, OnePage
<1> QED BY <1>1, <1>2, <1>23, <1>24, OneStep DEF ContractWork
----------------------------------------------------------------------------
\* A request is complete: the flash is what it is to make of it.

LEMMA WorkDone ==
    ASSUME IInv, Data, irq = TRUE, RequestDone, NEW q \in Order, q = accepted[1]
    PROVE  flash = Contract!Apply(q, base)
<1>1. PICK b : b = head
  OBVIOUS
<1>2. /\ Working(b, q) /\ InRange(b) /\ b.pending - 1 = 0
      /\ b.flag = "ERASE_WRITE" => ew.step = "WRITE_PAGE" /\ ew.nRows = 0
  BY <1>1, UnderWay DEF RequestDone, left
<1>3. b.pending = 1
  BY <1>2 DEF InRange
<1>4. /\ Rows \in Nat /\ RowsPerPage \in Nat /\ RowsPerPage > 0
      /\ q.start \in Nat /\ q.n \in Nat /\ q.n > 0 /\ q.start + q.n <= Rows
      /\ q.kind \in {"WRITE", "ERASE", "ERASE_WRITE"} /\ b.flag = q.kind
  BY <1>2, OrderType, Media DEF Working
<1>5. b.flashMem \in Nat
  BY <1>2 DEF InRange, Row, Contract!Row
<1>6. /\ flash \in [Row -> Content] /\ base \in [Row -> Content]
      /\ Contract!Apply(q, base) \in [Row -> Content]
  BY AppliedType DEF Data, DataOK
\* All rows up to r are done, and r is behind the request.
<1>7. \E r \in Nat, e \in Nat : Reached(q, r, e) /\ q.start + q.n <= r /\ e <= r
  <2>1. CASE q.kind = "WRITE"
    <3>1. Reached(q, b.flashMem + 1, 0) /\ b.flashMem = q.start + q.n - 1
      BY <1>2, <1>3, <2>1 DEF Working, Writing
    <3>2. b.flashMem + 1 \in Nat /\ 0 \in Nat /\ q.start + q.n <= b.flashMem + 1
          /\ 0 <= b.flashMem + 1
      BY <3>1, <1>4, <1>5
    <3> QED BY <3>1, <3>2
  <2>2. CASE q.kind = "ERASE"
    <3>1. Reached(q, b.flashMem + RowsPerPage, 0)
          /\ b.flashMem + 1 * RowsPerPage = q.start + q.n
      BY <1>2, <1>3, <2>2 DEF Working, Erasing
    <3>2. b.flashMem + RowsPerPage \in Nat /\ 0 \in Nat
          /\ q.start + q.n <= b.flashMem + RowsPerPage
          /\ 0 <= b.flashMem + RowsPerPage
      BY <3>1, <1>4, <1>5
    <3> QED BY <3>1, <3>2
  <2>3. CASE q.kind = "ERASE_WRITE"
    <3>1. MergedUpTo(q) /\ PageWriting(b, q) /\ ew.nRows = 0
      BY <1>2, <1>4, <2>3 DEF Working, PageErased
    <3>2. PICK page \in Nat : page = b.flashMem - b.appData /\ page \in Row
      BY <3>1 DEF PageWriting, Row, Contract!Row
    <3>3. /\ b.appData = RowsPerPage - 1
          /\ ew.start \in page + 1 .. page + RowsPerPage
          /\ ew.start \in q.start .. q.start + q.n /\ 0 = q.start + q.n - ew.start
          /\ Reached(q, b.flashMem + 1, page + RowsPerPage)
      BY <3>1, <3>2, <1>3 DEF PageWriting, MergedUpTo
    <3>4. /\ b.flashMem + 1 = page + RowsPerPage /\ b.flashMem + 1 \in Nat
          /\ q.start + q.n <= b.flashMem + 1 /\ page + RowsPerPage \in Nat
      BY <3>2, <3>3, <1>4, <1>5
    <3> QED BY <3>3, <3>4
  <2> QED BY <2>1, <2>2, <2>3, <1>4
<1>8. ASSUME NEW s \in Row PROVE flash[s] = Contract!Apply(q, base)[s]
  <2>1. PICK r \in Nat, e \in Nat : Reached(q, r, e) /\ q.start + q.n <= r /\ e <= r
    BY <1>7
  <2>2. flash[s] = IF s < r THEN Contract!Apply(q, base)[s]
                   ELSE IF s < e THEN Erased ELSE base[s]
    BY <2>1 DEF Reached
  <2>3. s \in Nat
    BY DEF Row, Contract!Row
  <2>4. CASE s < r
    BY <2>2, <2>4
  <2>5. CASE ~(s < r)
    <3>1. ~(s < e) /\ q.start + q.n <= s
      BY <2>1, <2>3, <2>5, <1>4
    <3>2. Contract!Apply(q, base)[s] = base[s]
      BY <3>1, <1>6, Applied
    <3> QED BY <2>2, <2>5, <3>1, <3>2
  <2> QED BY <2>4, <2>5
<1> QED BY <1>6, <1>8

LEMMA CompleteData ==
    ASSUME IInv, Data, Tasks_Complete
    PROVE  Data' /\ Contract!Complete
<1>1. /\ irq = TRUE /\ irq' = FALSE /\ RequestDone
      /\ accepted' = Tail(accepted) /\ base' = flash /\ handles' = Tail(handles)
      /\ UNCHANGED <<writeEraseQ, ew, eraseBuffer, flash>>
  BY DEF Tasks_Complete, IInv, ShapeOK
<1>2. PICK q \in Order :
             /\ q = accepted[1] /\ accepted # <<>> /\ Head(accepted) = q
             /\ writeEraseQ \in Buffers /\ buf \in [Buffers -> Shape]
             /\ 1 \in 1 .. Len(handles) /\ Index(1) = writeEraseQ
             /\ head \in Shape /\ InRange(head)
  BY <1>1, UnderWay
<1>3. flash = Contract!Apply(q, base)
  BY <1>1, <1>2, WorkDone
<1>4. Contract!Complete
  <2>1. Tail(accepted) # <<>> => Contract!Disturbed(Head(Tail(accepted)))
    BY <1>1 DEF Contract!Disturbed
  <2> QED BY <2>1, <1>1, <1>2, <1>3 DEF Contract!Complete
<1>5. \A k \in Buffers : k # writeEraseQ => buf'[k] = buf[k]
  BY <1>2 DEF Tasks_Complete
<1>6. InRange(buf'[writeEraseQ])
  <2>1. PICK r : r = [head EXCEPT !.status = "COMPLETED", !.pending = 0]
    OBVIOUS
  <2>2. buf' = [buf EXCEPT ![writeEraseQ] = r]
    BY <2>1 DEF Tasks_Complete, head
  <2>3. buf'[writeEraseQ] = r
    BY <2>2, <1>2
  <2>4. /\ r.pending = 0 /\ r.size = head.size /\ r.blockSize = head.blockSize
        /\ r.flashMem = head.flashMem /\ r.appData = head.appData
    BY <2>1, <1>2 DEF Shape
  <2>5. 0 \in 0 .. Rows
    BY Media
  <2> QED BY <2>3, <2>4, <2>5, <1>2 DEF InRange
<1>7. /\ accepted \in Seq(Order) /\ Len(accepted) = Len(handles)
      /\ handles \in Seq([token : 0 .. TokenMax - 1, index : Buffers])
      /\ handles # <<>> /\ Len(handles) \in Nat
  BY <1>2 DEF Data, DataOK, IInv, ShapeOK
<1>8. /\ accepted' \in Seq(Order) /\ Len(accepted') = Len(accepted) - 1
      /\ \A n \in 1 .. Len(accepted') : accepted'[n] = accepted[n + 1]
  BY <1>1, <1>2, <1>7
<1>9. /\ Len(handles') = Len(handles) - 1
      /\ \A n \in 1 .. Len(handles') : handles'[n] = handles[n + 1]
  BY <1>1, <1>7
<1>10. DataOK'
  <2>1. \A k \in Buffers : InRange(buf[k])
    BY DEF Data, DataOK
  <2>2. \A k \in Buffers : InRange(buf'[k])
    BY <1>5, <1>6, <2>1
  <2>3. /\ ew' \in [step : Steps, nRows : 0 .. Rows, appData : 0 .. Rows, start : 0 .. Rows]
        /\ eraseBuffer' \in [InPage -> Content]
        /\ flash' \in [Row -> Content] /\ base' \in [Row -> Content]
    BY <1>1 DEF Data, DataOK
  <2>4. accepted' \in Seq(Order) /\ Len(accepted') = Len(handles')
    BY <1>7, <1>8, <1>9
  <2> QED BY <2>2, <2>3, <2>4 DEF DataOK, InRange
<1>11. ASSUME NEW n \in 1 .. Len(handles')
       PROVE  Asked(buf'[handles'[n].index], accepted'[n])
  <2>1. n + 1 \in 1 .. Len(handles) /\ n + 1 # 1
    BY <1>7, <1>9
  <2>2. handles'[n].index = Index(n + 1) /\ accepted'[n] = accepted[n + 1]
    BY <1>7, <1>8, <1>9 DEF Index
  <2>3. Index(n + 1) \in Buffers /\ Index(n + 1) # writeEraseQ
    BY <1>2, <2>1, IndexType DEF IInv, HandlesDiffer
  <2>4. Asked(buf[Index(n + 1)], accepted[n + 1])
    BY <2>1 DEF Data
  <2> QED BY <1>5, <2>2, <2>3, <2>4
<1>12. flash' = base' /\ ~irq'
  BY <1>1
<1> QED BY <1>4, <1>10, <1>11, <1>12 DEF Data, Index, Asked
----------------------------------------------------------------------------
\* The first operation of a request.

Started(bufs, k, r, q) ==
    /\ buf' = [bufs EXCEPT ![k] = r] /\ r \in Shape /\ InRange(r)
    /\ irq' = TRUE
    /\ ew' \in [step : Steps, nRows : 0 .. Rows, appData : 0 .. Rows, start : 0 .. Rows]
    /\ eraseBuffer' \in [InPage -> Content]
    /\ flash' \in [Row -> Content]
    /\ Working(r, q)'
    /\ Contract!Disturbed(q)

LEMMA StartData ==
    ASSUME NEW bufs \in [Buffers -> Shape], NEW k \in Buffers, InRange(bufs[k]),
           NEW q \in Order, Asked(bufs[k], q), Start(bufs, k),
           flash \in [Row -> Content], eraseBuffer \in [InPage -> Content],
           ew \in [step : Steps, nRows : 0 .. Rows, appData : 0 .. Rows, start : 0 .. Rows],
           base = flash, base' = base
    PROVE  \E r : Started(bufs, k, r, q)
<1>0. base \in [Row -> Content] /\ base' \in [Row -> Content]
  OBVIOUS
<1>1. PICK b \in Shape : b = bufs[k]
  OBVIOUS
<1>2. /\ Rows \in Nat /\ RowsPerPage \in Nat /\ RowsPerPage > 0
      /\ q.start \in Nat /\ q.n \in Nat /\ q.n > 0 /\ q.start + q.n <= Rows
      /\ q.start < Rows /\ q.start < q.start + q.n
  <2>1. /\ Rows \in Nat /\ RowsPerPage \in Nat /\ RowsPerPage > 0
        /\ q.start \in Nat /\ q.n \in Nat /\ q.n > 0 /\ q.start + q.n <= Rows
    BY OrderType, Media
  <2> QED BY <2>1
<1>3. /\ b.flag = q.kind /\ b.size = q.n /\ b.flashMem = q.start /\ b.appData = 0
      /\ q.kind = "WRITE" => b.pending = q.n
      /\ q.kind = "ERASE" => b.pending * RowsPerPage = q.n
      /\ InRange(b)
  BY <1>1 DEF Asked
<1>4. q.start \in Row
  BY <1>2 DEF Row, Contract!Row
<1>5. \A s \in Row : s \in Nat
  BY DEF Row, Contract!Row
\* Nothing is done: any row up to the first one will do.
<1>6. ASSUME NEW a \in Nat, a <= q.start PROVE Reached(q, a, 0)
  <2>1. ASSUME NEW s \in Row
        PROVE  flash[s] = IF s < a THEN Contract!Apply(q, base)[s]
                          ELSE IF s < 0 THEN Erased ELSE base[s]
    <3>1. s < a => s < q.start
      BY <1>2, <1>5, <1>6
    <3>2. s < q.start => Contract!Apply(q, base)[s] = base[s]
      BY Applied
    <3> QED BY <1>5, <3>1, <3>2
  <2> QED BY <2>1 DEF Reached
<1>7. CASE b.flag = "WRITE"
  <2>1. /\ ProgramRow(b.flashMem, b.appData + 1) /\ buf' = bufs
        /\ UNCHANGED <<ew, eraseBuffer>>
    BY <1>1, <1>7 DEF Start
  <2>2. PICK v \in Content : v = 1
    BY <1>2, ContentType
  <2>3. Contract!Apply(q, base)[q.start] = Contract!Programmed(base[q.start], v)
    <3>1. q.start - q.start + 1 = v
      BY <1>2, <2>2
    <3>2. q.start <= q.start /\ q.kind = "WRITE"
      BY <1>2, <1>3, <1>7
    <3>3. Contract!Apply(q, base)[q.start]
            = Contract!Programmed(base[q.start], q.start - q.start + 1)
      BY <1>0, <1>2, <1>4, <3>2, Applied
    <3> QED BY <3>1, <3>3
  <2>4. ProgramRow(q.start, v)
    <3>1. b.appData + 1 = v
      BY <1>3, <2>2
    <3> QED BY <2>1, <1>3, <3>1
  <2>5. Reached(q, q.start, 0) /\ 0 \in Nat /\ 0 <= q.start
    BY <1>2, <1>6
  <2>6. /\ irq' = TRUE /\ flash' \in [Row -> Content]
        /\ \A s \in Row : flash'[s] # flash[s] => s = q.start
        /\ Reached(q, q.start + 1, 0)'
    BY <1>4, <2>3, <2>4, <2>5, RowReached
  <2>7. Writing(b, q)'
    <3>1. /\ b.pending \in 1 .. q.n /\ b.flashMem = q.start + q.n - b.pending
          /\ b.appData = q.n - b.pending
      BY <1>2, <1>3, <1>7
    <3> QED BY <3>1, <2>6, <1>3 DEF Writing
  <2>8. Working(b, q)'
    BY <2>7, <1>3, <1>7 DEF Working
  <2>9. Contract!Disturbed(q)
    BY <1>2, <2>6, OnePage
  <2>10. buf' = [bufs EXCEPT ![k] = b]
    BY <1>1, <2>1
  <2>11. Started(bufs, k, b, q)
    BY <1>3, <2>1, <2>6, <2>8, <2>9, <2>10 DEF Started
  <2> QED BY <2>11
<1>8. CASE b.flag = "ERASE"
  <2>1. /\ ErasePage(q.start) /\ buf' = bufs
        /\ UNCHANGED <<ew, eraseBuffer>>
    BY <1>1, <1>3, <1>8 DEF Start
  <2>2. OnPages(q.start)
    BY <1>3, <1>8, OrderType
  <2>3. Reached(q, q.start, 0)
    BY <1>2, <1>6
  <2>4. /\ irq' = TRUE /\ flash' \in [Row -> Content]
        /\ \A s \in Row : flash'[s] # flash[s] => PageStart(s) = q.start
        /\ Reached(q, q.start, q.start + RowsPerPage)'
    BY <1>2, <2>1, <2>2, <2>3, PageReached
  <2>5. /\ b.pending \in Nat \ {0} /\ b.pending * RowsPerPage = q.n
        /\ q.start + RowsPerPage <= q.start + q.n
    <3>1. b.pending \in Nat /\ b.pending * RowsPerPage = q.n
      BY <1>2, <1>3, <1>8 DEF InRange
    <3>2. b.pending # 0
      BY <3>1, <1>2
    <3>3. 1 * RowsPerPage <= b.pending * RowsPerPage
      BY <1>2, <3>1, <3>2, Multiples
    <3>4. 1 * RowsPerPage = RowsPerPage
      BY <1>2
    <3> QED BY <1>2, <3>1, <3>2, <3>3, <3>4
  <2>6. q.kind = "ERASE" /\ q.start <= q.start
    BY <1>2, <1>3, <1>8
  <2>7. Reached(q, q.start + RowsPerPage, 0)'
    BY <1>0, <1>2, <2>4, <2>5, <2>6, ErasedReached
  <2>8. Erasing(b, q)'
    BY <1>2, <1>3, <2>2, <2>5, <2>7 DEF Erasing
  <2>9. Working(b, q)'
    BY <2>8, <1>3, <1>8 DEF Working
  <2>10. Contract!Disturbed(q)
    BY <1>2, <2>2, <2>4, OnePage DEF OnPages
  <2>11. buf' = [bufs EXCEPT ![k] = b]
    BY <1>1, <2>1
  <2>12. Started(bufs, k, b, q)
    BY <1>3, <2>1, <2>4, <2>9, <2>10, <2>11 DEF Started
  <2> QED BY <2>12
<1>9. CASE b.flag = "ERASE_WRITE"
  <2>1. PICK P : P = PageStart(q.start)
    OBVIOUS
  <2>2. PICK r : r = [b EXCEPT !.status = "IN_PROGRESS", !.pending = 1,
                               !.blockSize = RowsPerPage, !.flashMem = P]
    OBVIOUS
  <2>3. /\ ew' = [step |-> "ERASE_COMPLETE", nRows |-> q.n, appData |-> 0, start |-> q.start]
        /\ Backup(P) /\ ErasePage(q.start)
        /\ buf' = [bufs EXCEPT ![k] = r]
    <3>1. b.flag # "WRITE" /\ b.flag # "ERASE"
      BY <1>9
    <3>2. /\ ew' = [step |-> "ERASE_COMPLETE", nRows |-> b.size,
                    appData |-> b.appData, start |-> b.flashMem]
          /\ Backup(PageStart(b.flashMem)) /\ ErasePage(b.flashMem)
          /\ buf' = [bufs EXCEPT ![k].status = "IN_PROGRESS",
                                 ![k].pending = 1,
                                 ![k].blockSize = RowsPerPage,
                                 ![k].flashMem = PageStart(b.flashMem)]
      BY <1>1, <3>1 DEF Start
    <3> QED BY <1>1, <1>3, <2>1, <2>2, <3>2
  <2>4. /\ P \in Nat /\ OnPages(P) /\ P <= q.start /\ q.start < P + RowsPerPage
        /\ P < Rows /\ P + RowsPerPage <= Rows /\ P \in Row
    <3>1. P \in Nat /\ OnPages(P) /\ P <= q.start /\ q.start < P + RowsPerPage
      BY <1>2, <2>1, PageBounds
    <3>2. P < Rows
      BY <1>2, <3>1
    <3>3. P + RowsPerPage <= Rows
      BY <3>1, <3>2, PageRows
    <3> QED BY <3>1, <3>2, <3>3, <1>2 DEF Row, Contract!Row
  <2>5. ErasePage(P)
    BY <2>1, <2>3, <2>4 DEF ErasePage, OnPages
  <2>6. Reached(q, P, 0)
    BY <1>6, <2>4
  <2>7. /\ irq' = TRUE /\ flash' \in [Row -> Content]
        /\ \A s \in Row : flash'[s] # flash[s] => PageStart(s) = P
        /\ Reached(q, P, P + RowsPerPage)'
    BY <2>4, <2>5, <2>6, PageReached
  <2>8. /\ eraseBuffer' \in [InPage -> Content]
        /\ \A s \in InPage : eraseBuffer'[s] = base[P + s]
    <3>1. ASSUME NEW s \in InPage PROVE P + s \in Row
      <4>1. s \in Nat /\ s < RowsPerPage
        BY <1>2 DEF InPage
      <4> QED BY <4>1, <1>2, <2>4 DEF Row, Contract!Row
    <3>2. eraseBuffer' = [s \in InPage |-> flash[P + s]]
      BY <2>3 DEF Backup
    <3> QED BY <3>1, <3>2
  <2>9. /\ r \in Shape /\ r.pending = 1 /\ r.flashMem = P /\ r.appData = b.appData
        /\ r.flag = b.flag /\ r.size = b.size /\ r.blockSize = RowsPerPage
    <3>1. PICK one \in Int : one = 1
      OBVIOUS
    <3>2. PICK m \in Int : m = RowsPerPage
      BY <1>2
    <3>3. PICK st \in {"COMPLETED", "QUEUED", "IN_PROGRESS"} : st = "IN_PROGRESS"
      OBVIOUS
    <3>4. /\ r = [b EXCEPT !.status = st, !.pending = one, !.blockSize = m, !.flashMem = P]
          /\ P \in Int
      BY <2>2, <2>4, <3>1, <3>2, <3>3
    <3>5. /\ r \in Shape /\ r.pending = one /\ r.flashMem = P /\ r.appData = b.appData
          /\ r.flag = b.flag /\ r.size = b.size /\ r.blockSize = m
      BY <3>4 DEF Shape
    <3> QED BY <3>1, <3>2, <3>5
  <2>10. InRange(r)
    <3>1. 1 \in 0 .. Rows
      BY <1>2
    <3> QED BY <3>1, <1>3, <2>4, <2>9 DEF InRange
  <2>11. /\ ew' \in [step : Steps, nRows : 0 .. Rows, appData : 0 .. Rows, start : 0 .. Rows]
         /\ ew'.step = "ERASE_COMPLETE" /\ ew'.nRows = q.n /\ ew'.appData = 0
         /\ ew'.start = q.start
    <3>1. q.n \in 0 .. Rows /\ 0 \in 0 .. Rows /\ q.start \in 0 .. Rows
      BY <1>2
    <3> QED BY <3>1, <2>3 DEF Steps
  <2>12. MergedUpTo(q)'
    <3>1. q.start \in q.start .. q.start + q.n /\ q.n = q.start + q.n - q.start
          /\ 0 = q.start - q.start
      BY <1>2
    <3> QED BY <3>1, <2>11 DEF MergedUpTo
  <2>13. PageErased(r, q)'
    <3>1. /\ ew'.start < q.start + q.n
          /\ ew'.start \in r.flashMem .. r.flashMem + RowsPerPage - 1
          /\ ew'.start \in {r.flashMem, q.start}
      BY <1>2, <2>4, <2>9, <2>11
    <3>2. \A s \in InPage : eraseBuffer'[s] = base'[r.flashMem + s]
      BY <2>8, <2>9
    <3> QED BY <3>1, <3>2, <2>4, <2>7, <2>9, <2>11 DEF PageErased
  <2>14. Working(r, q)'
    BY <1>3, <1>9, <2>9, <2>12, <2>13 DEF Working
  <2>15. Contract!Disturbed(q)
    BY <1>2, <2>1, <2>7, OnePage
  <2>16. Started(bufs, k, r, q)
    BY <2>3, <2>7, <2>8, <2>9, <2>10, <2>11, <2>14, <2>15 DEF Started
  <2> QED BY <2>16
<1> QED BY <1>1, <1>7, <1>8, <1>9 DEF Start
----------------------------------------------------------------------------
\* The calls and the releases.

LEMMA FreeInRange ==
    ASSUME NEW t \in 0 .. TokenMax - 1, NEW u \in BOOLEAN
    PROVE  InRange([Free EXCEPT !.inUse = u, !.token = t]) /\ InRange(Free)
<1>1. 0 \in 0 .. Rows /\ 0 \in Row
  BY Media DEF Row, Contract!Row
<1> QED BY <1>1 DEF InRange, Free

\* What the handles say when none of their requests is under way.
LEMMA NotUnderWay ==
    ASSUME IInv, Data, irq = FALSE
    PROVE  /\ flash = base
           /\ \A n \in 1 .. Len(handles) : Asked(buf[Index(n)], accepted[n])
           /\ handles = <<>> <=> accepted = <<>>
           /\ accepted \in Seq(Order) /\ Len(accepted) = Len(handles)
           /\ handles # <<>> => 1 \in 1 .. Len(handles) /\ accepted[1] \in Order
                                /\ Head(accepted) = accepted[1]
<1>1. /\ accepted \in Seq(Order) /\ Len(accepted) = Len(handles)
      /\ handles \in Seq([token : 0 .. TokenMax - 1, index : Buffers])
  BY DEF Data, DataOK, IInv, ShapeOK
<1>2. handles = <<>> <=> accepted = <<>>
  BY <1>1, SeqEnds
<1>3. handles # <<>> => 1 \in 1 .. Len(handles) /\ accepted[1] \in Order
                        /\ Head(accepted) = accepted[1]
  BY <1>1, <1>2, SeqEnds
<1> QED BY <1>1, <1>2, <1>3 DEF Data

LEMMA ReleaseData ==
    ASSUME IInv, Data, Tasks_Release
    PROVE  Data' /\ (Contract!Work \/ UNCHANGED <<accepted, flash, base>>)
<1>1. /\ events # <<>> /\ Listed(Head(events)) /\ writeEraseQ' = head.next
      /\ UNCHANGED <<accepted, base, handles>>
      /\ StartNext([buf EXCEPT ![writeEraseQ] = Free], head.next)
  BY DEF Tasks_Release, EventEnds, historyVars
<1>2. HeadDone
  <2>1. Head(events) = events[1] /\ 1 \in 1 .. Len(events)
    BY <1>1, SeqEnds DEF IInv, ShapeOK
  <2> QED BY <1>1, <2>1 DEF IInv, EventsValid
<1>3. PICK w \in Buffers : w = writeEraseQ
  BY <1>2 DEF HeadDone, IInv, ShapeOK
<1>4. PICK x \in Buffers \cup {None} : x = head.next
  BY <1>3 DEF IInv, ShapeOK, Shape, head
<1>5. /\ FirstPending = x /\ buf[w].status = "COMPLETED" /\ irq = FALSE
      /\ buf \in [Buffers -> Shape]
  BY <1>2, <1>3, <1>4 DEF FirstPending, HeadDone, head, IInv, FlagRaised, ShapeOK
<1>6. PICK bufs : bufs = [buf EXCEPT ![w] = Free]
  OBVIOUS
<1>7. /\ bufs \in [Buffers -> Shape] /\ bufs[w] = Free
      /\ \A m \in Buffers : m # w => bufs[m] = buf[m]
  BY <1>5, <1>6, FreeShape
<1>8. \A m \in Buffers : InRange(bufs[m])
  <2>1. InRange(Free)
    <3>1. 0 \in 0 .. TokenMax - 1
      BY NvmAssumption
    <3> QED BY <3>1, FreeInRange
  <2> QED BY <1>7, <2>1 DEF Data, DataOK
<1>9. StartNext(bufs, x) /\ writeEraseQ' = x
  BY <1>1, <1>3, <1>4, <1>6
<1>10. /\ flash = base
       /\ handles = <<>> <=> accepted = <<>>
       /\ \A n \in 1 .. Len(handles) : Asked(buf[Index(n)], accepted[n])
       /\ accepted \in Seq(Order) /\ Len(accepted) = Len(handles)
       /\ handles # <<>> => 1 \in 1 .. Len(handles) /\ accepted[1] \in Order
                            /\ Head(accepted) = accepted[1]
  BY <1>5, NotUnderWay
<1>11. \A n \in 1 .. Len(handles) : Index(n) \in Buffers /\ Index(n) # w
  BY <1>5, IndexType DEF IInv, HandlesValid
<1>12. /\ flash \in [Row -> Content] /\ base \in [Row -> Content]
       /\ ew \in [step : Steps, nRows : 0 .. Rows, appData : 0 .. Rows, start : 0 .. Rows]
       /\ eraseBuffer \in [InPage -> Content]
  BY DEF Data, DataOK
<1>13. CASE x = None
  <2>1. handles = <<>>
    BY <1>5, <1>10, <1>11, <1>13, NoneOutside DEF IInv, ListIsHandles
  <2>2. /\ buf' = bufs /\ ew' = NoEraseWrite /\ eraseBuffer' = BlankPage
        /\ UNCHANGED <<irq, flash>>
    BY <1>9, <1>13 DEF StartNext
  <2>3. /\ ew' \in [step : Steps, nRows : 0 .. Rows, appData : 0 .. Rows, start : 0 .. Rows]
        /\ eraseBuffer' \in [InPage -> Content]
    <3>1. 0 \in 0 .. Rows /\ Erased \in Content
      BY Media, ContentType
    <3> QED BY <2>2, <3>1 DEF NoEraseWrite, BlankPage, Steps
  <2>4. DataOK'
    BY <1>1, <1>8, <1>10, <1>12, <2>2, <2>3 DEF DataOK, InRange
  <2>5. \A n \in 1 .. Len(handles') : FALSE
    BY <1>1, <2>1
  <2>6. ~irq' /\ flash' = base'
    BY <1>1, <1>5, <1>10, <2>2
  <2> QED BY <1>1, <2>2, <2>4, <2>5, <2>6 DEF Data
<1>14. CASE x # None
  <2>1. handles # <<>> /\ Index(1) = x /\ x \in Buffers /\ x # w
    BY <1>5, <1>10, <1>11, <1>14 DEF IInv, ListIsHandles
  <2>2. PICK q \in Order : q = accepted[1]
    BY <1>10, <2>1
  <2>3. Asked(bufs[x], q) /\ Start(bufs, x)
    BY <1>7, <1>9, <1>10, <1>14, <2>1, <2>2 DEF StartNext
  <2>4. PICK r : Started(bufs, x, r, q)
    BY <1>1, <1>7, <1>8, <1>10, <1>12, <2>1, <2>3, StartData
  <2>5. /\ buf' = [bufs EXCEPT ![x] = r] /\ InRange(r) /\ irq' = TRUE
        /\ ew' \in [step : Steps, nRows : 0 .. Rows, appData : 0 .. Rows, start : 0 .. Rows]
        /\ eraseBuffer' \in [InPage -> Content] /\ flash' \in [Row -> Content]
        /\ Working(r, q)' /\ Contract!Disturbed(q)
    BY <2>4 DEF Started
  <2>6. buf'[x] = r /\ \A m \in Buffers : m # x => buf'[m] = bufs[m]
    BY <1>7, <2>1, <2>5
  <2>7. DataOK'
    <3>1. \A m \in Buffers : InRange(buf'[m])
      BY <1>8, <2>5, <2>6
    <3> QED BY <1>1, <1>10, <1>12, <2>5, <3>1 DEF DataOK, InRange
  <2>8. ASSUME NEW n \in 1 .. Len(handles'), n # 1
        PROVE  Asked(buf'[handles'[n].index], accepted'[n])
    <3>1. Index(n) \in Buffers /\ Index(n) # w /\ Index(n) # x
      BY <1>1, <1>10, <1>11, <2>1, <2>8 DEF IInv, HandlesDiffer
    <3>2. Asked(buf[Index(n)], accepted[n])
      BY <1>1, <1>10
    <3> QED BY <1>1, <1>7, <2>6, <3>1, <3>2 DEF Index
  <2>9. Working(head, accepted[1])'
    <3>1. head' = r /\ accepted'[1] = q
      BY <1>1, <1>9, <2>2, <2>6 DEF head
    <3> QED BY <2>5, <3>1 DEF Working, Writing, Erasing, PageErased, PageWriting, MergedUpTo
  <2>10. Data'
    BY <2>5, <2>7, <2>8, <2>9 DEF Data, Index, Asked
  <2>11. Contract!Work
    BY <1>1, <1>10, <2>1, <2>2, <2>5 DEF Contract!Work
  <2> QED BY <2>10, <2>11
<1> QED BY <1>13, <1>14

\* The request as its handle's object will say it.
OrderOf(q, flag, block, n, size) ==
    /\ size = IF flag = "ERASE" THEN RowsPerPage ELSE 1
    /\ (block + n) * size <= Rows
    /\ q = [kind |-> flag, start |-> block * size, n |-> n * size]

LEMMA OrderMade ==
    ASSUME NEW flag \in {"WRITE", "ERASE", "ERASE_WRITE"},
           NEW block \in Nat, NEW n \in Nat \ {0}, NEW size \in Nat,
           NEW q, OrderOf(q, flag, block, n, size)
    PROVE  /\ q \in Order /\ Contract!Target(q) \subseteq Contract!Row
           /\ q.start \in Row /\ q.n \in 1 .. Rows /\ n \in 0 .. Rows
           /\ size \in {1, RowsPerPage}
           /\ flag = "WRITE" => n = q.n
           /\ flag = "ERASE" => n * RowsPerPage = q.n
<1> USE DEF OrderOf
<1>0. PICK s, m : s = block * size /\ m = n * size
  OBVIOUS
<1>1. /\ Rows \in Nat /\ RowsPerPage \in Nat /\ RowsPerPage > 0 /\ size > 0
  BY Media
<1>2. \A a, c, d \in Nat : a * d \in Nat /\ c * d \in Nat /\ (a + c) * d = a * d + c * d
  OBVIOUS
<1>3. s \in Nat /\ m \in Nat /\ q = [kind |-> flag, start |-> s, n |-> m]
  BY <1>0, <1>2
<1>4. (block + n) * size = s + m
  BY <1>0, <1>2
<1>5. s + m <= Rows
  BY <1>4
<1>6. n <= m /\ m > 0
  <2>1. \A d, c \in Nat : d > 0 => c <= c * d
    <3>1. \A d, c \in Nat : d > 0 => 1 * c <= d * c
      <4> SUFFICES ASSUME NEW d \in Nat, NEW c \in Nat, d > 0 PROVE 1 * c <= d * c
        OBVIOUS
      <4>1. CASE c > 0
        BY <4>1, Multiples
      <4>2. CASE c = 0
        BY <4>2
      <4> QED BY <4>1, <4>2
    <3> QED BY <3>1
  <2>2. n <= m
    BY <2>1, <1>0, <1>1
  <2>3. m > 0
    BY <2>2, <1>3
  <2> QED BY <2>2, <2>3
<1>7. flag = "ERASE" => OnPages(s) /\ OnPages(m)
  BY <1>0, Multiple
<1>8. s \in Row /\ m \in 1 .. Rows /\ n \in 0 .. Rows
  BY <1>1, <1>3, <1>5, <1>6 DEF Row, Contract!Row
<1>9. q \in Order
  BY <1>3, <1>5, <1>7, <1>8 DEF Order
<1>10. flag = "WRITE" => n = m
  BY <1>0
<1>11. Contract!Target(q) \subseteq Contract!Row
  BY <1>1, <1>3, <1>5 DEF Contract!Target, Contract!Row
<1>12. size \in {1, RowsPerPage} /\ (flag = "ERASE" => n * RowsPerPage = m)
  BY <1>0
<1> QED BY <1>3, <1>8, <1>9, <1>10, <1>11, <1>12

LEMMA RequestData ==
    ASSUME IInv, Data,
           NEW flag \in {"WRITE", "ERASE", "ERASE_WRITE"},
           NEW block \in Nat, NEW n \in Nat \ {0}, NEW size \in Nat,
           size = IF flag = "ERASE" THEN RowsPerPage ELSE 1,
           block + n < Word, Request(flag, block, n, size)
    PROVE  Data' /\ Contract!Accept
<1>1. (block + n) * size <= Rows
  <2>1. (block + n) % Word = block + n
    BY NvmAssumption
  <2> QED BY <2>1 DEF Request
<1>2. PICK s : s = block * size
  OBVIOUS
<1>3. PICK z : z = n * size
  OBVIOUS
<1>4. PICK q : q = [kind |-> flag, start |-> s, n |-> z]
  OBVIOUS
<1>5. /\ q \in Order /\ Contract!Target(q) \subseteq Contract!Row
      /\ s \in Row /\ z \in 1 .. Rows /\ n \in 0 .. Rows
      /\ size \in {1, RowsPerPage}
      /\ flag = "WRITE" => n = z
      /\ flag = "ERASE" => n * RowsPerPage = z
  <2>1. OrderOf(q, flag, block, n, size)
    BY <1>1, <1>2, <1>3, <1>4 DEF OrderOf
  <2>2. /\ q \in Order /\ Contract!Target(q) \subseteq Contract!Row
        /\ q.start \in Row /\ q.n \in 1 .. Rows /\ n \in 0 .. Rows
        /\ size \in {1, RowsPerPage}
        /\ flag = "WRITE" => n = q.n
        /\ flag = "ERASE" => n * RowsPerPage = q.n
    BY <2>1, OrderMade
  <2> QED BY <2>2, <1>4
<1>6. PICK obj : obj = [inUse |-> TRUE, flag |-> flag, status |-> "QUEUED",
                        token |-> token, next |-> None,
                        pending |-> IF flag = "ERASE_WRITE" THEN 0 ELSE n,
                        size |-> z,
                        blockSize |-> IF flag = "ERASE_WRITE" THEN 0 ELSE size,
                        flashMem |-> s, appData |-> 0]
  OBVIOUS
<1>7. PICK k \in Buffers : FirstFree(k) /\ Enqueue(k, obj) /\ Accepted(q, k)
  BY <1>4, <1>6, <1>2, <1>3 DEF Request
<1>8. PICK st \in {"COMPLETED", "QUEUED", "IN_PROGRESS"} : st = "IN_PROGRESS"
  OBVIOUS
<1>9. PICK started : started = [obj EXCEPT !.status = st]
  OBVIOUS
<1>10. /\ obj \in Shape /\ InRange(obj) /\ Asked(obj, q)
      /\ obj.flag = flag
  <2>1. token \in 0 .. TokenMax - 1 /\ None \in Buffers \cup {None} /\ flag \in Flags
    BY DEF IInv, ShapeOK, Flags
  <2>2. /\ s \in Int /\ z \in Int /\ 0 \in 0 .. Rows /\ z \in 0 .. Rows
        /\ size \in Int /\ n \in Int
    BY <1>5, Media DEF Row, Contract!Row
  <2>3. obj \in Shape
    BY <2>1, <2>2, <1>6 DEF Shape
  <2>4. InRange(obj)
    BY <2>2, <1>5, <1>6 DEF InRange
  <2>5. Asked(obj, q)
    <3>1. /\ q.kind = flag /\ q.start = s /\ q.n = z
      BY <1>4
    <3>2. /\ obj.flag = flag /\ obj.size = z /\ obj.flashMem = s
          /\ obj.appData = 0 /\ (flag # "ERASE_WRITE" => obj.pending = n)
      BY <1>6
    <3> QED BY <3>1, <3>2, <1>5 DEF Asked
  <2> QED BY <2>3, <2>4, <2>5, <1>6
<1>11. started \in Shape /\ InRange(started) /\ Asked(started, q)
  <2>1. /\ started \in Shape /\ started.flag = obj.flag /\ started.pending = obj.pending
        /\ started.size = obj.size /\ started.blockSize = obj.blockSize
        /\ started.flashMem = obj.flashMem /\ started.appData = obj.appData
    BY <1>9, <1>10 DEF Shape
  <2> QED BY <2>1, <1>10 DEF InRange, Asked
<1>12. /\ accepted' = Append(accepted, q)
       /\ handles' = Append(handles, [token |-> token, index |-> k])
       /\ base' = IF accepted = <<>> THEN flash ELSE base
  BY <1>7 DEF Accepted
<1>13. PICK N \in Nat : N = Len(handles)
  BY DEF IInv, ShapeOK
<1>14. /\ Len(handles') = N + 1 /\ \A m \in 1 .. N : handles'[m] = handles[m]
       /\ handles'[N + 1] = [token |-> token, index |-> k]
  BY <1>12, <1>13, TakenHandles DEF IInv
<1>15. /\ accepted \in Seq(Order) /\ Len(accepted) = N
       /\ accepted' \in Seq(Order) /\ Len(accepted') = N + 1
       /\ \A m \in 1 .. N : accepted'[m] = accepted[m]
       /\ accepted'[N + 1] = q
       /\ accepted = <<>> <=> N = 0
  <2>1. accepted \in Seq(Order) /\ Len(accepted) = N
    BY <1>13 DEF Data, DataOK
  <2> QED BY <2>1, <1>5, <1>12
<1>16. /\ flash \in [Row -> Content] /\ base \in [Row -> Content]
       /\ ew \in [step : Steps, nRows : 0 .. Rows, appData : 0 .. Rows, start : 0 .. Rows]
       /\ eraseBuffer \in [InPage -> Content]
       /\ \A m \in Buffers : InRange(buf[m])
  BY DEF Data, DataOK
<1>17. buf \in [Buffers -> Shape] /\ ~buf[k].inUse
  BY <1>7 DEF IInv, ShapeOK, FirstFree
<1>18. \A m \in 1 .. N : Index(m) \in Buffers /\ buf[Index(m)].inUse /\ Index(m) # k
  <2>1. \A m \in 1 .. N : Index(m) \in Buffers /\ buf[Index(m)].inUse
    BY <1>13, IndexType DEF IInv, HandlesValid, Listed
  <2> QED BY <2>1, <1>17
<1>19. /\ q \in [kind : {"WRITE", "ERASE", "ERASE_WRITE"}, start : Contract!Row, n : 1 .. Rows]
  BY <1>5 DEF Order, Row
<1>20. CASE writeEraseQ = None
  <2>1. PICK bufs : bufs = [buf EXCEPT ![k] = started]
    OBVIOUS
  <2>2. bufs \in [Buffers -> Shape] /\ bufs[k] = started
        /\ \A m \in Buffers : m # k => bufs[m] = buf[m]
    BY <2>1, <1>11, <1>17
  <2>3. writeEraseQ' = k /\ Start(bufs, k)
    BY <2>1, <1>7, <1>8, <1>9, <1>20 DEF Enqueue
  <2>4. irq = FALSE /\ N = 0
    <3>1. irq = FALSE /\ ~HeadDone
      BY <1>20 DEF IInv, ShapeOK, FlagRaised, HeadDone
    <3>2. handles = <<>>
      <4>1. handles # <<>> => Index(1) = None /\ 1 \in 1 .. N
        BY <3>1, <1>13, <1>20 DEF IInv, ShapeOK, ListIsHandles, FirstPending
      <4> QED BY <4>1, <1>18, NoneOutside
    <3> QED BY <3>1, <3>2, <1>13
  <2>5. accepted = <<>> /\ base = flash /\ base' = base
    BY <2>4, <1>12, <1>15, NotUnderWay
  <2>6. PICK r : Started(bufs, k, r, q)
    BY <2>2, <2>3, <2>5, <1>5, <1>11, <1>16, StartData
  <2>7. /\ buf' = [bufs EXCEPT ![k] = r] /\ InRange(r) /\ irq' = TRUE
        /\ ew' \in [step : Steps, nRows : 0 .. Rows, appData : 0 .. Rows, start : 0 .. Rows]
        /\ eraseBuffer' \in [InPage -> Content] /\ flash' \in [Row -> Content]
        /\ Working(r, q)' /\ Contract!Disturbed(q)
    BY <2>6 DEF Started
  <2>8. buf'[k] = r /\ \A m \in Buffers : m # k => buf'[m] = buf[m]
    BY <2>2, <2>7
  <2>9. DataOK'
    <3>1. \A m \in Buffers : InRange(buf'[m])
      BY <1>16, <2>7, <2>8
    <3> QED BY <1>14, <1>15, <1>16, <2>5, <2>7, <3>1 DEF DataOK, InRange
  <2>10. \A m \in 1 .. Len(handles') : m = 1
    BY <2>4, <1>14
  <2>11. Working(head, accepted[1])'
    <3>1. head' = r /\ accepted'[1] = q
      BY <1>15, <2>3, <2>4, <2>8 DEF head
    <3> QED BY <2>7, <3>1 DEF Working, Writing, Erasing, PageErased, PageWriting, MergedUpTo
  <2>12. Data'
    BY <2>7, <2>9, <2>10, <2>11 DEF Data
  <2>13. Contract!Accept
    BY <1>5, <1>12, <1>19, <2>5, <2>7 DEF Contract!Accept
  <2> QED BY <2>12, <2>13
<1>21. CASE writeEraseQ # None
  <2>1. PICK l \in Buffers : Last(l) /\ buf' = [buf EXCEPT ![k] = obj, ![l].next = k]
    BY <1>7, <1>21 DEF Enqueue
  <2>2. UNCHANGED <<writeEraseQ, ew, eraseBuffer, irq, flash>>
    BY <1>7, <1>21 DEF Enqueue
  <2>3. l # k
    BY <2>1, <1>17 DEF Last, Listed
  <2>4. /\ buf'[k] = obj /\ \A m \in Buffers : m # k => SameNumbers(buf'[m], buf[m])
                                                     /\ buf'[m].blockSize = buf[m].blockSize
    <3>1. PICK b : b = [buf[l] EXCEPT !.next = k]
      OBVIOUS
    <3>2. buf' = [buf EXCEPT ![k] = obj, ![l] = b]
      BY <2>1, <2>3, <3>1, <1>17
    <3>3. SameNumbers(b, buf[l]) /\ b.blockSize = buf[l].blockSize
      BY <3>1, <1>17 DEF SameNumbers, Shape
    <3>4. buf'[k] = obj /\ \A m \in Buffers : m # k => buf'[m] = IF m = l THEN b ELSE buf[m]
      BY <2>3, <3>2, <1>17
    <3> QED BY <3>3, <3>4 DEF SameNumbers
  <2>5. DataOK'
    <3>1. \A m \in Buffers : InRange(buf'[m])
      BY <1>10, <1>16, <2>4 DEF InRange, SameNumbers
    <3>2. base' \in [Row -> Content]
      BY <1>12, <1>16
    <3> QED BY <1>14, <1>15, <1>16, <2>2, <3>1, <3>2 DEF DataOK, InRange
  <2>6. ASSUME NEW m \in 1 .. Len(handles'), m # 1 \/ ~irq
        PROVE  Asked(buf'[handles'[m].index], accepted'[m])
    <3>1. CASE m \in 1 .. N
      <4>1. Asked(buf[Index(m)], accepted[m])
        BY <2>6, <3>1, <1>13 DEF Data
      <4>2. SameNumbers(buf'[Index(m)], buf[Index(m)]) /\ handles'[m].index = Index(m)
        BY <3>1, <2>4, <1>14, <1>18 DEF Index
      <4>3. Asked(buf'[Index(m)], accepted[m])
        BY <4>1, <4>2 DEF Asked, SameNumbers
      <4> QED BY <3>1, <4>2, <4>3, <1>15
    <3>2. CASE m = N + 1
      BY <3>2, <1>10, <1>14, <1>15, <2>4
    <3> QED BY <3>1, <3>2, <1>14
  <2>7. ASSUME irq PROVE Working(head, accepted[1])' /\ base' = base
    <3>1. irq = TRUE
      BY <2>7 DEF IInv, ShapeOK
    <3>2. PICK p \in Order :
             /\ p = accepted[1] /\ accepted # <<>> /\ Working(head, p)
             /\ writeEraseQ \in Buffers /\ 1 \in 1 .. Len(handles) /\ Index(1) = writeEraseQ
      BY <3>1, UnderWay
    <3>3. PICK b : b = buf'[writeEraseQ]
      OBVIOUS
    <3>4. SameNumbers(b, head)
      BY <2>4, <3>2, <3>3, <1>13, <1>18 DEF head
    <3>5. Working(b, p)
      BY <3>2, <3>4 DEF SameNumbers, Working, Writing, Erasing, PageErased, PageWriting
    <3>6. base' = base
      BY <3>2, <1>12
    <3>7. Working(b, p)'
      BY <2>2, <3>5, <3>6, WorkingKept
    <3>8. head' = b /\ accepted'[1] = p
      BY <2>2, <3>2, <3>3, <1>13, <1>15 DEF head
    <3> QED BY <3>6, <3>7, <3>8 DEF Working, Writing, Erasing, PageErased, PageWriting, MergedUpTo
  <2>8. ASSUME ~irq PROVE flash' = base'
    <3>1. flash = base
      BY <2>8 DEF Data
    <3> QED BY <3>1, <2>2, <1>12
  <2>9. Data'
    <3>1. irq' = irq
      BY <2>2
    <3> QED BY <2>5, <2>6, <2>7, <2>8, <3>1 DEF Data, Index, Asked
  <2>10. Contract!Accept
    <3>1. Contract!Disturbed(q)
      BY <2>2 DEF Contract!Disturbed
    <3> QED BY <1>5, <1>12, <1>19, <2>2, <3>1 DEF Contract!Accept
  <2> QED BY <2>9, <2>10
<1> QED BY <1>20, <1>21

LEMMA ReadData == ASSUME IInv, Data, DRV_NVM_Read \/ Read_Release PROVE Data'
<1>1. UNCHANGED <<writeEraseQ, ew, eraseBuffer, irq, flash, accepted, base, handles>>
  BY DEF DRV_NVM_Read, Read_Release, historyVars
<1>2. \E k \in Buffers : \E obj : ~Listed(k) /\ InRange(obj) /\ buf' = [buf EXCEPT ![k] = obj]
  <2>1. CASE DRV_NVM_Read
    <3>1. PICK k \in Buffers :
            /\ FirstFree(k)
            /\ buf' = [buf EXCEPT ![k] = [Free EXCEPT !.inUse = TRUE, !.token = token]]
      BY <2>1 DEF DRV_NVM_Read
    <3>2. InRange([Free EXCEPT !.inUse = TRUE, !.token = token])
      <4>1. token \in 0 .. TokenMax - 1 /\ TRUE \in BOOLEAN
        BY DEF IInv, ShapeOK
      <4> QED BY <4>1, FreeInRange
    <3> QED BY <3>1, <3>2 DEF FirstFree, Listed
  <2>2. CASE Read_Release
    <3>1. /\ events # <<>> /\ ~Listed(Head(events))
          /\ buf' = [buf EXCEPT ![Head(events)] = Free]
      BY <2>2 DEF Read_Release, EventEnds
    <3>2. Head(events) \in Buffers
      BY <3>1, SeqEnds DEF IInv, ShapeOK
    <3>3. InRange(Free)
      <4>1. token \in 0 .. TokenMax - 1 /\ TRUE \in BOOLEAN
        BY DEF IInv, ShapeOK
      <4> QED BY <4>1, FreeInRange
    <3> QED BY <3>1, <3>2, <3>3
  <2> QED BY <2>1, <2>2
<1>3. PICK k \in Buffers : \E obj : ~Listed(k) /\ InRange(obj) /\ buf' = [buf EXCEPT ![k] = obj]
  BY <1>2
<1>4. PICK obj : ~Listed(k) /\ InRange(obj) /\ buf' = [buf EXCEPT ![k] = obj]
  BY <1>3
<1>5. buf'[k] = obj /\ \A m \in Buffers : m # k => buf'[m] = buf[m]
  BY <1>4 DEF IInv, ShapeOK
<1>6. \A m \in Buffers : InRange(buf'[m])
  BY <1>4, <1>5 DEF Data, DataOK
<1>7. \A m \in Buffers : Listed(m) => SameNumbers(buf'[m], buf[m])
  BY <1>4, <1>5 DEF SameNumbers
<1> QED BY <1>1, <1>6, <1>7, QuietData

LEMMA SameData ==
    ASSUME IInv, Data, UNCHANGED workVars, UNCHANGED historyVars
    PROVE  Data'
<1>1. UNCHANGED <<writeEraseQ, ew, eraseBuffer, irq, flash, accepted, base, handles, buf>>
  BY DEF workVars, historyVars
<1>2. \A m \in Buffers : InRange(buf'[m]) /\ SameNumbers(buf'[m], buf[m])
  BY <1>1 DEF Data, DataOK, SameNumbers
<1> QED BY <1>1, <1>2, QuietData

LEMMA InitData == Init => Data
<1> SUFFICES ASSUME Init PROVE Data
  OBVIOUS
<1>1. /\ buf = [k \in Buffers |-> Free] /\ ew = NoEraseWrite /\ eraseBuffer = BlankPage
      /\ irq = FALSE /\ flash = [r \in Row |-> Erased] /\ base = flash
      /\ accepted = <<>> /\ handles = <<>>
  BY DEF Init
<1>2. \A k \in Buffers : InRange(buf[k])
  <2>1. InRange(Free)
    <3>1. 0 \in 0 .. TokenMax - 1 /\ TRUE \in BOOLEAN
      BY NvmAssumption
    <3> QED BY <3>1, FreeInRange
  <2> QED BY <1>1, <2>1
<1>3. /\ ew \in [step : Steps, nRows : 0 .. Rows, appData : 0 .. Rows, start : 0 .. Rows]
      /\ eraseBuffer \in [InPage -> Content]
      /\ flash \in [Row -> Content] /\ base \in [Row -> Content]
  <2>1. 0 \in 0 .. Rows /\ Erased \in Content
    BY Media, ContentType
  <2> QED BY <1>1, <2>1 DEF NoEraseWrite, BlankPage, Steps
<1>4. /\ accepted \in Seq(Order) /\ Len(accepted) = Len(handles)
      /\ \A n \in 1 .. Len(handles) : FALSE
  BY <1>1
<1> QED BY <1>1, <1>2, <1>3, <1>4 DEF Data, DataOK

\* Every step keeps the data and is a step of the contract, or is none of its
\* business.
LEMMA StepData ==
    ASSUME IInv, Data, [Next]_vars
    PROVE  Data' /\ (Contract!Next \/ UNCHANGED <<accepted, flash, base>>)
<1>1. CASE DRV_NVM_Write \/ DRV_NVM_Erase \/ DRV_NVM_EraseWrite
  <2>1. PICK flag \in {"WRITE", "ERASE", "ERASE_WRITE"}, q \in Requests, size \in Nat :
          /\ size = IF flag = "ERASE" THEN RowsPerPage ELSE 1
          /\ Request(flag, q.block, q.n, size)
    <3>1. 1 \in Nat /\ RowsPerPage \in Nat
      BY Media
    <3>2. CASE DRV_NVM_Write
      BY <3>1, <3>2 DEF DRV_NVM_Write
    <3>3. CASE DRV_NVM_Erase
      BY <3>1, <3>3 DEF DRV_NVM_Erase
    <3>4. CASE DRV_NVM_EraseWrite
      BY <3>1, <3>4 DEF DRV_NVM_EraseWrite
    <3> QED BY <1>1, <3>2, <3>3, <3>4
  <2>2. PICK block \in Nat, n \in Nat \ {0} :
          block = q.block /\ n = q.n /\ block + n < Word
    BY NvmAssumption
  <2>3. Data' /\ Contract!Accept
    BY <2>1, <2>2, RequestData
  <2> QED BY <2>3 DEF Contract!Next
<1>2. CASE DRV_NVM_Read \/ Read_Release
  <2>1. UNCHANGED <<accepted, flash, base>>
    BY <1>2 DEF DRV_NVM_Read, Read_Release, historyVars
  <2> QED BY <1>2, <2>1, ReadData
<1>3. CASE \E set \in BOOLEAN : DRV_NVM_EventHandlerSet(set)
  <2>1. UNCHANGED workVars /\ UNCHANGED historyVars
    BY <1>3 DEF DRV_NVM_EventHandlerSet
  <2>2. UNCHANGED <<accepted, flash, base>>
    BY <2>1 DEF workVars, historyVars
  <2> QED BY <2>1, <2>2, SameData
<1>4. CASE Tasks_Complete
  BY <1>4, CompleteData DEF Contract!Next
<1>5. CASE Tasks_Write \/ Tasks_Erase \/ Tasks_Merge \/ Tasks_PageRow \/ Tasks_NextPage
  <2>1. ContractWork
    BY <1>5, WriteData, EraseData, MergeData, PageRowData, NextPageData
  <2> QED BY <2>1 DEF ContractWork, Contract!Next
<1>6. CASE Tasks_Release
  BY <1>6, ReleaseData DEF Contract!Next
<1>7. CASE UNCHANGED vars
  <2>1. UNCHANGED workVars /\ UNCHANGED historyVars
    BY <1>7 DEF vars
  <2>2. UNCHANGED <<accepted, flash, base>>
    BY <2>1 DEF workVars, historyVars
  <2> QED BY <2>1, <2>2, SameData
<1> QED BY <1>1, <1>2, <1>3, <1>4, <1>5, <1>6, <1>7 DEF Next, DRV_NVM_Tasks, Release

HandlerOK == eventHandler \in BOOLEAN /\ inHandler \in BOOLEAN

LEMMA HandlerType == HandlerOK /\ [Next]_vars => HandlerOK'
<1> SUFFICES ASSUME HandlerOK, [Next]_vars PROVE HandlerOK'
  OBVIOUS
<1> USE DEF HandlerOK
<1>1. CASE DRV_NVM_Write \/ DRV_NVM_Erase \/ DRV_NVM_EraseWrite
  BY <1>1 DEF DRV_NVM_Write, DRV_NVM_Erase, DRV_NVM_EraseWrite, Request, eventVars
<1>2. CASE DRV_NVM_Read \/ Read_Release \/ Tasks_Release \/ Tasks_Complete
  BY <1>2 DEF DRV_NVM_Read, Read_Release, Tasks_Release, Tasks_Complete,
              EventBegins, EventEnds
<1>3. CASE \E set \in BOOLEAN : DRV_NVM_EventHandlerSet(set)
  BY <1>3 DEF DRV_NVM_EventHandlerSet
<1>4. CASE Tasks_Write \/ Tasks_Erase \/ Tasks_Merge \/ Tasks_PageRow \/ Tasks_NextPage
  BY <1>4 DEF Tasks_Write, Tasks_Erase, Tasks_Merge, Tasks_PageRow, Tasks_NextPage, eventVars
<1>5. CASE UNCHANGED vars
  BY <1>5 DEF vars, eventVars
<1> QED BY <1>1, <1>2, <1>3, <1>4, <1>5 DEF Next, DRV_NVM_Tasks, Release

\* What the request under way has done to the flash, and what the objects say
\* of the others, is at all times what the contract needs.
THEOREM DataInvariance == Spec => [](IInv /\ Data)
<1>1. Init => IInv /\ Data
  BY InitIInv, InitData
<1>2. IInv /\ Data /\ [Next]_vars => (IInv /\ Data)'
  BY StepIInv, StepData
<1> QED BY <1>1, <1>2, PTL DEF Spec

\* The rows, counts and sizes the driver computes stay on the media, for every
\* media and every page size, and the flash interrupt flag is up exactly while
\* the object at the head is being worked on.
THEOREM TypeCorrect == Spec => []TypeOK
<1>1. IInv /\ Data /\ HandlerOK => TypeOK
  <2> SUFFICES ASSUME IInv, Data, HandlerOK PROVE TypeOK
    OBVIOUS
  <2>1. buf \in [Buffers -> Buffer]
    <3>1. ASSUME NEW k \in Buffers PROVE buf[k] \in Buffer
      <4>1. buf[k] \in Shape /\ InRange(buf[k])
        BY DEF IInv, ShapeOK, Data, DataOK
      <4> QED BY <4>1 DEF Shape, InRange, Buffer
    <3>2. buf \in [Buffers -> Shape]
      BY DEF IInv, ShapeOK
    <3> QED BY <3>1, <3>2
  <2>2. irq <=> writeEraseQ # None /\ buf[writeEraseQ].status # "COMPLETED"
    BY DEF IInv, FlagRaised, HeadDone
  <2>3. /\ writeEraseQ \in Buffers \cup {None} /\ token \in 0 .. TokenMax - 1
        /\ irq \in BOOLEAN /\ events \in Seq(Buffers)
    BY DEF IInv, ShapeOK
  <2>4. /\ ew \in [step : Steps, nRows : 0 .. Rows, appData : 0 .. Rows, start : 0 .. Rows]
        /\ eraseBuffer \in [InPage -> Content] /\ flash \in [Row -> Content]
    BY DEF Data, DataOK
  <2> QED BY <2>1, <2>2, <2>3, <2>4 DEF TypeOK, HandlerOK
<1>2. Init => HandlerOK
  BY DEF Init, HandlerOK
<1> QED BY <1>1, <1>2, HandlerType, DataInvariance, PTL DEF Spec

\* The driver implements its contract: a request is, at its end, exactly what
\* it should be on the whole flash, whatever pages it shares with other data,
\* and until then nothing outside its pages moves; requests are done in the
\* order in which they were accepted, those of the event handler too.
THEOREM Refinement == Spec => ImplementsContract
<1>1. Init => Contract!Init
  BY DEF Init, Contract!Init, Row, Erased
<1>2. IInv /\ Data /\ [Next]_vars => [Contract!Next]_(Contract!vars)
  BY StepData DEF Contract!vars
<1> QED BY <1>1, <1>2, DataInvariance, PTL DEF Spec, ImplementsContract, Contract!Spec
=============================================================================

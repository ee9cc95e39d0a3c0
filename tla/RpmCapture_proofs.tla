------------------------- MODULE RpmCapture_proofs -------------------------
(***************************************************************************)
(* Theorems about RpmCapture, for every size of the ring and of the        *)
(* hardware buffer, and any number of edges.                               *)
(***************************************************************************)
EXTENDS RpmCapture, SequenceTheorems, TLAPS

USE DEF DRV_IC0_Start, DRV_IC0_Stop, DRV_IC0_BufferIsEmpty,
        DRV_IC0_Capture32BitDataRead

\* IC3 is off, and its buffer empty, whenever a session can start.
Protocol ==
    /\ ~icOn => fifo = <<>>
    /\ pc = "idle" /\ ~captureStarted => ~icOn
    /\ pc \in {"index", "read", "buttons"} => captureStarted

\* What waits in the buffer of IC3 is newer than what is in the log, in order,
\* and belongs to this session.
FifoInOrder ==
    /\ sessionStart <= edges
    /\ \A n \in 1 .. Len(fifo) : sessionStart < fifo[n] /\ fifo[n] <= edges
    /\ \A m, n \in 1 .. Len(fifo) : m < n => fifo[m] < fifo[n]
    /\ \A m \in 1 .. Len(log) : log[m] <= edges
    /\ \A m \in 1 .. Len(log), n \in 1 .. Len(fifo) : log[m] < fifo[n]

\* How far captureIndex has moved since the service read it, and what the
\* entries it has read so far are.
Since == Len(log) - snap

Reading ==
    pc = "read" =>
        /\ snap <= Len(log)
        /\ Since < S => captureIndex = IF i + Since < S THEN i + Since
                                       ELSE i + Since - S
        /\ \A n \in {1, 2} : n \notin toRead /\ n <= snap /\ Since < S - 1 =>
              entry[n] = log[snap + 1 - n]

IInv == /\ TypeOK
        /\ Protocol
        /\ RingHoldsLatest
        /\ CapturesInOrder
        /\ FifoInOrder
        /\ Reading
-----------------------------------------------------------------------------
\* Storing a capture moves every earlier one a place further back.
LEMMA BackAfterStore ==
    ASSUME NEW s \in Slots, NEW n \in 1 .. S
    PROVE  /\ NextSlot(s) \in Slots
           /\ Back(s, n) \in Slots
           /\ Back(NextSlot(s), 1) = s
           /\ n < S => Back(NextSlot(s), n + 1) = Back(s, n) /\ Back(s, n) # s
<1>1. S \in Nat /\ S >= 2 /\ s \in 0 .. S - 1
  BY CaptureAssumption DEF Slots
<1>2. NextSlot(s) \in Slots
  BY <1>1 DEF NextSlot, Slots
<1>3. Back(s, n) \in Slots
  BY <1>1 DEF Back, Slots
<1>4. Back(NextSlot(s), 1) = s
  BY <1>1 DEF NextSlot, Back
<1>5. n < S => Back(NextSlot(s), n + 1) = Back(s, n) /\ Back(s, n) # s
  BY <1>1 DEF NextSlot, Back
<1> QED BY <1>2, <1>3, <1>4, <1>5

LEMMA InitIInv == Init => IInv
<1> SUFFICES ASSUME Init PROVE IInv
  OBVIOUS
<1> USE CaptureAssumption DEF Init
<1>1. Len(fifo) = 0 /\ Len(log) = 0 /\ fifo \in Seq(Nat) /\ log \in Seq(Nat)
  BY EmptySeq
<1>2. TypeOK
  <2>1. 0 \in Slots /\ 0 \in 0 .. CounterMod - 1 /\ 0 \in 0 .. HistoryMax
    BY DEF Slots
  <2>2. captureBuffer \in [Slots -> Nat] /\ entry \in [{1, 2} -> Nat]
    OBVIOUS
  <2> QED BY <1>1, <2>1, <2>2 DEF TypeOK
<1>3. Protocol /\ Reading
  BY DEF Protocol, Reading
<1>4. RingHoldsLatest /\ CapturesInOrder /\ FifoInOrder
  BY <1>1 DEF RingHoldsLatest, CapturesInOrder, FifoInOrder
<1> QED BY <1>2, <1>3, <1>4 DEF IInv

\* What a capture taken from the hardware buffer is, and what the log is then.
LEMMA StoreFacts ==
    ASSUME IInv, DRV_IC3_Callback_Store
    PROVE  /\ Head(fifo) = fifo[1] /\ fifo[1] \in Nat /\ Len(fifo) \in Nat \ {0}
           /\ fifo' \in Seq(Nat) /\ Len(fifo') = Len(fifo) - 1
           /\ \A n \in 1 .. Len(fifo') : fifo'[n] = fifo[n + 1]
           /\ log' \in Seq(Nat) /\ Len(log) \in Nat /\ Len(log') = Len(log) + 1
           /\ \A n \in 1 .. Len(log) : log'[n] = log[n]
           /\ log'[Len(log) + 1] = fifo[1]
<1>1. /\ fifo \in Seq(Nat) /\ log \in Seq(Nat) /\ fifo # <<>>
      /\ fifo' = Tail(fifo) /\ log' = Append(log, Head(fifo))
  BY DEF IInv, TypeOK, DRV_IC3_Callback_Store
<1>2. Head(fifo) = fifo[1] /\ Head(fifo) \in Nat /\ Len(fifo) \in Nat \ {0}
  BY <1>1, HeadTailProperties, EmptySeq
<1>3. fifo' \in Seq(Nat) /\ Len(fifo') = Len(fifo) - 1
  BY <1>1, HeadTailProperties
<1>4. \A n \in 1 .. Len(fifo') : fifo'[n] = fifo[n + 1]
  BY <1>1, HeadTailProperties
<1>5. Len(log) \in Nat
  BY <1>1, LenProperties
<1>6. /\ log' \in Seq(Nat) /\ Len(log') = Len(log) + 1
      /\ \A n \in 1 .. Len(log) : log'[n] = log[n]
      /\ log'[Len(log) + 1] = fifo[1]
  BY <1>1, <1>2, AppendProperties
<1> QED BY <1>2, <1>3, <1>4, <1>5, <1>6

LEMMA StoreStep == ASSUME IInv, DRV_IC3_Callback_Store PROVE IInv'
<1> USE CaptureAssumption
<1>1. /\ captureIndex \in Slots /\ captureBuffer \in [Slots -> Nat]
      /\ captureIndex' = NextSlot(captureIndex)
      /\ captureBuffer' = [captureBuffer EXCEPT ![captureIndex] = fifo[1]]
  BY StoreFacts DEF IInv, TypeOK, DRV_IC3_Callback_Store, Stored
<1>2. TypeOK'
  <2>1. captureIndex' \in Slots
    <3>1. 1 \in 1 .. S
      OBVIOUS
    <3> QED BY <1>1, <3>1, BackAfterStore
  <2>2. captureBuffer' \in [Slots -> Nat]
    BY <1>1, StoreFacts
  <2>3. Len(fifo') <= FifoDepth
    BY StoreFacts DEF IInv, TypeOK
  <2> QED BY <2>1, <2>2, <2>3, StoreFacts
          DEF IInv, TypeOK, DRV_IC3_Callback_Store, lossVars, readVars
<1>3. Protocol'
  <2>1. icOn
    BY DEF IInv, Protocol, DRV_IC3_Callback_Store
  <2> QED BY <2>1 DEF IInv, Protocol, DRV_IC3_Callback_Store
<1>4. RingHoldsLatest'
  <2> SUFFICES ASSUME NEW n \in 1 .. S, n <= Len(log')
               PROVE  captureBuffer'[Back(captureIndex', n)] =
                      log'[Len(log') + 1 - n]
    BY DEF RingHoldsLatest, Back
  <2>1. CASE n = 1
    <3>1. Back(captureIndex', n) = captureIndex
      BY <1>1, <2>1, BackAfterStore
    <3> QED BY <1>1, <2>1, <3>1, StoreFacts
  <2>2. CASE n # 1
    <3> DEFINE m == n - 1
    <3>1. m \in 1 .. S /\ m < S /\ n = m + 1
      BY <2>2
    <3>2. /\ Back(captureIndex', n) = Back(captureIndex, m)
          /\ Back(captureIndex, m) # captureIndex
          /\ Back(captureIndex, m) \in Slots
      BY <1>1, <3>1, BackAfterStore
    <3>3. captureBuffer'[Back(captureIndex', n)] =
          captureBuffer[Back(captureIndex, m)]
      BY <1>1, <3>2
    <3>4. m <= Len(log) /\ Len(log') + 1 - n = Len(log) + 1 - m
          /\ Len(log) + 1 - m \in 1 .. Len(log)
      <4>1. Len(log) \in Nat /\ Len(log') = Len(log) + 1
        BY StoreFacts
      <4>2. n \in Nat /\ m = n - 1 /\ m \in Nat \ {0} /\ n <= Len(log')
        BY <3>1
      <4> QED BY <4>1, <4>2
    <3>5. captureBuffer[Back(captureIndex, m)] = log[Len(log) + 1 - m]
      BY <3>1, <3>4 DEF IInv, RingHoldsLatest
    <3> QED BY <3>3, <3>4, <3>5, StoreFacts
  <2> QED BY <2>1, <2>2
<1>5. sessionStart' = sessionStart /\ edges' = edges
      /\ sessionStart \in Nat /\ edges \in Nat /\ sessionStart <= edges
  BY DEF IInv, TypeOK, FifoInOrder, DRV_IC3_Callback_Store
<1>6. 1 \in 1 .. Len(fifo)
  BY StoreFacts
<1>7. sessionStart < fifo[1] /\ fifo[1] <= edges
      /\ \A m \in 1 .. Len(log) : log[m] < fifo[1]
  BY <1>6 DEF IInv, FifoInOrder
<1>8. CapturesInOrder'
  <2> DEFINE len == Len(log)
  <2>1. /\ len \in Nat /\ Len(log') = len + 1 /\ log'[len + 1] = fifo[1]
        /\ \A n \in 1 .. len : log'[n] = log[n]
    BY StoreFacts
  <2>2. /\ \A n \in 1 .. len : log[n] > sessionStart
        /\ \A n \in 2 .. len : log[n - 1] < log[n]
    BY DEF IInv, CapturesInOrder
  <2> HIDE DEF len
  <2>3. ASSUME NEW n \in 1 .. len + 1 PROVE log'[n] > sessionStart
    <3>1. CASE n = len + 1
      BY <3>1, <2>1, <1>5, <1>7
    <3>2. CASE n # len + 1
      <4>1. n \in 1 .. len
        BY <3>2, <2>1
      <4> QED BY <4>1, <2>1, <2>2
    <3> QED BY <3>1, <3>2
  <2>4. ASSUME NEW n \in 2 .. len + 1 PROVE log'[n - 1] < log'[n]
    <3>1. n - 1 \in 1 .. len
      BY <2>1
    <3>2. log'[n - 1] = log[n - 1]
      BY <3>1, <2>1
    <3>3. CASE n = len + 1
      BY <3>1, <3>2, <3>3, <2>1, <1>7 DEF len
    <3>4. CASE n # len + 1
      <4>1. n \in 2 .. len /\ n \in 1 .. len
        BY <3>4, <2>1
      <4> QED BY <3>2, <4>1, <2>1, <2>2
    <3> QED BY <3>3, <3>4
  <2> QED BY <2>1, <2>3, <2>4, <1>5 DEF CapturesInOrder
<1>9. FifoInOrder'
  <2>1. \A n \in 1 .. Len(fifo') : n + 1 \in 1 .. Len(fifo) /\ fifo[1] < fifo[n + 1]
    BY <1>6, StoreFacts DEF IInv, FifoInOrder
  <2>2. \A n \in 1 .. Len(fifo') :
            sessionStart < fifo'[n] /\ fifo'[n] <= edges
    BY <2>1, StoreFacts DEF IInv, FifoInOrder
  <2>3. \A m, n \in 1 .. Len(fifo') : m < n => fifo'[m] < fifo'[n]
    BY <2>1, StoreFacts DEF IInv, FifoInOrder
  <2>4. ASSUME NEW m \in 1 .. Len(log')
        PROVE  /\ log'[m] <= edges
               /\ \A n \in 1 .. Len(fifo') : log'[m] < fifo'[n]
    <3>1. Len(log) \in Nat /\ Len(log') = Len(log) + 1
      BY StoreFacts
    <3>2. CASE m = Len(log) + 1
      <4>1. log'[m] = fifo[1]
        BY <3>2, StoreFacts
      <4> QED BY <4>1, <2>1, <1>7, StoreFacts
    <3>3. CASE m # Len(log) + 1
      <4>1. m \in 1 .. Len(log)
        BY <3>1, <3>3
      <4>2. log'[m] = log[m]
        BY <4>1, StoreFacts
      <4>3. log[m] <= edges /\ \A n \in 1 .. Len(fifo) : log[m] < fifo[n]
        BY <4>1 DEF IInv, FifoInOrder
      <4> QED BY <2>1, <4>2, <4>3, StoreFacts
    <3> QED BY <3>2, <3>3
  <2> QED BY <1>5, <2>2, <2>3, <2>4 DEF FifoInOrder
<1>10. Reading'
  <2> SUFFICES ASSUME pc = "read" PROVE Reading'
    BY DEF Reading, DRV_IC3_Callback_Store
  <2>1. /\ pc' = pc /\ i' = i /\ snap' = snap /\ toRead' = toRead
        /\ entry' = entry
    BY DEF DRV_IC3_Callback_Store, readVars
  <2>2. snap \in Nat /\ snap <= Len(log) /\ i \in 0 .. S - 1
    BY DEF IInv, TypeOK, Reading, Slots
  <2>3. Since' = Since + 1 /\ Since \in Nat
    BY <2>1, <2>2, StoreFacts DEF Since
  <2>4. Since' < S => captureIndex' = IF i + Since' < S THEN i + Since'
                                      ELSE i + Since' - S
    <3> SUFFICES ASSUME Since + 1 < S
                 PROVE  captureIndex' = IF i + (Since + 1) < S
                          THEN i + (Since + 1) ELSE i + (Since + 1) - S
      BY <2>3
    <3>1. captureIndex = IF i + Since < S THEN i + Since ELSE i + Since - S
      BY <2>3 DEF IInv, Reading
    <3> QED BY <1>1, <2>2, <2>3, <3>1 DEF NextSlot
  <2>5. ASSUME NEW n \in {1, 2}, n \notin toRead, n <= snap, Since' < S - 1
        PROVE  entry[n] = log'[snap + 1 - n]
    <3>1. entry[n] = log[snap + 1 - n]
      BY <2>3, <2>5 DEF IInv, Reading
    <3>2. snap + 1 - n \in 1 .. Len(log)
      BY <2>2, <2>5, StoreFacts
    <3> QED BY <3>1, <3>2, StoreFacts
  <2> QED BY <2>1, <2>2, <2>4, <2>5, StoreFacts DEF Reading
<1> QED BY <1>2, <1>3, <1>4, <1>8, <1>9, <1>10 DEF IInv

\* An edge is newer than everything captured before it.
LEMMA EdgeStep == ASSUME IInv, Edge PROVE IInv'
<1> USE CaptureAssumption
<1>1. /\ fifo \in Seq(Nat) /\ edges \in Nat /\ edges' = edges + 1
      /\ Len(fifo) \in Nat /\ Len(fifo) <= FifoDepth
  BY LenProperties DEF IInv, TypeOK, Edge
<1>2. CASE fifo' = fifo
  <2>1. TypeOK'
    BY <1>1, <1>2 DEF IInv, TypeOK, Edge, ringVars, readVars, lossVars, histVars
  <2>2. FifoInOrder'
    <3>1. log' = log /\ sessionStart' = sessionStart /\ log \in Seq(Nat)
          /\ sessionStart \in Nat
          /\ \A n \in 1 .. Len(log) : log[n] \in Nat
      BY ElementOfSeq DEF IInv, TypeOK, Edge, histVars
    <3>2. \A n \in 1 .. Len(fifo) : fifo[n] \in Nat
      BY <1>1, ElementOfSeq
    <3> QED BY <1>1, <1>2, <3>1, <3>2 DEF IInv, FifoInOrder
  <2>3. Protocol'
    BY DEF IInv, Protocol, Edge
  <2>4. RingHoldsLatest' /\ CapturesInOrder' /\ Reading'
    BY DEF IInv, RingHoldsLatest, CapturesInOrder, Reading, Since, Back, Edge,
           ringVars, readVars, histVars
  <2> QED BY <2>1, <2>2, <2>3, <2>4 DEF IInv
<1>3. CASE Len(fifo) < FifoDepth /\ fifo' = Append(fifo, edges + 1)
  <2>1. /\ fifo' \in Seq(Nat) /\ Len(fifo') = Len(fifo) + 1
        /\ \A n \in 1 .. Len(fifo) : fifo'[n] = fifo[n]
        /\ fifo'[Len(fifo) + 1] = edges + 1
    BY <1>1, <1>3, AppendProperties
  <2>2. TypeOK'
    BY <1>1, <1>3, <2>1
       DEF IInv, TypeOK, Edge, ringVars, readVars, lossVars, histVars
  <2>3. log' = log /\ sessionStart' = sessionStart
    BY DEF Edge, histVars
  <2>4. CapturesInOrder' /\ RingHoldsLatest' /\ Reading'
    BY DEF IInv, RingHoldsLatest, CapturesInOrder, Reading, Since, Back, Edge,
           ringVars, readVars, histVars
  <2>5. sessionStart \in Nat /\ sessionStart <= edges
    BY DEF IInv, TypeOK, FifoInOrder
  <2>6. FifoInOrder'
    <3> DEFINE len == Len(fifo)
    <3>1. \A n \in 1 .. len + 1 :
              n \in 1 .. len \/ (n = len + 1 /\ fifo'[n] = edges + 1)
      BY <1>1, <2>1
    <3>2. \A n \in 1 .. len : /\ fifo'[n] = fifo[n] /\ fifo[n] \in Nat
                              /\ sessionStart < fifo[n] /\ fifo[n] <= edges
                              /\ \A m \in 1 .. Len(log) : log[m] < fifo[n]
      BY <1>1, <2>1, ElementOfSeq DEF IInv, FifoInOrder
    <3>3. \A m, n \in 1 .. len : m < n => fifo[m] < fifo[n]
      BY DEF IInv, FifoInOrder
    <3>4. \A m \in 1 .. Len(log) : log[m] \in Nat /\ log[m] <= edges
      BY ElementOfSeq DEF IInv, TypeOK, FifoInOrder
    <3> HIDE DEF len
    <3>5. \A n \in 1 .. len + 1 : sessionStart < fifo'[n] /\ fifo'[n] <= edges + 1
      BY <1>1, <2>5, <3>1, <3>2
    <3>6. ASSUME NEW m \in 1 .. len + 1, NEW n \in 1 .. len + 1, m < n
          PROVE  fifo'[m] < fifo'[n]
      <4>1. m \in 1 .. len /\ len \in Nat
        BY <1>1, <3>6 DEF len
      <4> QED BY <1>1, <3>1, <3>2, <3>3, <3>6, <4>1
    <3>7. \A m \in 1 .. Len(log), n \in 1 .. len + 1 : log[m] < fifo'[n]
      BY <1>1, <3>1, <3>2, <3>4
    <3>8. sessionStart <= edges + 1 /\ \A m \in 1 .. Len(log) : log[m] <= edges + 1
      BY <1>1, <2>5, <3>4
    <3> QED BY <1>1, <2>1, <2>3, <3>5, <3>6, <3>7, <3>8 DEF FifoInOrder, len
  <2>7. Protocol'
    BY DEF IInv, Protocol, Edge
  <2> QED BY <2>2, <2>4, <2>6, <2>7 DEF IInv
<1> QED BY <1>2, <1>3 DEF Edge

\* A session starts with an empty log and an empty hardware buffer.
LEMMA StartStep == ASSUME IInv, Visuel_Start PROVE IInv'
<1> USE CaptureAssumption
<1>1. fifo = <<>> /\ fifo' = fifo /\ log' = <<>> /\ log' \in Seq(Nat)
      /\ Len(fifo') = 0 /\ Len(log') = 0
  BY EmptySeq DEF IInv, Protocol, Visuel_Start
<1>2. 0 \in Slots /\ 0 \in 0 .. HistoryMax
  BY DEF Slots
<1>3. TypeOK'
  BY <1>1, <1>2 DEF IInv, TypeOK, Visuel_Start, readVars, lossVars
<1>4. RingHoldsLatest' /\ CapturesInOrder'
  BY <1>1 DEF RingHoldsLatest, CapturesInOrder
<1>5. FifoInOrder'
  <2>1. sessionStart' = edges /\ edges' = edges /\ edges \in Nat
    BY DEF IInv, TypeOK, Visuel_Start
  <2> QED BY <1>1, <2>1 DEF FifoInOrder
<1>6. Protocol' /\ Reading'
  BY DEF Protocol, Reading, Visuel_Start
<1> QED BY <1>3, <1>4, <1>5, <1>6 DEF IInv

LEMMA ReadIndexStep == ASSUME IInv, Visuel_ReadIndex PROVE IInv'
<1> USE CaptureAssumption
<1>1. Len(log) \in Nat /\ log' = log
  BY LenProperties DEF IInv, TypeOK, Visuel_ReadIndex
<1>2. TypeOK'
  <2>1. silent' \in 0 .. HistoryMax
    <3>1. /\ 0 \in 0 .. HistoryMax
          /\ Saturated(silent) \in 0 .. HistoryMax
      BY DEF IInv, TypeOK, Saturated
    <3> QED BY <3>1 DEF Visuel_ReadIndex
  <2> QED BY <1>1, <2>1
          DEF IInv, TypeOK, Visuel_ReadIndex, icVars, ringVars, lossVars
<1>3. RingHoldsLatest' /\ CapturesInOrder' /\ FifoInOrder'
  BY DEF IInv, RingHoldsLatest, CapturesInOrder, FifoInOrder, Back,
         Visuel_ReadIndex, icVars, ringVars
<1>4. Protocol'
  BY DEF IInv, Protocol, Visuel_ReadIndex, icVars
<1>5. Reading'
  <2>1. /\ snap' = Len(log) /\ i' = captureIndex /\ toRead' = {1, 2}
        /\ captureIndex' = captureIndex /\ captureIndex \in 0 .. S - 1
    BY DEF IInv, TypeOK, Slots, Visuel_ReadIndex, ringVars
  <2>2. Since' = 0
    BY <1>1, <2>1 DEF Since
  <2> QED BY <1>1, <2>1, <2>2 DEF Reading
<1> QED BY <1>2, <1>3, <1>4, <1>5 DEF IInv

\* The heart of the matter: the entry read is still where the index pointed.
LEMMA ReadStep ==
    ASSUME IInv, NEW n \in {1, 2}, Visuel_Read(n)
    PROVE  IInv'
<1> USE CaptureAssumption
<1>1. /\ pc = "read" /\ pc' = pc /\ i' = i /\ log' = log /\ snap' = snap
      /\ captureIndex' = captureIndex /\ captureBuffer' = captureBuffer
      /\ toRead' = toRead \ {n}
      /\ entry' = [entry EXCEPT ![n] = captureBuffer[Back(i, n)]]
  BY DEF Visuel_Read, histVars, ringVars
<1>2. /\ Len(log) \in Nat /\ snap \in Nat /\ snap <= Len(log)
      /\ i \in 0 .. S - 1 /\ captureIndex \in 0 .. S - 1
      /\ S \in Nat /\ S >= 2 /\ n \in 1 .. S
  BY <1>1, LenProperties DEF IInv, TypeOK, Reading, Slots
<1>3. TypeOK'
  <2>1. Back(i, n) \in Slots
    BY <1>2, BackAfterStore DEF Slots
  <2>2. captureBuffer[Back(i, n)] \in Nat
    BY <2>1 DEF IInv, TypeOK
  <2>3. entry' \in [{1, 2} -> Nat]
    BY <1>1, <2>2 DEF IInv, TypeOK
  <2> QED BY <1>1, <2>3
          DEF IInv, TypeOK, Visuel_Read, icVars, ringVars, lossVars, histVars
<1>4. RingHoldsLatest' /\ CapturesInOrder' /\ FifoInOrder' /\ Protocol'
  BY DEF IInv, RingHoldsLatest, CapturesInOrder, FifoInOrder, Protocol, Back,
         Visuel_Read, icVars, ringVars, histVars
<1>5. Since' = Since /\ Since \in Nat
  BY <1>1, <1>2 DEF Since
<1>6. ASSUME n <= snap, Since < S - 1
      PROVE  captureBuffer[Back(i, n)] = log[snap + 1 - n]
  <2> DEFINE m == n + Since
  <2>1. m \in 1 .. S /\ m <= Len(log)
        /\ Len(log) + 1 - m = snap + 1 - n
    BY <1>2, <1>5, <1>6 DEF Since
  <2>2. captureIndex = IF i + Since < S THEN i + Since ELSE i + Since - S
    BY <1>1, <1>2, <1>5, <1>6 DEF IInv, Reading
  <2>3. Back(captureIndex, m) = Back(i, n)
    BY <1>2, <1>5, <1>6, <2>2 DEF Back
  <2>4. captureBuffer[Back(captureIndex, m)] = log[Len(log) + 1 - m]
    BY <2>1 DEF IInv, RingHoldsLatest
  <2> QED BY <2>1, <2>3, <2>4
<1>7. Reading'
  <2>1. ASSUME NEW k \in {1, 2}, k \notin toRead \ {n}, k <= snap, Since < S - 1
        PROVE  entry'[k] = log[snap + 1 - k]
    <3>1. CASE k = n
      BY <1>1, <1>6, <2>1, <3>1 DEF IInv, TypeOK
    <3>2. CASE k # n
      BY <1>1, <2>1, <3>2 DEF IInv, TypeOK, Reading
    <3> QED BY <3>1, <3>2
  <2>2. Since < S => captureIndex = IF i + Since < S THEN i + Since
                                    ELSE i + Since - S
    BY <1>1 DEF IInv, Reading
  <2> QED BY <1>1, <1>2, <1>5, <2>1, <2>2 DEF Reading
<1> QED BY <1>3, <1>4, <1>7 DEF IInv

\* No other step changes the ring, the log or what has been read.
LEMMA OtherSteps ==
    ASSUME IInv,
           \/ DRV_IC3_Callback_Nothing \/ IC3_FlagClear
           \/ Visuel_Enter \/ Visuel_Continue \/ Visuel_Compute
           \/ Visuel_Stay \/ Visuel_Deactivate \/ Visuel_Stop
    PROVE  IInv'
<1> USE CaptureAssumption DEF icVars, ringVars, readVars, lossVars, histVars
<1>1. CASE DRV_IC3_Callback_Nothing
  BY <1>1 DEF DRV_IC3_Callback_Nothing, IInv, TypeOK, RingHoldsLatest,
              CapturesInOrder, FifoInOrder, Protocol, Reading, Since, Back
<1>2. CASE IC3_FlagClear
  <2>1. icFlag' \in BOOLEAN
    BY <1>2 DEF IC3_FlagClear
  <2> QED BY <1>2, <2>1
          DEF IC3_FlagClear, IInv, TypeOK, RingHoldsLatest, CapturesInOrder,
              FifoInOrder, Protocol, Reading, Since, Back
<1>3. CASE Visuel_Enter
  BY <1>3 DEF Visuel_Enter, IInv, TypeOK, RingHoldsLatest, CapturesInOrder,
              FifoInOrder, Protocol, Reading, Since, Back
<1>4. CASE Visuel_Continue
  BY <1>4 DEF Visuel_Continue, IInv, TypeOK, RingHoldsLatest, CapturesInOrder,
              FifoInOrder, Protocol, Reading, Since, Back
<1>5. CASE Visuel_Compute
  <2>1. lostCaptureCounter' \in 0 .. CounterMod - 1
    BY <1>5 DEF Visuel_Compute, IInv, TypeOK
  <2>2. rpm' \in {0, 1}
    BY <1>5 DEF Visuel_Compute, IInv, TypeOK
  <2> QED BY <1>5, <2>1, <2>2
          DEF Visuel_Compute, IInv, TypeOK, RingHoldsLatest, CapturesInOrder,
              FifoInOrder, Protocol, Reading, Since, Back
<1>6. CASE Visuel_Stay
  BY <1>6 DEF Visuel_Stay, IInv, TypeOK, RingHoldsLatest, CapturesInOrder,
              FifoInOrder, Protocol, Reading, Since, Back
<1>7. CASE Visuel_Deactivate
  BY <1>7 DEF Visuel_Deactivate, IInv, TypeOK, RingHoldsLatest,
              CapturesInOrder, FifoInOrder, Protocol, Reading, Since, Back
<1>8. CASE Visuel_Stop
  <2>1. fifo' \in Seq(Nat) /\ Len(fifo') = 0 /\ Len(fifo') <= FifoDepth
    BY <1>8, EmptySeq DEF Visuel_Stop
  <2>2. TypeOK'
    <3>1. /\ icOn' = FALSE /\ visuel' = FALSE /\ pc' = "idle"
          /\ UNCHANGED <<icFlag, isr, edges, rpmCaptureActive, ringVars,
                         captureStarted, readVars, lossVars, histVars>>
      BY <1>8 DEF Visuel_Stop
    <3> QED BY <2>1, <3>1 DEF IInv, TypeOK
  <2>3. Protocol' /\ Reading'
    BY <1>8, <2>1 DEF Visuel_Stop, Protocol, Reading
  <2>4. FifoInOrder'
    BY <1>8, <2>1 DEF Visuel_Stop, IInv, FifoInOrder
  <2>5. RingHoldsLatest' /\ CapturesInOrder'
    BY <1>8 DEF Visuel_Stop, IInv, RingHoldsLatest, CapturesInOrder, Back
  <2> QED BY <2>2, <2>3, <2>4, <2>5 DEF IInv
<1> QED BY <1>1, <1>2, <1>3, <1>4, <1>5, <1>6, <1>7, <1>8
-----------------------------------------------------------------------------
LEMMA StepIInv == IInv /\ [Next]_vars => IInv'
<1> SUFFICES ASSUME IInv, [Next]_vars PROVE IInv'
  OBVIOUS
<1>1. CASE UNCHANGED vars
  BY <1>1 DEF vars, icVars, ringVars, readVars, lossVars, histVars,
              IInv, TypeOK, RingHoldsLatest, CapturesInOrder, FifoInOrder,
              Protocol, Reading, Since, Back
<1> QED BY <1>1, EdgeStep, StoreStep, StartStep, ReadIndexStep, ReadStep,
           OtherSteps DEF Next

THEOREM Invariance == Spec => []IInv
<1> QED BY InitIInv, StepIInv, PTL DEF Spec

\* Indices stay inside the ring, whatever the interleaving.
THEOREM TypeCorrect == Spec => []TypeOK
<1>1. IInv => TypeOK
  BY DEF IInv
<1> QED BY <1>1, Invariance, PTL

\* The ring of DRV_IC3_Callback holds the latest captures of the session.
THEOREM RingCorrect == Spec => []RingHoldsLatest
<1>1. IInv => RingHoldsLatest
  BY DEF IInv
<1> QED BY <1>1, Invariance, PTL

\* Captures are stored in order, once, and in their own session.
THEOREM OrderCorrect == Spec => []CapturesInOrder
<1>1. IInv => CapturesInOrder
  BY DEF IInv
<1> QED BY <1>1, Invariance, PTL

\* The unprotected reads of menu.c lines 327 to 330 see the last two captures,
\* with a margin of RPM_CAPTURE_BUFFER_SIZE - 2 interrupts.
THEOREM DeltaCorrect == Spec => []DeltaIsLatestPeriod
<1>1. IInv => DeltaIsLatestPeriod
  <2> SUFFICES ASSUME IInv, pc = "read", toRead = {}, snap >= 2, Since < S - 1
               PROVE  entry[1] = log[snap] /\ entry[2] = log[snap - 1]
    BY DEF DeltaIsLatestPeriod, Since
  <2>1. snap \in Nat
    BY DEF IInv, TypeOK
  <2>2. \A n \in {1, 2} : entry[n] = log[snap + 1 - n]
    BY <2>1 DEF IInv, Reading
  <2>3. entry[1] = log[snap + 1 - 1] /\ entry[2] = log[snap + 1 - 2]
    BY <2>2
  <2>4. snap + 1 - 1 = snap /\ snap + 1 - 2 = snap - 1
    BY <2>1
  <2> QED BY <2>3, <2>4
<1> QED BY <1>1, Invariance, PTL
=============================================================================

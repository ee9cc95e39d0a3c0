-------------------------- MODULE SpiDriver_proofs --------------------------
(***************************************************************************)
(* Theorems about SpiDriver.                                               *)
(***************************************************************************)
EXTENDS SpiDriver, FiniteSetTheorems, SequenceTheorems, TLAPS

----------------------------------------------------------------------------
\* A set of indices that is not empty has a least one.
LEMMA LeastIndex ==
    ASSUME NEW n \in Nat, NEW T, T \subseteq 1 .. n, T # {}
    PROVE  \E x \in T : \A y \in T : x <= y
<1> DEFINE Upto == {1 .. k : k \in T}
<1>1. IsFiniteSet(1 .. n)
  BY FS_Interval
<1>2. FiniteSubsetsOf(1 .. n) = SUBSET (1 .. n)
  BY <1>1, FS_FiniteSubsetsOfFinite
<1>3. IsWellFoundedOn(StrictSubsetOrdering(1 .. n), SUBSET (1 .. n))
  BY <1>2, FS_StrictSubsetOrderingWellFounded
<1>4. \A k \in T : (1 .. k) \subseteq (1 .. n)
  OBVIOUS
<1>5. Upto \subseteq SUBSET (1 .. n) /\ Upto # {}
  BY <1>4, Zenon
<1>6. PICK x \in Upto :
          \A y \in Upto : ~(<<y, x>> \in StrictSubsetOrdering(1 .. n))
  <2> HIDE DEF Upto
  <2> QED BY <1>3, <1>5, WFMin
<1>7. PICK k \in T : x = 1 .. k
  OBVIOUS
<1>8. ASSUME NEW j \in T, j < k PROVE FALSE
  <2>1. (1 .. j) \in Upto
    OBVIOUS
  <2>2. k \in 1 .. k /\ k \notin 1 .. j /\ (1 .. j) \subseteq (1 .. k)
    BY <1>8
  <2>3. (1 .. j) # (1 .. k)
    BY <2>2, Zenon
  <2>4. (1 .. j) \subseteq (1 .. n) /\ (1 .. k) \subseteq (1 .. n)
    BY <1>4
  <2>5. <<1 .. j, 1 .. k>> \in StrictSubsetOrdering(1 .. n)
    BY <2>2, <2>3, <2>4 DEF StrictSubsetOrdering
  <2> QED BY <2>1, <2>5, <1>6, <1>7
<1>9. \A j \in T : ~(j < k)
  BY <1>8
<1> QED BY <1>9
----------------------------------------------------------------------------
\* The elements s are linked from head on by the links `next`.
Links == [Elements -> Elements \cup {NULL}]

Linked(next, head, s) ==
    /\ s \in Seq(Elements)
    /\ Len(s) <= NumElements
    /\ \A i, j \in 1 .. Len(s) : s[i] = s[j] => i = j
    /\ head = IF s = <<>> THEN NULL ELSE s[1]
    /\ \A i \in 1 .. Len(s) :
         next[s[i]] = IF i < Len(s) THEN s[i + 1] ELSE NULL

On(e, s) == \E i \in 1 .. Len(s) : s[i] = e

LEMMA NullIsNone == NULL \notin Elements /\ Elements \subseteq Nat
<1> QED BY DEF NULL, Elements

\* What Chain finds is what is linked.
LEMMA ChainIs ==
    ASSUME NEW m, NEW head, NEW s, Linked(m.pNext, head, s)
    PROVE  Chain(m, head) = s
<1> DEFINE Next1(g, n) == IF n = 1 THEN head
                          ELSE IF g[n - 1] = NULL THEN NULL
                          ELSE m.pNext[g[n - 1]]
           f == [n \in 1 .. NumElements |-> IF n <= Len(s) THEN s[n] ELSE NULL]
           at == CHOOSE g : g = [n \in 1 .. NumElements |-> Next1(g, n)]
<1> USE SpiQueueAssumption
<1>1. /\ s \in Seq(Elements) /\ Len(s) \in Nat /\ Len(s) <= NumElements
      /\ \A i \in 1 .. Len(s) : s[i] \in Elements /\ s[i] # NULL
      /\ s # <<>> => 1 \in 1 .. Len(s)
      /\ head = IF s = <<>> THEN NULL ELSE s[1]
      /\ s = <<>> => Len(s) = 0
  BY NullIsNone DEF Linked
<1>2. \A n \in 1 .. NumElements : f[n] = Next1(f, n)
  <2> SUFFICES ASSUME NEW n \in 1 .. NumElements PROVE f[n] = Next1(f, n)
    OBVIOUS
  <2>1. CASE n = 1
    BY <2>1, <1>1
  <2>2. CASE n # 1
    <3>1. n - 1 \in 1 .. NumElements
      BY <2>2
    <3>2. CASE n - 1 <= Len(s)
      <4>1. n - 1 \in 1 .. Len(s)
        BY <3>1, <3>2
      <4>2. f[n - 1] = s[n - 1] /\ f[n - 1] # NULL
        BY <3>1, <3>2, <4>1, <1>1
      <4>3. m.pNext[s[n - 1]] = IF n - 1 < Len(s) THEN s[n] ELSE NULL
        BY <4>1 DEF Linked
      <4> QED BY <2>2, <4>2, <4>3, <1>1
    <3>3. CASE n - 1 > Len(s)
      BY <2>2, <3>1, <3>3, <1>1
    <3> QED BY <3>2, <3>3, <1>1
  <2> QED BY <2>1, <2>2
<1>3. f = [n \in 1 .. NumElements |-> Next1(f, n)]
  <2> HIDE DEF Next1
  <2> QED BY <1>2
<1>4. at = [n \in 1 .. NumElements |-> Next1(at, n)]
  <2> HIDE DEF Next1, f
  <2> QED BY <1>3
<1>5. DOMAIN at = 1 .. NumElements /\ DOMAIN f = 1 .. NumElements
  <2> HIDE DEF at
  <2> QED BY <1>4
<1>6. \A n \in 1 .. NumElements : at[n] = Next1(at, n)
  <2> HIDE DEF at, Next1
  <2> QED BY <1>4
<1> HIDE DEF at, f
<1>7. at = f
  <2> DEFINE T == {n \in 1 .. NumElements : at[n] # f[n]}
  <2>1. ASSUME T # {} PROVE FALSE
    <3>1. PICK x \in T : \A y \in T : x <= y
      BY <2>1, LeastIndex
    <3>2. x # 1
      BY <1>2, <1>6
    <3>3. x - 1 \in 1 .. NumElements /\ x - 1 \notin T
      BY <3>1, <3>2
    <3>4. at[x - 1] = f[x - 1]
      BY <3>3
    <3> QED BY <3>4, <1>2, <1>6
  <2>2. \A n \in 1 .. NumElements : at[n] = f[n]
    BY <2>1
  <2> QED BY <2>2, <1>4, <1>5 DEF f
<1>8. {i \in 1 .. NumElements : at[i] # NULL} = 1 .. Len(s)
  BY <1>1, <1>7 DEF f
<1>9. \A n \in 1 .. Len(s) : at[n] = s[n]
  BY <1>1, <1>7 DEF f
<1>10. Chain(m, head) = [n \in {i \in 1 .. NumElements : at[i] # NULL} |-> at[n]]
  BY DEF Chain, at
<1>11. s = [n \in 1 .. Len(s) |-> s[n]]
  BY <1>1
<1> QED BY <1>8, <1>9, <1>10, <1>11
----------------------------------------------------------------------------
\* A list is left alone by a change of the links of other elements.
LEMMA LinkedFrame ==
    ASSUME NEW next, NEW next2, NEW head, NEW s, Linked(next, head, s),
           \A e \in Elements : On(e, s) => next2[e] = next[e]
    PROVE  Linked(next2, head, s)
<1>1. \A i \in 1 .. Len(s) : s[i] \in Elements /\ On(s[i], s)
  BY DEF Linked, On
<1> QED BY <1>1 DEF Linked

\* The first element of a list is taken off.
LEMMA LinkedPop ==
    ASSUME NEW next \in Links, NEW head, NEW s, Linked(next, head, s), s # <<>>
    PROVE  /\ head \in Elements /\ head = s[1] /\ On(head, s)
           /\ next[head] \in Elements \cup {NULL}
           /\ next[head] = NULL <=> Tail(s) = <<>>
           /\ Len(Tail(s)) = Len(s) - 1
           /\ Linked([next EXCEPT ![head] = NULL], next[head], Tail(s))
           /\ \A e \in Elements : On(e, Tail(s)) <=> On(e, s) /\ e # head
           /\ Tail(s) # <<>> => Tail(s)[Len(Tail(s))] = s[Len(s)]
<1> DEFINE t == Tail(s)
<1>1. /\ s \in Seq(Elements) /\ Len(s) \in Nat /\ 1 \in 1 .. Len(s)
      /\ Len(s) \in 1 .. Len(s)
      /\ \A i \in 1 .. Len(s) : s[i] \in Elements
  BY DEF Linked
<1>2. /\ t \in Seq(Elements) /\ Len(t) = Len(s) - 1
      /\ \A i \in 1 .. Len(t) : t[i] = s[i + 1] /\ i + 1 \in 1 .. Len(s)
      /\ t = <<>> <=> Len(t) = 0
  <2>1. t \in Seq(Elements) /\ Len(t) = Len(s) - 1
    BY <1>1
  <2>2. \A i \in 1 .. Len(t) : t[i] = s[i + 1] /\ i + 1 \in 1 .. Len(s)
    BY <1>1
  <2>3. t = <<>> <=> Len(t) = 0
    BY <2>1, EmptySeq
  <2> QED BY <2>1, <2>2, <2>3
<1> HIDE DEF t
<1>3. head = s[1] /\ head \in Elements /\ head # NULL
  BY <1>1, NullIsNone DEF Linked
<1>4. next[head] = IF 1 < Len(s) THEN s[2] ELSE NULL
  BY <1>1, <1>3 DEF Linked
<1>5. next[head] = IF t = <<>> THEN NULL ELSE t[1]
  BY <1>1, <1>2, <1>4
<1>6. next[head] = NULL <=> t = <<>>
  BY <1>1, <1>2, <1>5, NullIsNone
<1>7. \A e \in Elements : On(e, t) <=> On(e, s) /\ e # head
  <2> SUFFICES ASSUME NEW e \in Elements PROVE On(e, t) <=> On(e, s) /\ e # head
    OBVIOUS
  <2>1. ASSUME On(e, t) PROVE On(e, s) /\ e # head
    <3>1. PICK i \in 1 .. Len(t) : t[i] = e
      BY <2>1 DEF On
    <3>2. i + 1 \in 1 .. Len(s) /\ s[i + 1] = e /\ i + 1 # 1
      BY <3>1, <1>2
    <3>3. s[i + 1] # s[1]
      BY <3>2, <1>1 DEF Linked
    <3> QED BY <3>2, <3>3, <1>3 DEF On
  <2>2. ASSUME On(e, s), e # head PROVE On(e, t)
    <3>1. PICK i \in 1 .. Len(s) : s[i] = e
      BY <2>2 DEF On
    <3>2. i - 1 \in 1 .. Len(t) /\ t[i - 1] = s[i]
      BY <3>1, <2>2, <1>1, <1>2, <1>3
    <3> QED BY <3>1, <3>2 DEF On
  <2> QED BY <2>1, <2>2
<1>8. Linked([next EXCEPT ![head] = NULL], next[head], t)
  <2> DEFINE n2 == [next EXCEPT ![head] = NULL]
  <2>1. \A i, j \in 1 .. Len(t) : t[i] = t[j] => i = j
    <3> SUFFICES ASSUME NEW i \in 1 .. Len(t), NEW j \in 1 .. Len(t), t[i] = t[j]
                 PROVE  i = j
      OBVIOUS
    <3>1. i + 1 = j + 1
      BY <1>2 DEF Linked
    <3> QED BY <3>1
  <2>2. ASSUME NEW i \in 1 .. Len(t)
        PROVE  n2[t[i]] = IF i < Len(t) THEN t[i + 1] ELSE NULL
    <3>1. t[i] \in Elements /\ t[i] # head
      BY <1>7, <1>2, <1>1 DEF On
    <3>2. n2[t[i]] = next[t[i]]
      BY <3>1 DEF Links
    <3>3. next[s[i + 1]] = IF i + 1 < Len(s) THEN s[i + 1 + 1] ELSE NULL
      BY <1>2 DEF Linked
    <3>4. i < Len(t) => i + 1 \in 1 .. Len(t) /\ t[i + 1] = s[i + 1 + 1]
      BY <1>1, <1>2
    <3>5. t[i] = s[i + 1]
      BY <1>2
    <3>6. i < Len(t) <=> i + 1 < Len(s)
      BY <1>1, <1>2
    <3> QED BY <3>2, <3>3, <3>4, <3>5, <3>6
  <2>3. Len(t) <= NumElements
    BY <1>1, <1>2, SpiQueueAssumption DEF Linked
  <2> HIDE DEF n2
  <2>4. Linked(n2, next[head], t)
    BY <2>1, <2>2, <2>3, <1>2, <1>5 DEF Linked
  <2> QED BY <2>4 DEF n2
<1>9. t # <<>> => t[Len(t)] = s[Len(s)]
  BY <1>1, <1>2
<1>10. On(head, s) /\ next[head] \in Elements \cup {NULL}
  BY <1>1, <1>3 DEF On, Links
<1> QED BY <1>2, <1>3, <1>6, <1>7, <1>8, <1>9, <1>10 DEF t

\* An element is put at the end of a list.
Pushed(next, s, e) == IF s = <<>> THEN next
                      ELSE [next EXCEPT ![s[Len(s)]] = e]

LEMMA LinkedPush ==
    ASSUME NEW next \in Links, NEW head, NEW s, NEW e \in Elements,
           Linked(next, head, s), ~On(e, s), next[e] = NULL,
           Len(s) < NumElements
    PROVE  /\ Pushed(next, s, e) \in Links
           /\ head = NULL <=> s = <<>>
           /\ Linked(Pushed(next, s, e), IF head = NULL THEN e ELSE head,
                     Append(s, e))
           /\ Len(Append(s, e)) = Len(s) + 1
           /\ Append(s, e)[Len(Append(s, e))] = e
           /\ Append(s, e) # <<>>
           /\ \A d \in Elements : On(d, Append(s, e)) <=> On(d, s) \/ d = e
           /\ \A d \in Elements : ~On(d, s) => Pushed(next, s, e)[d] = next[d]
<1> DEFINE n2 == Pushed(next, s, e)
           s2 == Append(s, e)
           h2 == IF head = NULL THEN e ELSE head
<1> USE SpiQueueAssumption
<1>1. /\ s \in Seq(Elements) /\ Len(s) \in Nat
      /\ \A i \in 1 .. Len(s) : s[i] \in Elements
      /\ s = <<>> <=> Len(s) = 0
      /\ s # <<>> => 1 \in 1 .. Len(s) /\ Len(s) \in 1 .. Len(s)
  BY DEF Linked
<1>2. head = NULL <=> s = <<>>
  BY <1>1, NullIsNone DEF Linked
<1>3. /\ s2 \in Seq(Elements) /\ Len(s2) = Len(s) + 1
      /\ \A i \in 1 .. Len(s) : s2[i] = s[i]
      /\ s2[Len(s) + 1] = e
      /\ s2 # <<>>
  BY <1>1
<1> HIDE DEF s2
<1>4. \A d \in Elements : On(d, s2) <=> On(d, s) \/ d = e
  <2> SUFFICES ASSUME NEW d \in Elements PROVE On(d, s2) <=> On(d, s) \/ d = e
    OBVIOUS
  <2>1. On(d, s) => On(d, s2)
    BY <1>1, <1>3 DEF On
  <2>2. On(e, s2)
    BY <1>1, <1>3 DEF On
  <2>3. On(d, s2) => On(d, s) \/ d = e
    BY <1>1, <1>3 DEF On
  <2> QED BY <2>1, <2>2, <2>3
<1>5. s # <<>> => s[Len(s)] \in Elements /\ On(s[Len(s)], s)
  BY <1>1 DEF On
<1>6. n2 \in Links
  BY <1>5 DEF Links, Pushed
<1>7. \A d \in Elements : n2[d] = IF s # <<>> /\ d = s[Len(s)] THEN e ELSE next[d]
  BY <1>5 DEF Links, Pushed
<1> HIDE DEF n2
<1>8. \A d \in Elements : ~On(d, s) => n2[d] = next[d]
  BY <1>5, <1>7
<1>9. h2 = s2[1]
  BY <1>1, <1>2, <1>3 DEF Linked
<1>10. \A i, j \in 1 .. Len(s2) : s2[i] = s2[j] => i = j
  <2> SUFFICES ASSUME NEW i \in 1 .. Len(s2), NEW j \in 1 .. Len(s2),
                      s2[i] = s2[j]
               PROVE  i = j
    OBVIOUS
  <2>1. \A k \in 1 .. Len(s) : s[k] # e
    BY DEF On
  <2>2. i \in 1 .. Len(s) \/ i = Len(s) + 1
    BY <1>1, <1>3
  <2>3. j \in 1 .. Len(s) \/ j = Len(s) + 1
    BY <1>1, <1>3
  <2> QED BY <2>1, <2>2, <2>3, <1>3 DEF Linked
<1>11. ASSUME NEW i \in 1 .. Len(s2)
       PROVE  n2[s2[i]] = IF i < Len(s2) THEN s2[i + 1] ELSE NULL
  <2>1. CASE i = Len(s2)
    BY <2>1, <1>1, <1>3, <1>8
  <2>2. CASE i = Len(s) /\ i # Len(s2)
    BY <2>2, <1>1, <1>3, <1>5, <1>7
  <2>3. CASE i < Len(s)
    <3>1. i \in 1 .. Len(s) /\ i + 1 \in 1 .. Len(s) /\ s # <<>>
      BY <2>3, <1>1, <1>3
    <3>2. s[i] # s[Len(s)]
      BY <2>3, <3>1, <1>1 DEF Linked
    <3>3. n2[s[i]] = next[s[i]]
      BY <3>1, <3>2, <1>1, <1>7
    <3>4. next[s[i]] = s[i + 1]
      BY <2>3, <3>1 DEF Linked
    <3> QED BY <2>3, <3>1, <3>3, <3>4, <1>1, <1>3
  <2> QED BY <2>1, <2>2, <2>3, <1>1, <1>3
<1>12. Linked(n2, h2, s2)
  BY <1>1, <1>3, <1>9, <1>10, <1>11 DEF Linked
<1> QED BY <1>2, <1>3, <1>4, <1>6, <1>8, <1>12 DEF n2, s2
----------------------------------------------------------------------------
\* Where the elements of the pool are: on the free list F, on the list C[q]
\* of queue q, or in the hands H[q] of its client.
Hands == [Queues -> SUBSET Elements]

\* own[e] is the queue that element e was taken for, or NULL when it is free.
Owned(own, F, C, H) ==
    /\ own \in [Elements -> Queues \cup {NULL}]
    /\ \A e \in Elements : own[e] = NULL <=> On(e, F)
    /\ \A q \in Queues, e \in Elements :
         /\ own[e] = q <=> On(e, C[q]) \/ e \in H[q]
         /\ ~(On(e, C[q]) /\ e \in H[q])

Placed(F, C, H) == \E own : Owned(own, F, C, H)

FreeLinked(m, F) == /\ Linked(m.pNext, m.pFreeHead, F)
                    /\ F # <<>> => m.pFreeTail = F[Len(F)]

QueueLinked(m, q, s) == /\ Linked(m.pNext, m.queue[q].pHead, s)
                        /\ s # <<>> => m.queue[q].pTail = s[Len(s)]

Counted(m, F, C, H) ==
    /\ m.numFree = Len(F)
    /\ \A q \in Queues : m.queue[q].numAlloc = Len(C[q]) + Cardinality(H[q])
    /\ m.numFree + m.queue[Q].numAlloc + m.queue[OtherQ].numAlloc = NumElements

Layout(m, F, C, H) ==
    /\ m \in Area
    /\ DOMAIN C = Queues /\ H \in Hands
    /\ Placed(F, C, H)
    /\ FreeLinked(m, F)
    /\ \A q \in Queues : QueueLinked(m, q, C[q])
    /\ \A q \in Queues : \A e \in H[q] : m.pNext[e] = NULL
    /\ Counted(m, F, C, H)

LEMMA TwoQueues == Q \in Queues /\ OtherQ \in Queues /\ Q # OtherQ
<1> QED BY SpiDriverAssumption, SpiQueueAssumption DEF Q, OtherQ, Queues

\* Hands are finite.
LEMMA HandCount ==
    ASSUME NEW S \in SUBSET Elements
    PROVE  /\ IsFiniteSet(S) /\ Cardinality(S) \in Nat
           /\ S = {} => Cardinality(S) = 0
           /\ \A e \in Elements : e \notin S =>
                Cardinality(S \cup {e}) = Cardinality(S) + 1
           /\ \A e \in S : /\ Cardinality(S \ {e}) = Cardinality(S) - 1
                           /\ Cardinality(S) > 0
<1>1. IsFiniteSet(Elements)
  BY FS_Interval, SpiQueueAssumption DEF Elements
<1>2. IsFiniteSet(S)
  BY <1>1, FS_Subset
<1>3. Cardinality(S) \in Nat
  BY <1>2, FS_CardinalityType
<1>4. S = {} => Cardinality(S) = 0
  BY FS_EmptySet
<1>5. ASSUME NEW e \in Elements, e \notin S
      PROVE  Cardinality(S \cup {e}) = Cardinality(S) + 1
  BY <1>2, <1>5, FS_AddElement
<1>6. ASSUME NEW e \in S
      PROVE  Cardinality(S \ {e}) = Cardinality(S) - 1 /\ Cardinality(S) > 0
  <2>1. Cardinality(S \ {e}) = Cardinality(S) - 1
    BY <1>2, FS_RemoveElement
  <2>2. IsFiniteSet(S \ {e}) /\ Cardinality(S \ {e}) \in Nat
    BY <1>2, FS_Subset, FS_CardinalityType
  <2> QED BY <2>1, <2>2, <1>3
<1> QED BY <1>2, <1>3, <1>4, <1>5, <1>6

LEMMA LinkedSeq ==
    ASSUME NEW next, NEW head, NEW s, Linked(next, head, s)
    PROVE  /\ s \in Seq(Elements) /\ Len(s) \in 0 .. NumElements
           /\ s = <<>> <=> Len(s) = 0
           /\ s = <<>> <=> head = NULL
           /\ head \in Elements \cup {NULL}
           /\ \A i \in 1 .. Len(s) : s[i] \in Elements
           /\ s # <<>> => s[Len(s)] \in Elements /\ On(s[Len(s)], s)
<1>1. /\ s \in Seq(Elements) /\ Len(s) \in 0 .. NumElements
      /\ s = <<>> <=> Len(s) = 0
      /\ \A i \in 1 .. Len(s) : s[i] \in Elements
  BY EmptySeq, SpiQueueAssumption DEF Linked
<1>2. s # <<>> => 1 \in 1 .. Len(s) /\ Len(s) \in 1 .. Len(s)
  BY <1>1
<1>3. s = <<>> <=> head = NULL
  BY <1>1, <1>2, NullIsNone DEF Linked
<1>4. head \in Elements \cup {NULL}
  BY <1>1, <1>2 DEF Linked
<1> QED BY <1>1, <1>2, <1>3, <1>4 DEF On
----------------------------------------------------------------------------
\* The area after DRV_SPI_SYS_QUEUE_AllocElement, field by field.
LEMMA AllocatedFields ==
    ASSUME NEW m \in Area, NEW q \in Queues
    PROVE  LET h == m.pFreeHead
               a == Allocated(m, q)
           IN /\ a.pNext = [m.pNext EXCEPT ![h] = NULL]
              /\ a.pFreeHead = m.pNext[h]
              /\ a.pFreeTail = IF m.pNext[h] = NULL THEN NULL ELSE m.pFreeTail
              /\ a.numFree = m.numFree - 1
              /\ a.numReserve = IF BelowReserve(m, q) THEN m.numReserve - 1
                                ELSE m.numReserve
              /\ a.pFreeQueueHead = m.pFreeQueueHead
              /\ a.pFreeQueueTail = m.pFreeQueueTail
              /\ \A p \in Queues :
                   a.queue[p] = [m.queue[p] EXCEPT !.numAlloc =
                                   IF p = q THEN @ + 1 ELSE @]
<1> QED BY DEF Allocated, Area, Queue

\* The numbers it changes.
LEMMA AllocatedCounts ==
    ASSUME NEW m \in Area, NEW q \in Queues
    PROVE  LET a == Allocated(m, q)
           IN /\ a.queue[q].numAlloc = m.queue[q].numAlloc + 1
              /\ a.queue[q].numReserved = m.queue[q].numReserved
              /\ a.queue[q].maxElements = m.queue[q].maxElements
              /\ a.queue[q].pNext = m.queue[q].pNext
              /\ a.queue[q].pHead = m.queue[q].pHead
              /\ \A p \in Queues \ {q} : a.queue[p] = m.queue[p]
<1> QED BY DEF Allocated, Area, Queue

LEMMA AllocatedType ==
    ASSUME NEW m \in Area, NEW q \in Queues, m.pFreeHead \in Elements,
           m.numFree > 0, m.queue[q].numAlloc < NumElements,
           BelowReserve(m, q) => m.numReserve > 0
    PROVE  Allocated(m, q) \in Area
<1> DEFINE h == m.pFreeHead
<1> USE SpiQueueAssumption
<1>1. [m.pNext EXCEPT ![h] = NULL] \in [Elements -> Elements \cup {NULL}]
  BY DEF Area
<1>2. m.pNext[h] \in Elements \cup {NULL}
  BY DEF Area
<1>3. m.numFree - 1 \in 0 .. NumElements
  BY DEF Area
<1>4. (IF BelowReserve(m, q) THEN m.numReserve - 1 ELSE m.numReserve)
          \in 0 .. NumElements
  BY DEF Area
<1>5. [m.queue EXCEPT ![q].numAlloc = @ + 1] \in [Queues -> Queue]
  <2>1. m.queue[q] \in Queue /\ m.queue \in [Queues -> Queue]
    BY DEF Area
  <2>2. m.queue[q].numAlloc + 1 \in 0 .. NumElements
    BY <2>1 DEF Queue
  <2>3. [m.queue[q] EXCEPT !.numAlloc = @ + 1] \in Queue
    BY <2>1, <2>2 DEF Queue
  <2> QED BY <2>1, <2>3
<1> QED BY <1>1, <1>2, <1>3, <1>4, <1>5 DEF Allocated, Area

\* After DRV_SPI_SYS_QUEUE_FreeElement.
LEMMA FreedFields ==
    ASSUME NEW m \in Area, NEW q \in Queues, NEW e \in Elements
    PROVE  LET a == Freed(m, q, e)
           IN /\ a.pNext = IF m.pFreeHead = NULL THEN m.pNext
                           ELSE [m.pNext EXCEPT ![m.pFreeTail] = e]
              /\ a.pFreeHead = IF m.pFreeHead = NULL THEN e ELSE m.pFreeHead
              /\ a.pFreeTail = e
              /\ a.numFree = m.numFree + 1
              /\ a.numReserve =
                   IF m.queue[q].numAlloc - 1 < m.queue[q].numReserved
                   THEN m.numReserve + 1 ELSE m.numReserve
              /\ a.pFreeQueueHead = m.pFreeQueueHead
              /\ a.pFreeQueueTail = m.pFreeQueueTail
              /\ \A p \in Queues :
                   a.queue[p] = [m.queue[p] EXCEPT !.numAlloc =
                                   IF p = q THEN @ - 1 ELSE @]
<1> QED BY DEF Freed, Area, Queue

\* The numbers it changes.
LEMMA FreedCounts ==
    ASSUME NEW m \in Area, NEW q \in Queues, NEW e \in Elements
    PROVE  LET a == Freed(m, q, e)
           IN /\ a.queue[q].numAlloc = m.queue[q].numAlloc - 1
              /\ a.queue[q].numReserved = m.queue[q].numReserved
              /\ a.queue[q].maxElements = m.queue[q].maxElements
              /\ a.queue[q].pNext = m.queue[q].pNext
              /\ a.queue[q].pHead = m.queue[q].pHead
              /\ \A p \in Queues \ {q} : a.queue[p] = m.queue[p]
<1> QED BY DEF Freed, Area, Queue

LEMMA FreedType ==
    ASSUME NEW m \in Area, NEW q \in Queues, NEW e \in Elements,
           m.numFree < NumElements, m.queue[q].numAlloc > 0,
           m.queue[q].numAlloc - 1 < m.queue[q].numReserved
               => m.numReserve < NumElements
    PROVE  Freed(m, q, e) \in Area
<1> USE SpiQueueAssumption
<1>1. (IF m.pFreeHead = NULL THEN m.pNext
       ELSE [m.pNext EXCEPT ![m.pFreeTail] = e])
          \in [Elements -> Elements \cup {NULL}]
  BY DEF Area
<1>2. (IF m.pFreeHead = NULL THEN e ELSE m.pFreeHead) \in Elements \cup {NULL}
  BY DEF Area
<1>3. m.numFree + 1 \in 0 .. NumElements
  BY DEF Area
<1>4. (IF m.queue[q].numAlloc - 1 < m.queue[q].numReserved
       THEN m.numReserve + 1 ELSE m.numReserve) \in 0 .. NumElements
  BY DEF Area
<1>5. [m.queue EXCEPT ![q].numAlloc = @ - 1] \in [Queues -> Queue]
  <2>1. m.queue[q] \in Queue /\ m.queue \in [Queues -> Queue]
    BY DEF Area
  <2>2. m.queue[q].numAlloc - 1 \in 0 .. NumElements
    BY <2>1 DEF Queue
  <2>3. [m.queue[q] EXCEPT !.numAlloc = @ - 1] \in Queue
    BY <2>1, <2>2 DEF Queue
  <2> QED BY <2>1, <2>3
<1> QED BY <1>1, <1>2, <1>3, <1>4, <1>5 DEF Freed, Area

\* After DRV_SPI_SYS_QUEUE_Enqueue.
LEMMA EnqueuedFields ==
    ASSUME NEW m \in Area, NEW q \in Queues, NEW e \in Elements
    PROVE  LET a == Enqueued(m, q, e)
           IN /\ a.pNext = IF m.queue[q].pHead = NULL THEN m.pNext
                           ELSE [m.pNext EXCEPT ![m.queue[q].pTail] = e]
              /\ a.pFreeHead = m.pFreeHead
              /\ a.pFreeTail = m.pFreeTail
              /\ a.numFree = m.numFree
              /\ a.numReserve = m.numReserve
              /\ a.pFreeQueueHead = m.pFreeQueueHead
              /\ a.pFreeQueueTail = m.pFreeQueueTail
              /\ a.queue[q].pHead = IF m.queue[q].pHead = NULL THEN e
                                    ELSE m.queue[q].pHead
              /\ a.queue[q].pTail = e
              /\ a.queue[q].pNext = m.queue[q].pNext
              /\ a.queue[q].numAlloc = m.queue[q].numAlloc
              /\ a.queue[q].numReserved = m.queue[q].numReserved
              /\ a.queue[q].maxElements = m.queue[q].maxElements
              /\ \A p \in Queues \ {q} : a.queue[p] = m.queue[p]
<1> QED BY DEF Enqueued, Area, Queue

LEMMA EnqueuedType ==
    ASSUME NEW m \in Area, NEW q \in Queues, NEW e \in Elements
    PROVE  Enqueued(m, q, e) \in Area
<1> USE SpiQueueAssumption
<1>1. (IF m.queue[q].pHead = NULL THEN m.pNext
       ELSE [m.pNext EXCEPT ![m.queue[q].pTail] = e])
          \in [Elements -> Elements \cup {NULL}]
  BY DEF Area
<1>2. m.queue[q] \in Queue /\ m.queue \in [Queues -> Queue]
  BY DEF Area
<1>3. [m.queue[q] EXCEPT !.pHead = IF @ = NULL THEN e ELSE @, !.pTail = e]
        \in Queue
  BY <1>2 DEF Queue
<1>4. [m.queue EXCEPT ![q] = [m.queue[q] EXCEPT
                                !.pHead = IF @ = NULL THEN e ELSE @,
                                !.pTail = e]] \in [Queues -> Queue]
  BY <1>2, <1>3
<1>5. Enqueued(m, q, e) =
        [m EXCEPT !.pNext = IF m.queue[q].pHead = NULL THEN @
                            ELSE [@ EXCEPT ![m.queue[q].pTail] = e],
                  !.queue = [m.queue EXCEPT ![q] = [m.queue[q] EXCEPT
                                !.pHead = IF @ = NULL THEN e ELSE @,
                                !.pTail = e]]]
  BY <1>2 DEF Enqueued, Area, Queue
<1> QED BY <1>1, <1>4, <1>5 DEF Area

\* After DRV_SPI_SYS_QUEUE_Dequeue of a queue that is not empty.
LEMMA DequeuedFields ==
    ASSUME NEW m \in Area, NEW q \in Queues
    PROVE  LET h == m.queue[q].pHead
               a == Dequeued(m, q)
           IN /\ a.pNext = [m.pNext EXCEPT ![h] = NULL]
              /\ a.pFreeHead = m.pFreeHead
              /\ a.pFreeTail = m.pFreeTail
              /\ a.numFree = m.numFree
              /\ a.numReserve = m.numReserve
              /\ a.pFreeQueueHead = m.pFreeQueueHead
              /\ a.pFreeQueueTail = m.pFreeQueueTail
              /\ a.queue[q].pHead = m.pNext[h]
              /\ a.queue[q].pTail = IF m.pNext[h] = NULL THEN NULL
                                    ELSE m.queue[q].pTail
              /\ a.queue[q].pNext = m.queue[q].pNext
              /\ a.queue[q].numAlloc = m.queue[q].numAlloc
              /\ a.queue[q].numReserved = m.queue[q].numReserved
              /\ a.queue[q].maxElements = m.queue[q].maxElements
              /\ \A p \in Queues \ {q} : a.queue[p] = m.queue[p]
<1> QED BY DEF Dequeued, Area, Queue

LEMMA DequeuedType ==
    ASSUME NEW m \in Area, NEW q \in Queues, m.queue[q].pHead \in Elements
    PROVE  Dequeued(m, q) \in Area
<1> DEFINE h == m.queue[q].pHead
           r == [m.queue[q] EXCEPT
                   !.pHead = m.pNext[h],
                   !.pTail = IF m.pNext[h] = NULL THEN NULL ELSE @]
<1> USE SpiQueueAssumption
<1>1. [m.pNext EXCEPT ![h] = NULL] \in [Elements -> Elements \cup {NULL}]
  BY DEF Area
<1>2. m.queue[q] \in Queue /\ m.queue \in [Queues -> Queue]
  BY DEF Area
<1>3. m.pNext[h] \in Elements \cup {NULL}
  BY DEF Area
<1>4. r \in Queue
  BY <1>2, <1>3 DEF Queue
<1>5. [m.queue EXCEPT ![q] = r] \in [Queues -> Queue]
  BY <1>2, <1>4
<1>6. Dequeued(m, q) = [m EXCEPT !.pNext = [@ EXCEPT ![h] = NULL],
                                 !.queue = [m.queue EXCEPT ![q] = r]]
  BY <1>2 DEF Dequeued, Area, Queue
<1> HIDE DEF r
<1> QED BY <1>1, <1>5, <1>6 DEF Area

\* After DRV_SPI_SYS_QUEUE_CreateQueue.
LEMMA CreatedFields ==
    ASSUME NEW m \in Area, NEW reserve \in 0 .. NumElements,
           NEW max \in 0 .. NumElements, m.pFreeQueueHead \in Queues
    PROVE  LET q == m.pFreeQueueHead
               a == Created(m, reserve, max)
           IN /\ a.pNext = m.pNext
              /\ a.pFreeHead = m.pFreeHead
              /\ a.pFreeTail = m.pFreeTail
              /\ a.numFree = m.numFree
              /\ a.numReserve = m.numReserve + reserve
              /\ a.pFreeQueueHead = m.queue[q].pNext
              /\ a.pFreeQueueTail = IF m.queue[q].pNext = NULL THEN NULL
                                    ELSE m.pFreeQueueTail
              /\ a.queue[q].pHead = NULL /\ a.queue[q].pNext = NULL
              /\ a.queue[q].numAlloc = 0
              /\ a.queue[q].numReserved = reserve
              /\ a.queue[q].maxElements = max
              /\ \A p \in Queues \ {q} : a.queue[p] = m.queue[p]
<1> QED BY DEF Created, Area, BlankQueue

LEMMA CreatedType ==
    ASSUME NEW m \in Area, NEW reserve \in 0 .. NumElements,
           NEW max \in 0 .. NumElements, CanCreate(m, reserve)
    PROVE  Created(m, reserve, max) \in Area
<1> DEFINE q == m.pFreeQueueHead
           r == [BlankQueue EXCEPT !.numReserved = reserve, !.maxElements = max]
<1> USE SpiQueueAssumption
<1>1. q \in Queues /\ m.queue[q] \in Queue /\ m.queue[q].pNext \in Queues \cup {NULL}
  BY DEF Area, Queue, CanCreate
<1>2. r \in Queue
  <2>1. BlankQueue \in Queue
    BY DEF BlankQueue, Queue
  <2> QED BY <2>1 DEF Queue
<1>3. [m.queue EXCEPT ![q] = r] \in [Queues -> Queue]
  BY <1>1, <1>2 DEF Area
<1>4. m.numReserve + reserve \in 0 .. NumElements
  BY DEF Area, CanCreate
<1> HIDE DEF r
<1> QED BY <1>1, <1>3, <1>4 DEF Area, Created, r

\* After the end of DRV_SPI_SYS_QUEUE_DestroyQueue.
LEMMA DestroyedFields ==
    ASSUME NEW m \in Area, NEW q \in Queues
    PROVE  LET a == Destroyed(m, q)
           IN /\ a.pNext = m.pNext
              /\ a.pFreeHead = m.pFreeHead
              /\ a.pFreeTail = m.pFreeTail
              /\ a.numFree = m.numFree
              /\ a.numReserve = m.numReserve - m.queue[q].numReserved
              /\ a.pFreeQueueHead = q
              /\ a.pFreeQueueTail = IF m.pFreeQueueTail = NULL THEN q
                                    ELSE m.pFreeQueueTail
              /\ \A p \in Queues :
                   a.queue[p] = IF p = q /\ m.pFreeQueueTail # NULL
                                THEN [m.queue[q] EXCEPT !.pNext = m.pFreeQueueHead]
                                ELSE m.queue[p]
<1> QED BY DEF Destroyed, Area, Queue

LEMMA DestroyedType ==
    ASSUME NEW m \in Area, NEW q \in Queues,
           m.queue[q].numReserved <= m.numReserve
    PROVE  Destroyed(m, q) \in Area
<1> DEFINE r == IF m.pFreeQueueTail = NULL THEN m.queue[q]
                ELSE [m.queue[q] EXCEPT !.pNext = m.pFreeQueueHead]
<1> USE SpiQueueAssumption
<1>1. m.queue[q] \in Queue /\ m.queue \in [Queues -> Queue]
  BY DEF Area
<1>2. r \in Queue
  BY <1>1 DEF Area, Queue
<1>3. [m.queue EXCEPT ![q] = r] \in [Queues -> Queue]
  BY <1>1, <1>2
<1>4. m.numReserve - m.queue[q].numReserved \in 0 .. NumElements
  BY <1>1 DEF Area, Queue
<1>5. Destroyed(m, q) =
        [m EXCEPT !.numReserve = @ - m.queue[q].numReserved,
                  !.pFreeQueueHead = q,
                  !.pFreeQueueTail = IF @ = NULL THEN q ELSE @,
                  !.queue = [m.queue EXCEPT ![q] = r]]
  BY <1>1 DEF Destroyed, Area, Queue
<1> HIDE DEF r
<1> QED BY <1>3, <1>4, <1>5 DEF Area
----------------------------------------------------------------------------
LEMMA NullIsNoQueue == NULL \notin Queues
<1> QED BY DEF NULL, Queues

\* One element changes its place.
LEMMA Moved ==
    ASSUME NEW F, NEW C, NEW H, NEW F2, NEW C2, NEW H2,
           Placed(F, C, H),
           NEW e \in Elements, NEW o \in Queues \cup {NULL},
           \A d \in Elements \ {e} : On(d, F2) <=> On(d, F),
           \A p \in Queues, d \in Elements \ {e} :
               /\ On(d, C2[p]) <=> On(d, C[p])
               /\ d \in H2[p] <=> d \in H[p],
           On(e, F2) <=> o = NULL,
           \A p \in Queues : /\ o = p <=> On(e, C2[p]) \/ e \in H2[p]
                             /\ ~(On(e, C2[p]) /\ e \in H2[p])
    PROVE  Placed(F2, C2, H2)
<1>1. PICK own : Owned(own, F, C, H)
  BY DEF Placed
<1> DEFINE own2 == [own EXCEPT ![e] = o]
<1>2. /\ own2 \in [Elements -> Queues \cup {NULL}]
      /\ own2[e] = o
      /\ \A d \in Elements \ {e} : own2[d] = own[d]
  BY <1>1 DEF Owned
<1> HIDE DEF own2
<1>3. \A d \in Elements : own2[d] = NULL <=> On(d, F2)
  BY <1>1, <1>2 DEF Owned
<1>4. ASSUME NEW p \in Queues, NEW d \in Elements
      PROVE  /\ own2[d] = p <=> On(d, C2[p]) \/ d \in H2[p]
             /\ ~(On(d, C2[p]) /\ d \in H2[p])
  <2>1. CASE d = e
    BY <2>1, <1>2
  <2>2. CASE d # e
    <3>1. /\ own[d] = p <=> On(d, C[p]) \/ d \in H[p]
          /\ ~(On(d, C[p]) /\ d \in H[p])
      BY <1>1 DEF Owned
    <3> QED BY <2>2, <3>1, <1>2
  <2> QED BY <2>1, <2>2
<1>5. Owned(own2, F2, C2, H2)
  BY <1>2, <1>3, <1>4 DEF Owned
<1> QED BY <1>5 DEF Placed

\* The counters are numbers.
LEMMA CountTypes ==
    ASSUME NEW m, NEW F, NEW C, NEW H, Layout(m, F, C, H)
    PROVE  /\ m.numFree \in Nat /\ m.numFree = Len(F)
           /\ \A q \in Queues :
                /\ m.queue[q] \in Queue
                /\ m.queue[q].numAlloc \in Nat
                /\ H[q] \in SUBSET Elements
                /\ Len(C[q]) \in Nat /\ Cardinality(H[q]) \in Nat
                /\ m.queue[q].numAlloc = Len(C[q]) + Cardinality(H[q])
           /\ m.numFree + m.queue[Q].numAlloc + m.queue[OtherQ].numAlloc
                = NumElements
           /\ m.queue[Q].numAlloc \in Nat /\ m.queue[OtherQ].numAlloc \in Nat
<1>1. m \in Area /\ Counted(m, F, C, H) /\ H \in Hands
  BY DEF Layout
<1>2. m.numFree \in Nat /\ m.numFree = Len(F)
  BY <1>1, SpiQueueAssumption DEF Area, Counted
<1>3. ASSUME NEW q \in Queues
      PROVE  /\ m.queue[q] \in Queue /\ m.queue[q].numAlloc \in Nat
             /\ H[q] \in SUBSET Elements
             /\ Len(C[q]) \in Nat /\ Cardinality(H[q]) \in Nat
             /\ m.queue[q].numAlloc = Len(C[q]) + Cardinality(H[q])
  <2>1. m.queue[q] \in Queue /\ m.queue[q].numAlloc \in Nat
    BY <1>1, SpiQueueAssumption DEF Area, Queue
  <2>2. H[q] \in SUBSET Elements
    BY <1>1 DEF Hands
  <2>3. Cardinality(H[q]) \in Nat
    BY <2>2, HandCount
  <2>4. Linked(m.pNext, m.queue[q].pHead, C[q])
    BY DEF Layout, QueueLinked
  <2>5. Len(C[q]) \in Nat
    BY <2>4, LinkedSeq, SpiQueueAssumption
  <2> QED BY <2>1, <2>2, <2>3, <2>5, <1>1 DEF Counted
<1> QED BY <1>1, <1>2, <1>3, TwoQueues DEF Counted

\* An element taken from the free list is in the hands of its client.
LEMMA AllocLayout ==
    ASSUME NEW m, NEW q \in Queues, NEW F, NEW C, NEW H,
           Layout(m, F, C, H), q \in {Q, OtherQ}, m.pFreeHead # NULL,
           BelowReserve(m, q) => m.numReserve > 0
    PROVE  LET h == m.pFreeHead
           IN /\ h \in Elements /\ h \notin H[q] /\ On(h, F)
              /\ Allocated(m, q).pNext[h] = NULL
              /\ Layout(Allocated(m, q), Tail(F), C,
                        [H EXCEPT ![q] = @ \cup {h}])
<1> DEFINE h  == m.pFreeHead
           F2 == Tail(F)
           H2 == [H EXCEPT ![q] = @ \cup {h}]
<1> USE SpiQueueAssumption
<1>1. /\ m \in Area /\ DOMAIN C = Queues /\ H \in Hands
      /\ Linked(m.pNext, m.pFreeHead, F)
      /\ F # <<>> => m.pFreeTail = F[Len(F)]
      /\ m.pNext \in Links
  BY DEF Layout, FreeLinked, Area, Links
<1>2. F # <<>>
  BY <1>1, LinkedSeq
<1>3. /\ h \in Elements /\ On(h, F)
      /\ m.pNext[h] = NULL <=> F2 = <<>>
      /\ Len(F2) = Len(F) - 1
      /\ Linked([m.pNext EXCEPT ![h] = NULL], m.pNext[h], F2)
      /\ \A e \in Elements : On(e, F2) <=> On(e, F) /\ e # h
      /\ F2 # <<>> => F2[Len(F2)] = F[Len(F)]
  <2> DEFINE n == m.pNext
  <2>1. n \in Links /\ Linked(n, h, F)
    BY <1>1
  <2> HIDE DEF n, h
  <2> SUFFICES /\ h \in Elements /\ On(h, F)
               /\ n[h] = NULL <=> Tail(F) = <<>>
               /\ Len(Tail(F)) = Len(F) - 1
               /\ Linked([n EXCEPT ![h] = NULL], n[h], Tail(F))
               /\ \A e \in Elements : On(e, Tail(F)) <=> On(e, F) /\ e # h
               /\ Tail(F) # <<>> => Tail(F)[Len(Tail(F))] = F[Len(F)]
    BY DEF n
  <2> QED BY <2>1, <1>2, LinkedPop, SMTT(30)
<1> HIDE DEF F2
<1>5. \A p \in Queues : ~On(h, C[p]) /\ h \notin H[p]
  <2>1. PICK own : Owned(own, F, C, H)
    BY DEF Layout, Placed
  <2>2. own[h] = NULL
    BY <2>1, <1>3 DEF Owned
  <2> QED BY <2>1, <2>2, <1>3, NullIsNoQueue DEF Owned
<1>6. H2 \in Hands /\ H2[q] = H[q] \cup {h} /\ \A p \in Queues \ {q} : H2[p] = H[p]
  BY <1>1, <1>3 DEF Hands
<1> HIDE DEF H2
<1>7. Placed(F2, C, H2)
  <2>1. Placed(F, C, H)
    BY DEF Layout
  <2>2. \A p \in Queues, d \in Elements \ {h} : d \in H2[p] <=> d \in H[p]
    BY <1>6
  <2>3. \A p \in Queues : /\ q = p <=> On(h, C[p]) \/ h \in H2[p]
                          /\ ~(On(h, C[p]) /\ h \in H2[p])
    BY <1>5, <1>6
  <2>4. \A d \in Elements \ {h} : On(d, F2) <=> On(d, F)
    BY <1>3
  <2>5. On(h, F2) <=> q = NULL
    BY <1>3, NullIsNoQueue
  <2> HIDE DEF h
  <2> QED BY <2>1, <2>2, <2>3, <2>4, <2>5, <1>3, Moved
<1>8. PICK a : a = Allocated(m, q)
  OBVIOUS
<1>9. /\ a.pNext = [m.pNext EXCEPT ![h] = NULL]
      /\ a.pFreeHead = m.pNext[h]
      /\ a.pFreeTail = IF m.pNext[h] = NULL THEN NULL ELSE m.pFreeTail
      /\ a.numFree = m.numFree - 1
      /\ \A p \in Queues :
           a.queue[p] = [m.queue[p] EXCEPT !.numAlloc =
                           IF p = q THEN @ + 1 ELSE @]
  BY <1>1, <1>8, AllocatedFields
<1>10. \A p \in Queues : m.queue[p] \in Queue
  BY <1>1 DEF Area
<1>11. \A p \in Queues :
         /\ a.queue[p].pHead = m.queue[p].pHead
         /\ a.queue[p].pTail = m.queue[p].pTail
         /\ a.queue[p].numAlloc = IF p = q THEN m.queue[p].numAlloc + 1
                                  ELSE m.queue[p].numAlloc
  <2> SUFFICES ASSUME NEW p \in Queues
               PROVE  /\ a.queue[p].pHead = m.queue[p].pHead
                      /\ a.queue[p].pTail = m.queue[p].pTail
                      /\ a.queue[p].numAlloc =
                           IF p = q THEN m.queue[p].numAlloc + 1
                           ELSE m.queue[p].numAlloc
    OBVIOUS
  <2>1. PICK x, y : x = m.queue[p] /\ y = a.queue[p]
    OBVIOUS
  <2>2. x \in Queue /\ y = [x EXCEPT !.numAlloc = IF p = q THEN @ + 1 ELSE @]
    BY <2>1, <1>9, <1>10
  <2>3. /\ y.pHead = x.pHead /\ y.pTail = x.pTail
        /\ y.numAlloc = IF p = q THEN x.numAlloc + 1 ELSE x.numAlloc
    BY ONLY <2>2 DEF Queue
  <2> QED BY <2>1, <2>3
<1>12. FreeLinked(a, F2)
  BY <1>1, <1>2, <1>3, <1>9 DEF FreeLinked
<1>13. /\ \A e \in Elements \ {h} : a.pNext[e] = m.pNext[e]
       /\ a.pNext[h] = NULL
  BY <1>1, <1>3, <1>9 DEF Links
<1>14. ASSUME NEW p \in Queues PROVE QueueLinked(a, p, C[p])
  <2>1. QueueLinked(m, p, C[p])
    BY DEF Layout
  <2>2. \A e \in Elements : On(e, C[p]) => a.pNext[e] = m.pNext[e]
    BY <1>5, <1>13
  <2>3. Linked(a.pNext, m.queue[p].pHead, C[p])
    BY <2>1, <2>2, LinkedFrame DEF QueueLinked
  <2> QED BY <2>1, <2>3, <1>11 DEF QueueLinked
<1>15. ASSUME NEW p \in Queues, NEW e \in H2[p] PROVE a.pNext[e] = NULL
  <2>1. CASE e = h
    BY <2>1, <1>13
  <2>2. CASE e # h
    <3>1. e \in H[p] /\ e \in Elements
      BY <2>2, <1>1, <1>6 DEF Hands
    <3> QED BY <3>1, <2>2, <1>13 DEF Layout
  <2> QED BY <2>1, <2>2
<1>16. Counted(a, F2, C, H2)
  <2>1. Counted(m, F, C, H)
    BY DEF Layout
  <2>2. a.numFree = Len(F2)
    BY <2>1, <1>3, <1>9 DEF Counted
  <2>3. \A p \in Queues : a.queue[p].numAlloc = Len(C[p]) + Cardinality(H2[p])
    <3> SUFFICES ASSUME NEW p \in Queues
                 PROVE  a.queue[p].numAlloc = Len(C[p]) + Cardinality(H2[p])
      OBVIOUS
    <3>1. /\ m.queue[p].numAlloc = Len(C[p]) + Cardinality(H[p])
          /\ Cardinality(H[p]) \in Nat /\ Len(C[p]) \in Nat
      BY CountTypes
    <3>2. CASE p = q
      <4>1. Cardinality(H2[p]) = Cardinality(H[p]) + 1
        BY <3>2, <1>1, <1>3, <1>5, <1>6, HandCount DEF Hands
      <4> QED BY <3>1, <3>2, <4>1, <1>11
    <3>3. CASE p # q
      BY <3>1, <3>3, <1>6, <1>11
    <3> QED BY <3>2, <3>3
  <2>4. a.numFree + a.queue[Q].numAlloc + a.queue[OtherQ].numAlloc = NumElements
    <3>1. /\ a.queue[Q].numAlloc = IF Q = q THEN m.queue[Q].numAlloc + 1
                                   ELSE m.queue[Q].numAlloc
          /\ a.queue[OtherQ].numAlloc = IF OtherQ = q
                                        THEN m.queue[OtherQ].numAlloc + 1
                                        ELSE m.queue[OtherQ].numAlloc
          /\ a.numFree = m.numFree - 1
      BY <1>9, <1>11, TwoQueues
    <3>2. /\ m.numFree \in Nat
          /\ m.queue[Q].numAlloc \in Nat /\ m.queue[OtherQ].numAlloc \in Nat
          /\ m.numFree + m.queue[Q].numAlloc + m.queue[OtherQ].numAlloc
               = NumElements
      BY CountTypes
    <3> QED BY <3>1, <3>2, TwoQueues
  <2> QED BY <2>2, <2>3, <2>4 DEF Counted
<1>17. a \in Area
  <2>1. m.numFree > 0
    <3>1. m.numFree = Len(F) /\ Len(F) # 0 /\ m.numFree \in Nat
      BY <1>1, <1>2, LinkedSeq, CountTypes
    <3> QED BY <3>1
  <2>2. m.queue[q].numAlloc < NumElements
    <3>1. /\ m.numFree \in Nat
          /\ m.queue[Q].numAlloc \in Nat /\ m.queue[OtherQ].numAlloc \in Nat
          /\ m.numFree + m.queue[Q].numAlloc + m.queue[OtherQ].numAlloc
               = NumElements
      BY CountTypes
    <3> QED BY <2>1, <3>1
  <2> QED BY <2>1, <2>2, <1>1, <1>3, <1>8, AllocatedType
<1>18. Layout(a, F2, C, H2)
  BY <1>1, <1>6, <1>7, <1>12, <1>14, <1>15, <1>16, <1>17 DEF Layout
<1> QED BY <1>3, <1>5, <1>8, <1>13, <1>18 DEF F2, H2

\* An element in the hands of a client is given back: it becomes the last of
\* the free list.
LEMMA FreeLayout ==
    ASSUME NEW m, NEW q \in Queues, NEW F, NEW C, NEW H, NEW e \in H[q],
           Layout(m, F, C, H), q \in {Q, OtherQ},
           m.queue[q].numAlloc - 1 < m.queue[q].numReserved
               => m.numReserve < NumElements
    PROVE  /\ m.queue[q].numAlloc > 0
           /\ Layout(Freed(m, q, e), Append(F, e), C,
                     [H EXCEPT ![q] = @ \ {e}])
<1> DEFINE F2 == Append(F, e)
           H2 == [H EXCEPT ![q] = @ \ {e}]
<1> USE SpiQueueAssumption
<1>1. /\ m \in Area /\ DOMAIN C = Queues /\ H \in Hands
      /\ Linked(m.pNext, m.pFreeHead, F)
      /\ F # <<>> => m.pFreeTail = F[Len(F)]
      /\ m.pNext \in Links
      /\ m.pNext[e] = NULL
  BY DEF Layout, FreeLinked, Area, Links
<1>2. e \in Elements
  BY <1>1 DEF Hands
<1>3. /\ m.numFree \in Nat /\ m.numFree = Len(F)
      /\ m.queue[Q].numAlloc \in Nat /\ m.queue[OtherQ].numAlloc \in Nat
      /\ m.numFree + m.queue[Q].numAlloc + m.queue[OtherQ].numAlloc
           = NumElements
  BY CountTypes
<1>4. m.queue[q].numAlloc > 0
  <2>1. /\ m.queue[q].numAlloc = Len(C[q]) + Cardinality(H[q])
        /\ H[q] \in SUBSET Elements
        /\ Len(C[q]) \in Nat /\ Cardinality(H[q]) \in Nat
    BY CountTypes
  <2>2. Cardinality(H[q]) > 0
    BY <2>1, HandCount
  <2> QED BY <2>1, <2>2
<1>5. Len(F) < NumElements
  BY <1>3, <1>4
<1>6. /\ ~On(e, F)
      /\ \A p \in Queues : ~On(e, C[p]) /\ (e \in H[p] <=> p = q)
  <2>1. PICK own : Owned(own, F, C, H)
    BY DEF Layout, Placed
  <2>2. own[e] = q
    BY <2>1, <1>2 DEF Owned
  <2> QED BY <2>1, <2>2, <1>2, NullIsNoQueue DEF Owned
<1>7. PICK a : a = Freed(m, q, e)
  OBVIOUS
<1>8. /\ a.pNext = IF m.pFreeHead = NULL THEN m.pNext
                   ELSE [m.pNext EXCEPT ![m.pFreeTail] = e]
      /\ a.pFreeHead = IF m.pFreeHead = NULL THEN e ELSE m.pFreeHead
      /\ a.pFreeTail = e
      /\ a.numFree = m.numFree + 1
      /\ \A p \in Queues :
           a.queue[p] = [m.queue[p] EXCEPT !.numAlloc =
                           IF p = q THEN @ - 1 ELSE @]
  BY <1>1, <1>2, <1>7, FreedFields
<1>9. /\ Linked(a.pNext, a.pFreeHead, F2)
      /\ Len(F2) = Len(F) + 1 /\ F2[Len(F2)] = e /\ F2 # <<>>
      /\ \A d \in Elements : On(d, F2) <=> On(d, F) \/ d = e
      /\ \A d \in Elements : ~On(d, F) => a.pNext[d] = m.pNext[d]
  <2> DEFINE n == m.pNext
             h == m.pFreeHead
             n2 == Pushed(n, F, e)
  <2>1. n \in Links /\ Linked(n, h, F) /\ n[e] = NULL
    BY <1>1
  <2>2. h = NULL <=> F = <<>>
    BY <2>1, LinkedSeq
  <2>3. a.pNext = n2
    BY <2>2, <1>1, <1>8 DEF Pushed
  <2>4. a.pFreeHead = IF h = NULL THEN e ELSE h
    BY <1>8
  <2> HIDE DEF n, h
  <2>5. /\ Linked(n2, IF h = NULL THEN e ELSE h, Append(F, e))
        /\ Len(Append(F, e)) = Len(F) + 1
        /\ Append(F, e)[Len(Append(F, e))] = e
        /\ Append(F, e) # <<>>
        /\ \A d \in Elements : On(d, Append(F, e)) <=> On(d, F) \/ d = e
        /\ \A d \in Elements : ~On(d, F) => n2[d] = n[d]
    BY <2>1, <1>2, <1>5, <1>6, LinkedPush
  <2> HIDE DEF n2
  <2> QED BY <2>3, <2>4, <2>5 DEF n
<1> HIDE DEF F2
<1>10. H2 \in Hands /\ H2[q] = H[q] \ {e} /\ \A p \in Queues \ {q} : H2[p] = H[p]
  BY <1>1 DEF Hands
<1> HIDE DEF H2
<1>11. Placed(F2, C, H2)
  <2>1. Placed(F, C, H)
    BY DEF Layout
  <2>2. \A p \in Queues, d \in Elements \ {e} : d \in H2[p] <=> d \in H[p]
    BY <1>10
  <2>3. \A p \in Queues : ~On(e, C[p]) /\ e \notin H2[p]
    BY <1>6, <1>10
  <2>4. \A d \in Elements \ {e} : On(d, F2) <=> On(d, F)
    BY <1>9
  <2>5. On(e, F2)
    BY <1>2, <1>9
  <2> QED BY <2>1, <2>2, <2>3, <2>4, <2>5, <1>2, Moved, NullIsNoQueue
<1>12. \A p \in Queues :
         /\ a.queue[p].pHead = m.queue[p].pHead
         /\ a.queue[p].pTail = m.queue[p].pTail
         /\ a.queue[p].numAlloc = IF p = q THEN m.queue[p].numAlloc - 1
                                  ELSE m.queue[p].numAlloc
  <2> SUFFICES ASSUME NEW p \in Queues
               PROVE  /\ a.queue[p].pHead = m.queue[p].pHead
                      /\ a.queue[p].pTail = m.queue[p].pTail
                      /\ a.queue[p].numAlloc =
                           IF p = q THEN m.queue[p].numAlloc - 1
                           ELSE m.queue[p].numAlloc
    OBVIOUS
  <2>1. m.queue[p] \in Queue
    BY <1>1 DEF Area
  <2>2. a.queue[p] = [m.queue[p] EXCEPT !.numAlloc = IF p = q THEN @ - 1 ELSE @]
    BY <1>8
  <2> QED BY <2>1, <2>2 DEF Queue
<1>13. FreeLinked(a, F2)
  BY <1>8, <1>9 DEF FreeLinked
<1>14. ASSUME NEW p \in Queues PROVE QueueLinked(a, p, C[p])
  <2>1. QueueLinked(m, p, C[p])
    BY DEF Layout
  <2>2. \A d \in Elements : On(d, C[p]) => a.pNext[d] = m.pNext[d]
    <3>1. PICK own : Owned(own, F, C, H)
      BY DEF Layout, Placed
    <3>2. \A d \in Elements : On(d, C[p]) => ~On(d, F)
      BY <3>1, NullIsNoQueue DEF Owned
    <3> QED BY <3>2, <1>9
  <2>3. Linked(a.pNext, m.queue[p].pHead, C[p])
    BY <2>1, <2>2, LinkedFrame DEF QueueLinked
  <2> QED BY <2>1, <2>3, <1>12 DEF QueueLinked
<1>15. ASSUME NEW p \in Queues, NEW d \in H2[p] PROVE a.pNext[d] = NULL
  <2>1. d \in H[p] /\ d \in Elements
    BY <1>1, <1>10 DEF Hands
  <2>2. ~On(d, F)
    <3>1. PICK own : Owned(own, F, C, H)
      BY DEF Layout, Placed
    <3> QED BY <2>1, <3>1, NullIsNoQueue DEF Owned
  <2> QED BY <2>1, <2>2, <1>9 DEF Layout
<1>16. Counted(a, F2, C, H2)
  <2>1. a.numFree = Len(F2)
    BY <1>3, <1>8, <1>9
  <2>2. ASSUME NEW p \in Queues
        PROVE  a.queue[p].numAlloc = Len(C[p]) + Cardinality(H2[p])
    <3>1. /\ m.queue[p].numAlloc = Len(C[p]) + Cardinality(H[p])
          /\ Cardinality(H[p]) \in Nat /\ Len(C[p]) \in Nat
          /\ H[p] \in SUBSET Elements
      BY CountTypes
    <3>2. CASE p = q
      <4>1. Cardinality(H2[p]) = Cardinality(H[p]) - 1
        BY <3>1, <3>2, <1>10, HandCount
      <4> QED BY <3>1, <3>2, <4>1, <1>12
    <3>3. CASE p # q
      BY <3>1, <3>3, <1>10, <1>12
    <3> QED BY <3>2, <3>3
  <2>3. a.numFree + a.queue[Q].numAlloc + a.queue[OtherQ].numAlloc = NumElements
    <3>1. /\ a.queue[Q].numAlloc = IF Q = q THEN m.queue[Q].numAlloc - 1
                                   ELSE m.queue[Q].numAlloc
          /\ a.queue[OtherQ].numAlloc = IF OtherQ = q
                                        THEN m.queue[OtherQ].numAlloc - 1
                                        ELSE m.queue[OtherQ].numAlloc
          /\ a.numFree = m.numFree + 1
      BY <1>8, <1>12, TwoQueues
    <3> DEFINE k == m.queue[Q].numAlloc
               l == m.queue[OtherQ].numAlloc
    <3>2. /\ m.numFree \in Nat /\ k \in Nat /\ l \in Nat
          /\ m.numFree + k + l = NumElements
      BY <1>3
    <3>3. \/ a.queue[Q].numAlloc = k - 1 /\ a.queue[OtherQ].numAlloc = l
          \/ a.queue[Q].numAlloc = k /\ a.queue[OtherQ].numAlloc = l - 1
      BY <3>1, TwoQueues
    <3>4. a.numFree = m.numFree + 1
      BY <3>1
    <3> HIDE DEF k, l
    <3> QED BY <3>2, <3>3, <3>4
  <2> QED BY <2>1, <2>2, <2>3 DEF Counted
<1>17. a \in Area
  <2>1. m.numFree < NumElements
    BY <1>3, <1>5
  <2> QED BY <2>1, <1>1, <1>2, <1>4, <1>7, FreedType
<1>18. Layout(a, F2, C, H2)
  BY <1>1, <1>10, <1>11, <1>13, <1>14, <1>15, <1>16, <1>17 DEF Layout
<1> QED BY <1>4, <1>7, <1>18 DEF F2, H2

\* An element in the hands of a client is put at the end of its queue.
LEMMA EnqueueLayout ==
    ASSUME NEW m, NEW q \in Queues, NEW F, NEW C, NEW H, NEW e \in H[q],
           Layout(m, F, C, H)
    PROVE  Layout(Enqueued(m, q, e), F, [C EXCEPT ![q] = Append(@, e)],
                  [H EXCEPT ![q] = @ \ {e}])
<1> DEFINE s  == C[q]
           s2 == Append(C[q], e)
           C2 == [C EXCEPT ![q] = Append(@, e)]
           H2 == [H EXCEPT ![q] = @ \ {e}]
<1> USE SpiQueueAssumption
<1>1. /\ m \in Area /\ DOMAIN C = Queues /\ H \in Hands
      /\ Linked(m.pNext, m.queue[q].pHead, s)
      /\ s # <<>> => m.queue[q].pTail = s[Len(s)]
      /\ m.pNext \in Links
      /\ m.pNext[e] = NULL
  BY DEF Layout, QueueLinked, Area, Links
<1>2. e \in Elements
  BY <1>1 DEF Hands
<1>3. \A p \in Queues :
        /\ m.queue[p].numAlloc = Len(C[p]) + Cardinality(H[p])
        /\ m.queue[p].numAlloc \in Nat
        /\ H[p] \in SUBSET Elements
        /\ Len(C[p]) \in Nat /\ Cardinality(H[p]) \in Nat
  BY CountTypes
<1>4. Len(s) < NumElements
  <2>1. Cardinality(H[q]) > 0
    BY <1>3, HandCount
  <2>2. m.queue[q].numAlloc <= NumElements
    BY <1>1 DEF Area, Queue
  <2> QED BY <2>1, <2>2, <1>3
<1>5. /\ ~On(e, F)
      /\ \A p \in Queues : ~On(e, C[p]) /\ (e \in H[p] <=> p = q)
  <2>1. PICK own : Owned(own, F, C, H)
    BY DEF Layout, Placed
  <2>2. own[e] = q
    BY <2>1, <1>2 DEF Owned
  <2> QED BY <2>1, <2>2, <1>2, NullIsNoQueue DEF Owned
<1>6. PICK a : a = Enqueued(m, q, e)
  OBVIOUS
<1>7. /\ a.pNext = IF m.queue[q].pHead = NULL THEN m.pNext
                   ELSE [m.pNext EXCEPT ![m.queue[q].pTail] = e]
      /\ a.pFreeHead = m.pFreeHead
      /\ a.pFreeTail = m.pFreeTail
      /\ a.numFree = m.numFree
      /\ a.queue[q].pHead = IF m.queue[q].pHead = NULL THEN e ELSE m.queue[q].pHead
      /\ a.queue[q].pTail = e
      /\ a.queue[q].numAlloc = m.queue[q].numAlloc
      /\ \A p \in Queues \ {q} : a.queue[p] = m.queue[p]
  BY <1>1, <1>2, <1>6, EnqueuedFields
<1>8. /\ a.queue[q].pHead = IF m.queue[q].pHead = NULL THEN e ELSE m.queue[q].pHead
      /\ a.queue[q].pTail = e
      /\ \A p \in Queues : a.queue[p].numAlloc = m.queue[p].numAlloc
      /\ \A p \in Queues \ {q} : a.queue[p] = m.queue[p]
  BY <1>7
<1>9. /\ Linked(a.pNext, a.queue[q].pHead, s2)
      /\ Len(s2) = Len(s) + 1 /\ s2[Len(s2)] = e /\ s2 # <<>>
      /\ \A d \in Elements : On(d, s2) <=> On(d, s) \/ d = e
      /\ \A d \in Elements : ~On(d, s) => a.pNext[d] = m.pNext[d]
  <2> DEFINE n == m.pNext
             h == m.queue[q].pHead
             n2 == Pushed(n, s, e)
  <2>1. n \in Links /\ Linked(n, h, s) /\ n[e] = NULL
    BY <1>1
  <2>2. h = NULL <=> s = <<>>
    BY <2>1, LinkedSeq
  <2>3. a.pNext = n2
    BY <2>2, <1>1, <1>7 DEF Pushed
  <2>4. a.queue[q].pHead = IF h = NULL THEN e ELSE h
    BY <1>8
  <2>5. ~On(e, s)
    BY <1>5
  <2> HIDE DEF n, h, s
  <2>6. /\ Linked(n2, IF h = NULL THEN e ELSE h, Append(s, e))
        /\ Len(Append(s, e)) = Len(s) + 1
        /\ Append(s, e)[Len(Append(s, e))] = e
        /\ Append(s, e) # <<>>
        /\ \A d \in Elements : On(d, Append(s, e)) <=> On(d, s) \/ d = e
        /\ \A d \in Elements : ~On(d, s) => n2[d] = n[d]
    BY <2>1, <2>5, <1>2, <1>4, LinkedPush
  <2> HIDE DEF n2
  <2>7. s2 = Append(s, e)
    BY DEF s
  <2> HIDE DEF s2
  <2> QED BY <2>3, <2>4, <2>6, <2>7 DEF n
<1> HIDE DEF s2
<1>10. H2 \in Hands /\ H2[q] = H[q] \ {e} /\ \A p \in Queues \ {q} : H2[p] = H[p]
  BY <1>1 DEF Hands
<1>11. DOMAIN C2 = Queues /\ C2[q] = s2 /\ \A p \in Queues \ {q} : C2[p] = C[p]
  BY <1>1 DEF s2
<1> HIDE DEF H2, C2
<1>12. Placed(F, C2, H2)
  <2>1. Placed(F, C, H)
    BY DEF Layout
  <2>2. \A p \in Queues, d \in Elements \ {e} :
          (On(d, C2[p]) <=> On(d, C[p])) /\ (d \in H2[p] <=> d \in H[p])
    BY <1>9, <1>10, <1>11
  <2>3. \A p \in Queues : /\ q = p <=> On(e, C2[p]) \/ e \in H2[p]
                          /\ ~(On(e, C2[p]) /\ e \in H2[p])
    BY <1>2, <1>5, <1>9, <1>10, <1>11
  <2>4. ~On(e, F) /\ q # NULL
    BY <1>5, NullIsNoQueue
  <2> QED BY <2>1, <2>2, <2>3, <2>4, <1>2, Moved
<1>13. FreeLinked(a, F)
  <2>1. FreeLinked(m, F)
    BY DEF Layout
  <2>2. \A d \in Elements : On(d, F) => a.pNext[d] = m.pNext[d]
    <3>1. PICK own : Owned(own, F, C, H)
      BY DEF Layout, Placed
    <3>2. \A d \in Elements : On(d, F) => ~On(d, s)
      BY <3>1, NullIsNoQueue DEF Owned
    <3> QED BY <3>2, <1>9
  <2>3. Linked(a.pNext, m.pFreeHead, F)
    BY <2>1, <2>2, LinkedFrame DEF FreeLinked
  <2> QED BY <2>1, <2>3, <1>7 DEF FreeLinked
<1>14. ASSUME NEW p \in Queues PROVE QueueLinked(a, p, C2[p])
  <2>1. CASE p = q
    BY <2>1, <1>8, <1>9, <1>11 DEF QueueLinked
  <2>2. CASE p # q
    <3>1. QueueLinked(m, p, C[p]) /\ C2[p] = C[p] /\ a.queue[p] = m.queue[p]
      BY <2>2, <1>8, <1>11 DEF Layout
    <3>2. \A d \in Elements : On(d, C[p]) => a.pNext[d] = m.pNext[d]
      <4>1. PICK own : Owned(own, F, C, H)
        BY DEF Layout, Placed
      <4>2. \A d \in Elements : On(d, C[p]) => ~On(d, s)
        BY <2>2, <4>1 DEF Owned
      <4> QED BY <4>2, <1>9
    <3>3. Linked(a.pNext, m.queue[p].pHead, C[p])
      BY <3>1, <3>2, LinkedFrame DEF QueueLinked
    <3> QED BY <3>1, <3>3 DEF QueueLinked
  <2> QED BY <2>1, <2>2
<1>15. ASSUME NEW p \in Queues, NEW d \in H2[p] PROVE a.pNext[d] = NULL
  <2>1. d \in H[p] /\ d \in Elements
    BY <1>1, <1>10 DEF Hands
  <2>2. ~On(d, s)
    <3>1. PICK own : Owned(own, F, C, H)
      BY DEF Layout, Placed
    <3>2. own[d] = p
      BY <2>1, <3>1 DEF Owned
    <3> QED BY <2>1, <3>1, <3>2 DEF Owned
  <2> QED BY <2>1, <2>2, <1>9 DEF Layout
<1>16. Counted(a, F, C2, H2)
  <2>1. ASSUME NEW p \in Queues
        PROVE  a.queue[p].numAlloc = Len(C2[p]) + Cardinality(H2[p])
    <3>1. CASE p = q
      <4>1. Cardinality(H2[p]) = Cardinality(H[p]) - 1
        BY <3>1, <1>3, <1>10, HandCount
      <4> QED BY <3>1, <4>1, <1>3, <1>8, <1>9, <1>11
    <3>2. CASE p # q
      BY <3>2, <1>3, <1>8, <1>10, <1>11
    <3> QED BY <3>1, <3>2
  <2>2. Counted(m, F, C, H)
    BY DEF Layout
  <2>3. /\ a.queue[Q].numAlloc = m.queue[Q].numAlloc
        /\ a.queue[OtherQ].numAlloc = m.queue[OtherQ].numAlloc
    BY <1>8, TwoQueues
  <2> QED BY <2>1, <2>2, <2>3, <1>7 DEF Counted
<1>17. a \in Area
  BY <1>1, <1>2, <1>6, EnqueuedType
<1>18. Layout(a, F, C2, H2)
  BY <1>1, <1>10, <1>11, <1>12, <1>13, <1>14, <1>15, <1>16, <1>17 DEF Layout
<1> QED BY <1>6, <1>18 DEF C2, H2

\* The first element of a queue is taken by its client.
LEMMA DequeueLayout ==
    ASSUME NEW m, NEW q \in Queues, NEW F, NEW C, NEW H,
           Layout(m, F, C, H), m.queue[q].pHead # NULL
    PROVE  LET h == m.queue[q].pHead
           IN /\ h \in Elements /\ h \notin H[q] /\ On(h, C[q]) /\ h = C[q][1]
              /\ C[q] # <<>>
              /\ Layout(Dequeued(m, q), F, [C EXCEPT ![q] = Tail(@)],
                        [H EXCEPT ![q] = @ \cup {h}])
<1> DEFINE h  == m.queue[q].pHead
           s  == C[q]
           s2 == Tail(C[q])
           C2 == [C EXCEPT ![q] = Tail(@)]
           H2 == [H EXCEPT ![q] = @ \cup {h}]
<1> USE SpiQueueAssumption
<1>1. /\ m \in Area /\ DOMAIN C = Queues /\ H \in Hands
      /\ Linked(m.pNext, h, s)
      /\ s # <<>> => m.queue[q].pTail = s[Len(s)]
      /\ m.pNext \in Links
  BY DEF Layout, QueueLinked, Area, Links
<1>2. s # <<>>
  BY <1>1, LinkedSeq
<1>3. /\ h \in Elements /\ h = s[1] /\ On(h, s)
      /\ m.pNext[h] = NULL <=> s2 = <<>>
      /\ Len(s2) = Len(s) - 1
      /\ Linked([m.pNext EXCEPT ![h] = NULL], m.pNext[h], s2)
      /\ \A e \in Elements : On(e, s2) <=> On(e, s) /\ e # h
      /\ s2 # <<>> => s2[Len(s2)] = s[Len(s)]
  <2>1. PICK n, g, z : n = m.pNext /\ g = h /\ z = s
    OBVIOUS
  <2>2. n \in Links /\ Linked(n, g, z) /\ z # <<>>
    BY <2>1, <1>1, <1>2
  <2>3. /\ g \in Elements /\ g = z[1] /\ On(g, z)
        /\ n[g] = NULL <=> Tail(z) = <<>>
        /\ Len(Tail(z)) = Len(z) - 1
        /\ Linked([n EXCEPT ![g] = NULL], n[g], Tail(z))
        /\ \A e \in Elements : On(e, Tail(z)) <=> On(e, z) /\ e # g
        /\ Tail(z) # <<>> => Tail(z)[Len(Tail(z))] = z[Len(z)]
    BY ONLY <2>2, LinkedPop, ZenonT(60)
  <2>4. s2 = Tail(z)
    BY <2>1
  <2> HIDE DEF s2, h, s
  <2> QED BY <2>1, <2>3, <2>4
<1> HIDE DEF s2
<1>4. /\ ~On(h, F)
      /\ \A p \in Queues : h \notin H[p] /\ (On(h, C[p]) <=> p = q)
  <2>1. PICK own : Owned(own, F, C, H)
    BY DEF Layout, Placed
  <2>2. own[h] = q
    BY <2>1, <1>3 DEF Owned
  <2> QED BY <2>1, <2>2, <1>3, NullIsNoQueue DEF Owned
<1>5. \A p \in Queues :
        /\ m.queue[p].numAlloc = Len(C[p]) + Cardinality(H[p])
        /\ m.queue[p].numAlloc \in Nat
        /\ H[p] \in SUBSET Elements
        /\ Len(C[p]) \in Nat /\ Cardinality(H[p]) \in Nat
  BY CountTypes
<1>6. PICK a : a = Dequeued(m, q)
  OBVIOUS
<1>7. /\ a.pNext = [m.pNext EXCEPT ![h] = NULL]
      /\ a.pFreeHead = m.pFreeHead
      /\ a.pFreeTail = m.pFreeTail
      /\ a.numFree = m.numFree
      /\ a.queue[q].pHead = m.pNext[h]
      /\ a.queue[q].pTail = IF m.pNext[h] = NULL THEN NULL ELSE m.queue[q].pTail
      /\ a.queue[q].numAlloc = m.queue[q].numAlloc
      /\ \A p \in Queues \ {q} : a.queue[p] = m.queue[p]
  BY <1>1, <1>6, DequeuedFields
<1>8. /\ a.pNext[h] = NULL
      /\ \A e \in Elements \ {h} : a.pNext[e] = m.pNext[e]
  BY <1>1, <1>3, <1>7 DEF Links
<1>9. H2 \in Hands /\ H2[q] = H[q] \cup {h} /\ \A p \in Queues \ {q} : H2[p] = H[p]
  BY <1>1, <1>3 DEF Hands
<1>10. DOMAIN C2 = Queues /\ C2[q] = s2 /\ \A p \in Queues \ {q} : C2[p] = C[p]
  BY <1>1 DEF s2
<1> HIDE DEF H2, C2
<1>11. Placed(F, C2, H2)
  <2>1. Placed(F, C, H)
    BY DEF Layout
  <2>2. \A p \in Queues, d \in Elements \ {h} :
          (On(d, C2[p]) <=> On(d, C[p])) /\ (d \in H2[p] <=> d \in H[p])
    BY <1>3, <1>9, <1>10
  <2>3. \A p \in Queues : /\ q = p <=> On(h, C2[p]) \/ h \in H2[p]
                          /\ ~(On(h, C2[p]) /\ h \in H2[p])
    BY <1>3, <1>4, <1>9, <1>10
  <2>4. ~On(h, F) /\ q # NULL
    BY <1>4, NullIsNoQueue
  <2> HIDE DEF h
  <2> QED BY <2>1, <2>2, <2>3, <2>4, <1>3, Moved
<1>12. FreeLinked(a, F)
  <2>1. FreeLinked(m, F)
    BY DEF Layout
  <2>2. \A d \in Elements : On(d, F) => a.pNext[d] = m.pNext[d]
    BY <1>4, <1>8
  <2>3. Linked(a.pNext, m.pFreeHead, F)
    BY <2>1, <2>2, LinkedFrame DEF FreeLinked
  <2> QED BY <2>1, <2>3, <1>7 DEF FreeLinked
<1>13. ASSUME NEW p \in Queues PROVE QueueLinked(a, p, C2[p])
  <2>1. CASE p = q
    BY <2>1, <1>1, <1>2, <1>3, <1>7, <1>10 DEF QueueLinked
  <2>2. CASE p # q
    <3>1. QueueLinked(m, p, C[p]) /\ C2[p] = C[p] /\ a.queue[p] = m.queue[p]
      BY <2>2, <1>7, <1>10 DEF Layout
    <3>2. \A d \in Elements : On(d, C[p]) => a.pNext[d] = m.pNext[d]
      BY <2>2, <1>4, <1>8
    <3>3. Linked(a.pNext, m.queue[p].pHead, C[p])
      BY <3>1, <3>2, LinkedFrame DEF QueueLinked
    <3> QED BY <3>1, <3>3 DEF QueueLinked
  <2> QED BY <2>1, <2>2
<1>14. ASSUME NEW p \in Queues, NEW d \in H2[p] PROVE a.pNext[d] = NULL
  <2>1. CASE d = h
    BY <2>1, <1>8
  <2>2. CASE d # h
    <3>1. d \in H[p] /\ d \in Elements
      BY <2>2, <1>1, <1>9 DEF Hands
    <3> QED BY <3>1, <2>2, <1>8 DEF Layout
  <2> QED BY <2>1, <2>2
<1>15. Counted(a, F, C2, H2)
  <2>1. ASSUME NEW p \in Queues
        PROVE  a.queue[p].numAlloc = Len(C2[p]) + Cardinality(H2[p])
    <3>1. CASE p = q
      <4>1. Cardinality(H2[q]) = Cardinality(H[q]) + 1
        BY <1>3, <1>4, <1>5, <1>9, HandCount
      <4>2. Len(C2[q]) = Len(C[q]) - 1
        BY <1>3, <1>10
      <4>3. /\ m.queue[q].numAlloc = Len(C[q]) + Cardinality(H[q])
            /\ Len(C[q]) \in Nat /\ Cardinality(H[q]) \in Nat
        BY <1>5
      <4>4. a.queue[q].numAlloc = Len(C2[q]) + Cardinality(H2[q])
        <5>1. a.queue[q].numAlloc = m.queue[q].numAlloc
          BY <1>7
        <5> HIDE DEF h, s
        <5> QED BY <4>1, <4>2, <4>3, <5>1
      <4> QED BY <3>1, <4>4
    <3>2. CASE p # q
      BY <3>2, <1>5, <1>7, <1>9, <1>10
    <3> QED BY <3>1, <3>2
  <2>2. Counted(m, F, C, H)
    BY DEF Layout
  <2>3. /\ a.queue[Q].numAlloc = m.queue[Q].numAlloc
        /\ a.queue[OtherQ].numAlloc = m.queue[OtherQ].numAlloc
    BY <1>7, TwoQueues
  <2> QED BY <2>1, <2>2, <2>3, <1>7 DEF Counted
<1>16. a \in Area
  BY <1>1, <1>3, <1>6, DequeuedType
<1>17. Layout(a, F, C2, H2)
  BY <1>1, <1>9, <1>10, <1>11, <1>12, <1>13, <1>14, <1>15, <1>16 DEF Layout
<1> QED BY <1>2, <1>3, <1>4, <1>6, <1>17 DEF C2, H2

\* Creating a queue moves no element.
LEMMA CreateLayout ==
    ASSUME NEW m, NEW F, NEW C, NEW H, NEW reserve \in 0 .. NumElements,
           NEW max \in 0 .. NumElements,
           Layout(m, F, C, H), CanCreate(m, reserve),
           C[m.pFreeQueueHead] = <<>>, H[m.pFreeQueueHead] = {}
    PROVE  Layout(Created(m, reserve, max), F, C, H)
<1> DEFINE q == m.pFreeQueueHead
<1>1. m \in Area /\ q \in Queues
  BY DEF Layout, Area, CanCreate
<1>2. PICK a : a = Created(m, reserve, max)
  OBVIOUS
<1>3. /\ a.pNext = m.pNext
      /\ a.pFreeHead = m.pFreeHead
      /\ a.pFreeTail = m.pFreeTail
      /\ a.numFree = m.numFree
      /\ a.queue[q].pHead = NULL /\ a.queue[q].numAlloc = 0
      /\ \A p \in Queues \ {q} : a.queue[p] = m.queue[p]
  BY <1>1, <1>2, CreatedFields
<1>4. a.queue[q].pHead = NULL /\ a.queue[q].numAlloc = 0
  BY <1>3
<1>5. \A p \in Queues : /\ m.queue[p].numAlloc = Len(C[p]) + Cardinality(H[p])
                        /\ H[p] \in SUBSET Elements
  BY CountTypes
<1>6. m.queue[q].pHead = NULL /\ m.queue[q].numAlloc = 0
  <2>1. QueueLinked(m, q, C[q])
    BY <1>1 DEF Layout
  <2>2. m.queue[q].pHead = NULL
    BY <2>1, LinkedSeq DEF QueueLinked
  <2>3. Len(C[q]) = 0
    BY <2>1, LinkedSeq DEF QueueLinked
  <2>4. Cardinality(H[q]) = 0
    BY <1>1, <1>5, HandCount
  <2>5. m.queue[q].numAlloc = Len(C[q]) + Cardinality(H[q])
    BY <1>1, <1>5
  <2>6. m.queue[q].numAlloc = 0
    <3> HIDE DEF q
    <3> QED BY <2>3, <2>4, <2>5
  <2> QED BY <2>2, <2>6
<1>7. \A p \in Queues : /\ a.queue[p].pHead = m.queue[p].pHead
                        /\ a.queue[p].numAlloc = m.queue[p].numAlloc
                        /\ p # q => a.queue[p].pTail = m.queue[p].pTail
  BY <1>3, <1>4, <1>6
<1>8. \A p \in Queues : QueueLinked(a, p, C[p])
  BY <1>3, <1>7 DEF Layout, QueueLinked
<1>9. Counted(a, F, C, H)
  BY <1>3, <1>7, TwoQueues DEF Layout, Counted
<1>10. a \in Area
  BY <1>1, <1>2, CreatedType
<1>11. FreeLinked(a, F) /\ \A p \in Queues : \A e \in H[p] : a.pNext[e] = NULL
  BY <1>3 DEF Layout, FreeLinked
<1> QED BY <1>2, <1>8, <1>9, <1>10, <1>11 DEF Layout

\* The end of the destruction of a queue moves no element.
LEMMA DestroyLayout ==
    ASSUME NEW m, NEW F, NEW C, NEW H, NEW q \in Queues,
           Layout(m, F, C, H), m.queue[q].numReserved <= m.numReserve
    PROVE  Layout(Destroyed(m, q), F, C, H)
<1>1. m \in Area
  BY DEF Layout
<1>2. PICK a : a = Destroyed(m, q)
  OBVIOUS
<1>3. /\ a.pNext = m.pNext
      /\ a.pFreeHead = m.pFreeHead
      /\ a.pFreeTail = m.pFreeTail
      /\ a.numFree = m.numFree
      /\ \A p \in Queues :
           a.queue[p] = IF p = q /\ m.pFreeQueueTail # NULL
                        THEN [m.queue[q] EXCEPT !.pNext = m.pFreeQueueHead]
                        ELSE m.queue[p]
  BY <1>1, <1>2, DestroyedFields
<1>4. \A p \in Queues : /\ a.queue[p].pHead = m.queue[p].pHead
                        /\ a.queue[p].numAlloc = m.queue[p].numAlloc
                        /\ a.queue[p].pTail = m.queue[p].pTail
  <2>1. \A p \in Queues : m.queue[p] \in Queue
    BY <1>1 DEF Area
  <2> QED BY <2>1, <1>3 DEF Queue
<1>5. \A p \in Queues : QueueLinked(a, p, C[p])
  BY <1>3, <1>4 DEF Layout, QueueLinked
<1>6. Counted(a, F, C, H)
  BY <1>3, <1>4, TwoQueues DEF Layout, Counted
<1>7. a \in Area
  BY <1>1, <1>2, DestroyedType
<1>8. FreeLinked(a, F) /\ \A p \in Queues : \A e \in H[p] : a.pNext[e] = NULL
  BY <1>3 DEF Layout, FreeLinked
<1> QED BY <1>2, <1>5, <1>6, <1>7, <1>8 DEF Layout
----------------------------------------------------------------------------
\* The pool between two calls, `o` telling whether the second client has a
\* queue: its elements are laid out, its counter is what the queues may still
\* claim, and the queue records are those of two clients.
Reserves(m, o) ==
    /\ m.numReserve = Claim(m, Q) + IF o THEN Claim(m, OtherQ) ELSE 0
    /\ m.numReserve <= m.numFree

NextFree == IF NumQueues > 2 THEN 3 ELSE NULL

Records(m, o) ==
    /\ m.queue[Q].pNext = NULL
    /\ m.queue[OtherQ].pNext = IF o THEN NULL ELSE NextFree
    /\ m.pFreeQueueHead = IF o THEN NextFree ELSE OtherQ
    /\ NumQueues > 2 => m.pFreeQueueTail # NULL
    /\ NumQueues = 2 /\ o => m.pFreeQueueTail = NULL
    /\ ~o => m.queue[OtherQ].pHead = NULL
    /\ \A p \in Queues \ {Q, OtherQ} : m.queue[p].pHead = NULL

Laid(m, H) == \E F, C : Layout(m, F, C, H)

Pool(m, o, H) ==
    /\ o \in BOOLEAN
    /\ Laid(m, H)
    /\ Reserves(m, o)
    /\ Records(m, o)
    /\ \A p \in Queues \ {Q, OtherQ} : H[p] = {}
    /\ ~o => H[OtherQ] = {}

\* A queue one of the two clients may use.
Usable(q, o) == q = Q \/ (q = OtherQ /\ o)

LEMMA UsableQueue ==
    ASSUME NEW q, NEW o, Usable(q, o) PROVE q \in Queues /\ q \in {Q, OtherQ}
<1> QED BY TwoQueues DEF Usable

\* The lists of the layout are those that are found by following the links.
LEMMA LayoutIs ==
    ASSUME NEW m, NEW F, NEW C, NEW H, Layout(m, F, C, H)
    PROVE  /\ F = FreeList(m)
           /\ \A q \in Queues : C[q] = Contents(m, q)
<1>1. F = FreeList(m)
  <2>1. Linked(m.pNext, m.pFreeHead, F)
    BY DEF Layout, FreeLinked
  <2> QED BY <2>1, ChainIs DEF FreeList
<1>2. ASSUME NEW q \in Queues PROVE C[q] = Contents(m, q)
  <2>1. Linked(m.pNext, m.queue[q].pHead, C[q])
    BY DEF Layout, QueueLinked
  <2> QED BY <2>1, ChainIs DEF Contents
<1> QED BY <1>1, <1>2

\* The numbers of a queue.
LEMMA QueueNumbers ==
    ASSUME NEW m \in Area, NEW q \in Queues
    PROVE  /\ m.queue[q].numAlloc \in Nat
           /\ m.queue[q].numReserved \in Nat
           /\ m.queue[q].maxElements \in Nat
           /\ m.numReserve \in Nat /\ m.numFree \in Nat
           /\ Claim(m, q) \in Nat
           /\ BelowReserve(m, q) => Claim(m, q) > 0
<1>1. m.queue[q] \in Queue
  BY DEF Area
<1>2. /\ m.queue[q].numAlloc \in Nat
      /\ m.queue[q].numReserved \in Nat
      /\ m.queue[q].maxElements \in Nat
  BY <1>1, SpiQueueAssumption DEF Queue
<1>3. m.numReserve \in Nat /\ m.numFree \in Nat
  BY SpiQueueAssumption DEF Area
<1>4. /\ Claim(m, q) \in Nat
      /\ BelowReserve(m, q) => Claim(m, q) > 0
  BY <1>2 DEF Claim, BelowReserve
<1> QED BY <1>2, <1>3, <1>4

\* A queue below its reservation has a claim the pool counts.
LEMMA ClaimCounted ==
    ASSUME NEW m \in Area, NEW o, NEW q, Usable(q, o), Reserves(m, o),
           BelowReserve(m, q)
    PROVE  m.numReserve > 0
<1>1. /\ Claim(m, Q) \in Nat /\ Claim(m, OtherQ) \in Nat
      /\ Claim(m, q) > 0 /\ m.numReserve \in Nat
  BY TwoQueues, UsableQueue, QueueNumbers
<1> QED BY <1>1 DEF Usable, Reserves

\* Taking an element fulfils a claim of its queue, or takes one that nobody
\* has reserved.
LEMMA AllocReserves ==
    ASSUME NEW m \in Area, NEW o, NEW q, Usable(q, o), Reserves(m, o),
           CanAlloc(m, q)
    PROVE  Reserves(Allocated(m, q), o)
<1>1. q \in Queues /\ Q \in Queues /\ OtherQ \in Queues /\ Q # OtherQ
  BY UsableQueue, TwoQueues
<1>2. PICK a : a = Allocated(m, q)
  OBVIOUS
<1>3. /\ a.numFree = m.numFree - 1
      /\ a.numReserve = IF BelowReserve(m, q) THEN m.numReserve - 1
                        ELSE m.numReserve
  BY <1>1, <1>2, AllocatedFields
<1>4. /\ a.queue[q].numReserved = m.queue[q].numReserved
      /\ a.queue[q].numAlloc = m.queue[q].numAlloc + 1
      /\ \A p \in Queues \ {q} : a.queue[p] = m.queue[p]
  BY <1>1, <1>2, AllocatedCounts
<1>5. \A p \in Queues \ {q} : Claim(a, p) = Claim(m, p)
  BY <1>4 DEF Claim, BelowReserve
<1>6. Claim(a, q) = IF BelowReserve(m, q) THEN Claim(m, q) - 1 ELSE Claim(m, q)
  <2>1. m.queue[q].numAlloc \in Nat /\ m.queue[q].numReserved \in Nat
    BY <1>1, QueueNumbers
  <2>2. /\ a.queue[q].numReserved = m.queue[q].numReserved
        /\ a.queue[q].numAlloc = m.queue[q].numAlloc + 1
    BY <1>1, <1>4
  <2> QED BY <2>1, <2>2 DEF Claim, BelowReserve
<1>7. /\ m.numReserve \in Nat /\ m.numFree \in Nat
      /\ Claim(m, Q) \in Nat /\ Claim(m, OtherQ) \in Nat
  BY <1>1, QueueNumbers
<1>8. a.numReserve = Claim(a, Q) + IF o THEN Claim(a, OtherQ) ELSE 0
  <2>1. CASE q = Q
    <3>1. Claim(a, OtherQ) = Claim(m, OtherQ)
      BY <2>1, <1>1, <1>5
    <3> QED BY <2>1, <3>1, <1>3, <1>6, <1>7 DEF Reserves
  <2>2. CASE q = OtherQ /\ o
    <3>1. Claim(a, Q) = Claim(m, Q)
      BY <2>2, <1>1, <1>5
    <3> QED BY <2>2, <3>1, <1>3, <1>6, <1>7 DEF Reserves
  <2> QED BY <2>1, <2>2 DEF Usable
<1>9. a.numReserve <= a.numFree
  BY <1>3, <1>7 DEF Reserves, CanAlloc
<1> QED BY <1>2, <1>8, <1>9 DEF Reserves

\* Giving an element back renews the claim of a queue that is then below its
\* reservation.
LEMMA FreeReserves ==
    ASSUME NEW m \in Area, NEW o, NEW q, NEW e \in Elements, Usable(q, o),
           Reserves(m, o), m.queue[q].numAlloc > 0
    PROVE  Reserves(Freed(m, q, e), o)
<1>1. q \in Queues /\ Q \in Queues /\ OtherQ \in Queues /\ Q # OtherQ
  BY UsableQueue, TwoQueues
<1>2. PICK a : a = Freed(m, q, e)
  OBVIOUS
<1>3. /\ a.numFree = m.numFree + 1
      /\ a.numReserve = IF m.queue[q].numAlloc - 1 < m.queue[q].numReserved
                        THEN m.numReserve + 1 ELSE m.numReserve
  BY <1>2 DEF Freed, Area
<1>4. /\ a.queue[q].numReserved = m.queue[q].numReserved
      /\ a.queue[q].numAlloc = m.queue[q].numAlloc - 1
      /\ \A p \in Queues \ {q} : a.queue[p] = m.queue[p]
  BY <1>1, <1>2, FreedCounts
<1>5. \A p \in Queues \ {q} : Claim(a, p) = Claim(m, p)
  BY <1>4 DEF Claim, BelowReserve
<1>6. Claim(a, q) = IF m.queue[q].numAlloc - 1 < m.queue[q].numReserved
                    THEN Claim(m, q) + 1 ELSE Claim(m, q)
  <2>1. m.queue[q].numAlloc \in Nat /\ m.queue[q].numReserved \in Nat
    BY <1>1, QueueNumbers
  <2>2. /\ a.queue[q].numReserved = m.queue[q].numReserved
        /\ a.queue[q].numAlloc = m.queue[q].numAlloc - 1
    BY <1>1, <1>4
  <2> QED BY <2>1, <2>2 DEF Claim, BelowReserve
<1>7. /\ m.numReserve \in Nat /\ m.numFree \in Nat
      /\ Claim(m, Q) \in Nat /\ Claim(m, OtherQ) \in Nat
  BY <1>1, QueueNumbers
<1>8. a.numReserve = Claim(a, Q) + IF o THEN Claim(a, OtherQ) ELSE 0
  <2>1. CASE q = Q
    <3>1. Claim(a, OtherQ) = Claim(m, OtherQ)
      BY <2>1, <1>1, <1>5
    <3> QED BY <2>1, <3>1, <1>3, <1>6, <1>7 DEF Reserves
  <2>2. CASE q = OtherQ /\ o
    <3>1. Claim(a, Q) = Claim(m, Q)
      BY <2>2, <1>1, <1>5
    <3> QED BY <2>2, <3>1, <1>3, <1>6, <1>7 DEF Reserves
  <2> QED BY <2>1, <2>2 DEF Usable
<1>9. a.numReserve <= a.numFree
  BY <1>3, <1>7 DEF Reserves
<1> QED BY <1>2, <1>8, <1>9 DEF Reserves

\* What does not touch the counters keeps the reservations, and what does not
\* touch the links of the queues keeps their records.
LEMMA SameReserves ==
    ASSUME NEW m, NEW a, NEW o, Reserves(m, o),
           a.numFree = m.numFree, a.numReserve = m.numReserve,
           \A p \in Queues : /\ a.queue[p].numAlloc = m.queue[p].numAlloc
                             /\ a.queue[p].numReserved = m.queue[p].numReserved
    PROVE  Reserves(a, o)
<1>1. Claim(a, Q) = Claim(m, Q) /\ Claim(a, OtherQ) = Claim(m, OtherQ)
  BY TwoQueues DEF Claim, BelowReserve
<1> QED BY <1>1 DEF Reserves

LEMMA SameRecords ==
    ASSUME NEW m, NEW a, NEW o, NEW q, Usable(q, o), Records(m, o),
           a.pFreeQueueHead = m.pFreeQueueHead,
           a.pFreeQueueTail = m.pFreeQueueTail,
           a.queue[q].pNext = m.queue[q].pNext,
           \A p \in Queues \ {q} : a.queue[p] = m.queue[p]
    PROVE  Records(a, o)
<1>1. \A p \in Queues : a.queue[p].pNext = m.queue[p].pNext
  OBVIOUS
<1>2. \A p \in Queues \ {Q, OtherQ} : a.queue[p].pHead = m.queue[p].pHead
  BY DEF Usable
<1>3. ~o => a.queue[OtherQ].pHead = m.queue[OtherQ].pHead
  BY TwoQueues DEF Usable
<1> QED BY <1>1, <1>2, <1>3, TwoQueues DEF Records

\* An element comes to the hands of a queue's client, or leaves them.
With(H, q, e)    == [H EXCEPT ![q] = @ \cup {e}]
Without(H, q, e) == [H EXCEPT ![q] = @ \ {e}]

\* DRV_SPI_SYS_QUEUE_AllocElement on a whole pool.
LEMMA PoolAlloc ==
    ASSUME NEW m, NEW o, NEW H, NEW q, Usable(q, o), Pool(m, o, H),
           CanAlloc(m, q)
    PROVE  LET h == m.pFreeHead
               a == Allocated(m, q)
           IN /\ h \in Elements
              /\ \A p \in Queues : h \notin H[p] /\ ~On(h, Contents(m, p))
              /\ Pool(a, o, With(H, q, h))
              /\ \A p \in Queues : Contents(a, p) = Contents(m, p)
<1> DEFINE h  == m.pFreeHead
           a  == Allocated(m, q)
           H2 == With(H, q, h)
<1>1. q \in Queues /\ q \in {Q, OtherQ}
  BY UsableQueue
<1>2. PICK F, C : Layout(m, F, C, H)
  BY DEF Pool, Laid
<1>3. m \in Area /\ H \in Hands
  BY <1>2 DEF Layout
<1>4. BelowReserve(m, q) => m.numReserve > 0
  BY <1>3, ClaimCounted DEF Pool
<1>5. h # NULL
  BY DEF CanAlloc
<1>6. /\ h \in Elements /\ On(h, F)
      /\ Layout(a, Tail(F), C, H2)
  BY <1>1, <1>2, <1>4, <1>5, AllocLayout DEF With, Without
<1>7. \A p \in Queues : h \notin H[p] /\ ~On(h, C[p])
  <2>1. PICK own : Owned(own, F, C, H)
    BY <1>2 DEF Layout, Placed
  <2>2. own[h] = NULL
    BY <2>1, <1>6 DEF Owned
  <2> QED BY <2>1, <2>2, <1>6, NullIsNoQueue DEF Owned
<1>8. \A p \in Queues : C[p] = Contents(m, p) /\ C[p] = Contents(a, p)
  BY <1>2, <1>6, LayoutIs
<1>9. Reserves(a, o)
  BY <1>3, AllocReserves DEF Pool
<1>10. Records(a, o)
  <2>1. /\ a.pFreeQueueHead = m.pFreeQueueHead
        /\ a.pFreeQueueTail = m.pFreeQueueTail
    BY <1>1, <1>3, AllocatedFields
  <2>2. /\ a.queue[q].pNext = m.queue[q].pNext
        /\ \A p \in Queues \ {q} : a.queue[p] = m.queue[p]
    BY <1>1, <1>3, AllocatedCounts
  <2> HIDE DEF a
  <2> QED BY <2>1, <2>2, SameRecords DEF Pool
<1>11. \A p \in Queues \ {q} : H2[p] = H[p]
  BY <1>3 DEF Hands, With, Without
<1>12. Laid(a, H2)
  <2> HIDE DEF a, H2
  <2> QED BY <1>6 DEF Laid
<1>13. Pool(a, o, H2)
  <2> HIDE DEF a, H2
  <2> QED BY <1>9, <1>10, <1>11, <1>12, TwoQueues DEF Pool, Usable
<1> QED BY <1>6, <1>7, <1>8, <1>13

\* DRV_SPI_SYS_QUEUE_FreeElement on a whole pool.
LEMMA PoolFree ==
    ASSUME NEW m, NEW o, NEW H, NEW q, NEW e \in H[q], Usable(q, o),
           Pool(m, o, H)
    PROVE  /\ Pool(Freed(m, q, e), o, Without(H, q, e))
           /\ \A p \in Queues : Contents(Freed(m, q, e), p) = Contents(m, p)
<1> DEFINE a  == Freed(m, q, e)
           H2 == Without(H, q, e)
<1>1. q \in Queues /\ q \in {Q, OtherQ}
  BY UsableQueue
<1>2. PICK F, C : Layout(m, F, C, H)
  BY DEF Pool, Laid
<1>3. m \in Area /\ H \in Hands /\ e \in Elements
  BY <1>1, <1>2 DEF Layout, Hands
<1>4. m.numReserve < NumElements
  <2>1. /\ m.numFree \in Nat
        /\ m.queue[q].numAlloc = Len(C[q]) + Cardinality(H[q])
        /\ Len(C[q]) \in Nat /\ Cardinality(H[q]) \in Nat
        /\ m.numFree + m.queue[Q].numAlloc + m.queue[OtherQ].numAlloc
             = NumElements
        /\ m.queue[Q].numAlloc \in Nat /\ m.queue[OtherQ].numAlloc \in Nat
    BY <1>1, <1>2, CountTypes
  <2>2. Cardinality(H[q]) > 0
    <3>1. H[q] \in SUBSET Elements
      BY <1>1, <1>3 DEF Hands
    <3> QED BY <3>1, HandCount
  <2>3. m.numReserve \in Nat /\ m.numReserve <= m.numFree
    BY <1>1, <1>3, QueueNumbers DEF Pool, Reserves
  <2>4. m.queue[q].numAlloc > 0
    BY <2>1, <2>2
  <2>5. m.numFree < NumElements
    <3>1. PICK f, k, l : /\ f = m.numFree
                         /\ k = m.queue[Q].numAlloc
                         /\ l = m.queue[OtherQ].numAlloc
      OBVIOUS
    <3>2. /\ f \in Nat /\ k \in Nat /\ l \in Nat
          /\ f + k + l = NumElements
      BY ONLY <2>1, <3>1
    <3>3. k > 0 \/ l > 0
      BY ONLY <1>1, <2>4, <3>1
    <3>4. f < NumElements
      BY ONLY <3>2, <3>3
    <3> QED BY ONLY <3>1, <3>4
  <2> QED BY <2>1, <2>3, <2>5, SpiQueueAssumption
<1>5. /\ m.queue[q].numAlloc > 0
      /\ Layout(a, Append(F, e), C, H2)
  BY <1>1, <1>2, <1>4, FreeLayout DEF With, Without
<1>6. \A p \in Queues : C[p] = Contents(m, p) /\ C[p] = Contents(a, p)
  BY <1>2, <1>5, LayoutIs
<1>7. Reserves(a, o)
  BY <1>3, <1>5, FreeReserves DEF Pool
<1>8. Records(a, o)
  <2>1. /\ a.pFreeQueueHead = m.pFreeQueueHead
        /\ a.pFreeQueueTail = m.pFreeQueueTail
    BY <1>3 DEF Freed, Area
  <2>2. /\ a.queue[q].pNext = m.queue[q].pNext
        /\ \A p \in Queues \ {q} : a.queue[p] = m.queue[p]
    BY <1>1, <1>3, FreedCounts
  <2> HIDE DEF a
  <2> QED BY <2>1, <2>2, SameRecords DEF Pool
<1>9. \A p \in Queues \ {q} : H2[p] = H[p]
  BY <1>3 DEF Hands, With, Without
<1>10. Laid(a, H2)
  <2> HIDE DEF a, H2
  <2> QED BY <1>5 DEF Laid
<1>11. Pool(a, o, H2)
  <2> HIDE DEF a, H2
  <2> QED BY <1>7, <1>8, <1>9, <1>10, TwoQueues DEF Pool, Usable
<1> QED BY <1>6, <1>11

\* DRV_SPI_SYS_QUEUE_Enqueue on a whole pool.
LEMMA PoolEnqueue ==
    ASSUME NEW m, NEW o, NEW H, NEW q, NEW e \in H[q], Usable(q, o),
           Pool(m, o, H)
    PROVE  LET a == Enqueued(m, q, e)
           IN /\ Pool(a, o, Without(H, q, e))
              /\ Contents(a, q) = Append(Contents(m, q), e)
              /\ \A p \in Queues \ {q} : Contents(a, p) = Contents(m, p)
<1> DEFINE a  == Enqueued(m, q, e)
           H2 == Without(H, q, e)
<1>1. q \in Queues /\ q \in {Q, OtherQ}
  BY UsableQueue
<1>2. PICK F, C : Layout(m, F, C, H)
  BY DEF Pool, Laid
<1> DEFINE C2 == [C EXCEPT ![q] = Append(@, e)]
<1>3. m \in Area /\ H \in Hands /\ e \in Elements /\ DOMAIN C = Queues
  BY <1>1, <1>2 DEF Layout, Hands
<1>4. Layout(a, F, C2, H2)
  BY <1>1, <1>2, EnqueueLayout DEF With, Without
<1>5. \A p \in Queues : C[p] = Contents(m, p) /\ C2[p] = Contents(a, p)
  BY <1>2, <1>4, LayoutIs
<1>6. C2[q] = Append(C[q], e) /\ \A p \in Queues \ {q} : C2[p] = C[p]
  BY <1>1, <1>3
<1>7. /\ a.numFree = m.numFree
      /\ a.numReserve = m.numReserve
      /\ a.pFreeQueueHead = m.pFreeQueueHead
      /\ a.pFreeQueueTail = m.pFreeQueueTail
      /\ a.queue[q].pNext = m.queue[q].pNext
      /\ a.queue[q].numAlloc = m.queue[q].numAlloc
      /\ a.queue[q].numReserved = m.queue[q].numReserved
      /\ \A p \in Queues \ {q} : a.queue[p] = m.queue[p]
  <2>0. m \in Area /\ q \in Queues /\ e \in Elements
    BY <1>1, <1>3
  <2>1. PICK b : b = a
    OBVIOUS
  <2>2. b.numFree = m.numFree /\ b.numReserve = m.numReserve
    BY <2>0, <2>1 DEF Enqueued, Area, Queue
  <2>3. /\ b.pFreeQueueHead = m.pFreeQueueHead
        /\ b.pFreeQueueTail = m.pFreeQueueTail
    BY <2>0, <2>1 DEF Enqueued, Area, Queue
  <2>4. /\ b.queue[q].pNext = m.queue[q].pNext
        /\ b.queue[q].numAlloc = m.queue[q].numAlloc
        /\ b.queue[q].numReserved = m.queue[q].numReserved
        /\ \A p \in Queues \ {q} : b.queue[p] = m.queue[p]
    BY <2>0, <2>1 DEF Enqueued, Area, Queue
  <2> QED BY <2>1, <2>2, <2>3, <2>4
<1> HIDE DEF a, H2, C2
<1>8. Reserves(a, o)
  BY <1>7, SameReserves DEF Pool
<1>9. Records(a, o)
  BY <1>7, SameRecords DEF Pool
<1>10. \A p \in Queues \ {q} : H2[p] = H[p]
  BY <1>3 DEF Hands, H2, With, Without
<1>11. Laid(a, H2)
  BY <1>4 DEF Laid
<1>12. Pool(a, o, H2)
  BY <1>8, <1>9, <1>10, <1>11, TwoQueues DEF Pool, Usable
<1> QED BY <1>1, <1>5, <1>6, <1>12 DEF a, H2

\* DRV_SPI_SYS_QUEUE_Dequeue on a whole pool.
LEMMA PoolDequeue ==
    ASSUME NEW m, NEW o, NEW H, NEW q, Usable(q, o), Pool(m, o, H),
           ~IsEmpty(m, q)
    PROVE  LET h == m.queue[q].pHead
               a == Dequeued(m, q)
           IN /\ h \in Elements
              /\ Contents(m, q) # <<>> /\ h = Contents(m, q)[1]
              /\ \A p \in Queues : h \notin H[p]
              /\ Pool(a, o, With(H, q, h))
              /\ Contents(a, q) = Tail(Contents(m, q))
              /\ \A p \in Queues \ {q} : Contents(a, p) = Contents(m, p)
<1> DEFINE h  == m.queue[q].pHead
           a  == Dequeued(m, q)
           H2 == With(H, q, h)
<1>1. q \in Queues /\ q \in {Q, OtherQ}
  BY UsableQueue
<1>2. PICK F, C : Layout(m, F, C, H)
  BY DEF Pool, Laid
<1> DEFINE C2 == [C EXCEPT ![q] = Tail(@)]
<1>3. m \in Area /\ H \in Hands /\ DOMAIN C = Queues
  BY <1>2 DEF Layout
<1>4. h # NULL
  BY DEF IsEmpty
<1>5. /\ h \in Elements /\ On(h, C[q]) /\ h = C[q][1]
      /\ C[q] # <<>>
      /\ Layout(a, F, C2, H2)
  <2>1. q \in Queues
    BY <1>1
  <2>2. h \in Elements /\ On(h, C[q]) /\ h = C[q][1] /\ C[q] # <<>>
    <3>1. Linked(m.pNext, h, C[q])
      BY <1>2, <2>1 DEF Layout, QueueLinked
    <3>2. C[q] # <<>> /\ h \in Elements /\ Len(C[q]) \in Nat /\ Len(C[q]) # 0
      BY <3>1, <1>4, LinkedSeq
    <3>3. h = C[q][1]
      BY <3>1, <3>2 DEF Linked
    <3>4. 1 \in 1 .. Len(C[q])
      BY <3>2
    <3> HIDE DEF h
    <3> QED BY <3>2, <3>3, <3>4 DEF On
  <2>3. Layout(a, F, C2, H2)
    BY <1>2, <1>4, <2>1, DequeueLayout DEF With
  <2> QED BY <2>2, <2>3
<1>6. \A p \in Queues : h \notin H[p]
  <2>1. PICK own : Owned(own, F, C, H)
    BY <1>2 DEF Layout, Placed
  <2>2. own[h] = q
    BY <2>1, <1>1, <1>5 DEF Owned
  <2> QED BY <2>1, <2>2, <1>1, <1>5 DEF Owned
<1>7. \A p \in Queues : C[p] = Contents(m, p) /\ C2[p] = Contents(a, p)
  BY <1>2, <1>5, LayoutIs
<1>8. C2[q] = Tail(C[q]) /\ \A p \in Queues \ {q} : C2[p] = C[p]
  BY <1>1, <1>3
<1>9. /\ a.numFree = m.numFree
      /\ a.numReserve = m.numReserve
      /\ a.pFreeQueueHead = m.pFreeQueueHead
      /\ a.pFreeQueueTail = m.pFreeQueueTail
      /\ a.queue[q].pNext = m.queue[q].pNext
      /\ a.queue[q].numAlloc = m.queue[q].numAlloc
      /\ a.queue[q].numReserved = m.queue[q].numReserved
      /\ \A p \in Queues \ {q} : a.queue[p] = m.queue[p]
  BY <1>1, <1>3, DequeuedFields
<1> HIDE DEF a, H2, C2
<1>10. Reserves(a, o)
  BY <1>9, SameReserves DEF Pool
<1>11. Records(a, o)
  BY <1>9, SameRecords DEF Pool
<1>12. \A p \in Queues \ {q} : H2[p] = H[p]
  BY <1>3 DEF Hands, H2, With, Without
<1>13. Laid(a, H2)
  BY <1>5 DEF Laid
<1>14. Pool(a, o, H2)
  BY <1>10, <1>11, <1>12, <1>13, TwoQueues DEF Pool, Usable
<1> QED BY <1>1, <1>5, <1>6, <1>7, <1>8, <1>14 DEF a, H2

\* The second client's queue is created.
LEMMA PoolCreate ==
    ASSUME NEW m, NEW H, NEW reserve \in 0 .. NumElements,
           NEW max \in 0 .. NumElements, Pool(m, FALSE, H), CanCreate(m, reserve)
    PROVE  /\ Pool(Created(m, reserve, max), TRUE, H)
           /\ \A p \in Queues : Contents(Created(m, reserve, max), p) = Contents(m, p)
<1> DEFINE a == Created(m, reserve, max)
<1>1. m.pFreeQueueHead = OtherQ /\ Records(m, FALSE) /\ Reserves(m, FALSE)
  BY DEF Pool, Records
<1>2. PICK F, C : Layout(m, F, C, H)
  BY DEF Pool, Laid
<1>3. m \in Area
  BY <1>2 DEF Layout
<1>4. C[OtherQ] = <<>>
  <2>1. Linked(m.pNext, m.queue[OtherQ].pHead, C[OtherQ])
    BY <1>2, TwoQueues DEF Layout, QueueLinked
  <2> QED BY <2>1, <1>1, LinkedSeq DEF Records
<1>5. Layout(a, F, C, H)
  BY <1>1, <1>2, <1>4, CreateLayout DEF Pool
<1>6. \A p \in Queues : C[p] = Contents(m, p) /\ C[p] = Contents(a, p)
  BY <1>2, <1>5, LayoutIs
<1>7. /\ a.numFree = m.numFree
      /\ a.numReserve = m.numReserve + reserve
      /\ a.pFreeQueueHead = m.queue[OtherQ].pNext
      /\ a.pFreeQueueTail = IF m.queue[OtherQ].pNext = NULL THEN NULL
                            ELSE m.pFreeQueueTail
      /\ a.queue[OtherQ].pNext = NULL
      /\ a.queue[OtherQ].numAlloc = 0
      /\ a.queue[OtherQ].numReserved = reserve
      /\ \A p \in Queues \ {OtherQ} : a.queue[p] = m.queue[p]
  BY <1>1, <1>3, TwoQueues, CreatedFields
<1> HIDE DEF a
<1>8. Reserves(a, TRUE)
  <2>1. a.queue[Q] = m.queue[Q]
    BY <1>7, TwoQueues
  <2>2. Claim(a, Q) = Claim(m, Q)
    BY <2>1 DEF Claim, BelowReserve
  <2>3. Claim(a, OtherQ) = reserve
    BY <1>7 DEF Claim, BelowReserve
  <2>4. /\ m.numReserve = Claim(m, Q)
        /\ m.numReserve + reserve <= m.numFree
    <3>1. Claim(m, Q) \in Nat
      BY <1>3, TwoQueues, QueueNumbers
    <3> QED BY <1>1, <3>1 DEF Reserves, CanCreate
  <2> QED BY <1>7, <2>2, <2>3, <2>4 DEF Reserves
<1>9. Records(a, TRUE)
  BY <1>1, <1>7, TwoQueues, NullIsNoQueue, SpiQueueAssumption, SpiDriverAssumption
     DEF Records, NextFree, NULL, Queues, Q, OtherQ
<1>10. Laid(a, H)
  BY <1>5 DEF Laid
<1> QED BY <1>6, <1>8, <1>9, <1>10 DEF Pool, a

\* The second client's queue, empty, is destroyed.
LEMMA PoolDestroy ==
    ASSUME NEW m, NEW H, Pool(m, TRUE, H), IsEmpty(m, OtherQ), H[OtherQ] = {}
    PROVE  /\ Pool(Destroyed(m, OtherQ), FALSE, H)
           /\ \A p \in Queues : Contents(Destroyed(m, OtherQ), p) = Contents(m, p)
<1> DEFINE a == Destroyed(m, OtherQ)
<1>1. Records(m, TRUE) /\ Reserves(m, TRUE)
  BY DEF Pool
<1>2. PICK F, C : Layout(m, F, C, H)
  BY DEF Pool, Laid
<1>3. m \in Area
  BY <1>2 DEF Layout
<1>4. m.queue[OtherQ].numAlloc = 0
  <2>1. Linked(m.pNext, m.queue[OtherQ].pHead, C[OtherQ])
    BY <1>2, TwoQueues DEF Layout, QueueLinked
  <2>2. Len(C[OtherQ]) = 0
    BY <2>1, LinkedSeq DEF IsEmpty
  <2>3. Cardinality(H[OtherQ]) = 0
    BY HandCount
  <2>4. m.queue[OtherQ].numAlloc = Len(C[OtherQ]) + Cardinality(H[OtherQ])
    <3>1. \A p \in Queues :
            m.queue[p].numAlloc = Len(C[p]) + Cardinality(H[p])
      BY <1>2, CountTypes
    <3> QED BY <3>1, TwoQueues
  <2> QED BY <2>2, <2>3, <2>4
<1>5. Claim(m, OtherQ) = m.queue[OtherQ].numReserved
  <2>1. m.queue[OtherQ].numReserved \in Nat
    BY <1>3, TwoQueues, QueueNumbers
  <2> QED BY <2>1, <1>4 DEF Claim, BelowReserve
<1>6. /\ Claim(m, Q) \in Nat /\ Claim(m, OtherQ) \in Nat
      /\ m.numReserve \in Nat /\ m.numFree \in Nat
  BY <1>3, TwoQueues, QueueNumbers
<1>7. m.queue[OtherQ].numReserved <= m.numReserve
  BY <1>1, <1>5, <1>6 DEF Reserves
<1>8. Layout(a, F, C, H)
  BY <1>2, <1>7, TwoQueues, DestroyLayout
<1>9. \A p \in Queues : C[p] = Contents(m, p) /\ C[p] = Contents(a, p)
  BY <1>2, <1>8, LayoutIs
<1>10. /\ a.numFree = m.numFree
       /\ a.numReserve = m.numReserve - m.queue[OtherQ].numReserved
       /\ a.pFreeQueueHead = OtherQ
       /\ a.pFreeQueueTail = IF m.pFreeQueueTail = NULL THEN OtherQ
                             ELSE m.pFreeQueueTail
       /\ \A p \in Queues :
            a.queue[p] = IF p = OtherQ /\ m.pFreeQueueTail # NULL
                         THEN [m.queue[OtherQ] EXCEPT !.pNext = m.pFreeQueueHead]
                         ELSE m.queue[p]
  BY <1>3, TwoQueues, DestroyedFields
<1> HIDE DEF a
<1>11. Reserves(a, FALSE)
  <2>1. a.queue[Q] = m.queue[Q]
    BY <1>10, TwoQueues
  <2>2. Claim(a, Q) = Claim(m, Q)
    BY <2>1 DEF Claim, BelowReserve
  <2> QED BY <1>1, <1>5, <1>6, <1>10, <2>2 DEF Reserves
<1>12. Records(a, FALSE)
  <2>1. m.queue[OtherQ] \in Queue
    BY <1>3, TwoQueues DEF Area
  <2>2. /\ a.queue[OtherQ].pHead = m.queue[OtherQ].pHead
        /\ a.queue[OtherQ].pNext = IF m.pFreeQueueTail # NULL
                                   THEN m.pFreeQueueHead
                                   ELSE m.queue[OtherQ].pNext
        /\ \A p \in Queues \ {OtherQ} : a.queue[p] = m.queue[p]
    BY <2>1, <1>10, TwoQueues DEF Queue
  <2>3. OtherQ # NULL /\ NumQueues \in Nat /\ NumQueues >= 2
    BY SpiQueueAssumption, SpiDriverAssumption DEF OtherQ, NULL
  <2>4. a.queue[OtherQ].pNext = NextFree
    BY <2>2, <2>3, <1>1 DEF Records, NextFree
  <2>5. NumQueues > 2 => a.pFreeQueueTail # NULL
    BY <2>3, <1>10
  <2> QED BY <2>2, <2>4, <2>5, <1>1, <1>10, TwoQueues DEF Records, IsEmpty
<1>13. Laid(a, H)
  BY <1>8 DEF Laid
<1> QED BY <1>9, <1>11, <1>12, <1>13 DEF Pool, a
----------------------------------------------------------------------------
\* What a whole pool gives its clients.
LEMMA LinkedList ==
    ASSUME NEW m, NEW head, NEW s, Linked(m.pNext, head, s)
    PROVE  /\ IsInjective(s)
           /\ \A e : e \in Range(s) <=> On(e, s)
           /\ Range(s) \subseteq Elements
           /\ s # <<>> => m.pNext[s[Len(s)]] = NULL
<1>1. /\ s \in Seq(Elements) /\ DOMAIN s = 1 .. Len(s)
      /\ \A i \in 1 .. Len(s) : s[i] \in Elements
      /\ s # <<>> => Len(s) \in 1 .. Len(s)
  BY LinkedSeq DEF Linked
<1>2. IsInjective(s)
  BY <1>1 DEF Linked, IsInjective
<1>3. \A e : e \in Range(s) <=> On(e, s)
  BY <1>1 DEF Range, On
<1>4. s # <<>> => m.pNext[s[Len(s)]] = NULL
  BY <1>1 DEF Linked
<1> QED BY <1>1, <1>2, <1>3, <1>4 DEF On

\* The elements of the queues that are not open are nowhere.
LEMMA LayoutUsed ==
    ASSUME NEW m, NEW o, NEW F, NEW C, NEW H, NEW p \in Queues,
           Pool(m, o, H), Layout(m, F, C, H), ~Usable(p, o)
    PROVE  \A e : ~On(e, C[p]) /\ e \notin H[p]
<1>1. m.queue[p].pHead = NULL /\ H[p] = {}
  BY DEF Usable, Pool, Records
<1>2. Linked(m.pNext, m.queue[p].pHead, C[p])
  BY DEF Layout, QueueLinked
<1>3. Len(C[p]) = 0
  BY <1>1, <1>2, LinkedSeq
<1> QED BY <1>1, <1>3 DEF On

LEMMA PoolPlaces ==
    ASSUME NEW m, NEW o, NEW H, NEW open, Pool(m, o, H),
           \A q : q \in open <=> Usable(q, o)
    PROVE  PoolIsWhole(m, open, H)
<1>1. PICK F, C : Layout(m, F, C, H)
  BY DEF Pool, Laid
<1>2. PICK own : Owned(own, F, C, H)
  BY <1>1 DEF Layout, Placed
<1>3. /\ F = FreeList(m) /\ \A q \in Queues : C[q] = Contents(m, q)
  BY <1>1, LayoutIs
<1>4. \A q \in open : q \in Queues
  BY UsableQueue
<1>5. /\ Linked(m.pNext, m.pFreeHead, F)
      /\ F # <<>> => m.pFreeTail = F[Len(F)]
      /\ \A q \in Queues : /\ Linked(m.pNext, m.queue[q].pHead, C[q])
                           /\ C[q] # <<>> => m.queue[q].pTail = C[q][Len(C[q])]
      /\ H \in Hands
  BY <1>1 DEF Layout, FreeLinked, QueueLinked
<1>6. IsList(m, m.pFreeTail, F)
  BY <1>5, LinkedList DEF IsList
<1>7. \A q \in Queues : IsList(m, m.queue[q].pTail, C[q])
  BY <1>5, LinkedList DEF IsList
<1>8. \A e \in Elements : e \in Range(F) <=> own[e] = NULL
  BY <1>2, <1>5, LinkedList DEF Owned
<1>9. \A q \in Queues, e \in Elements :
        /\ own[e] = q <=> e \in Range(C[q]) \/ e \in H[q]
        /\ ~(e \in Range(C[q]) /\ e \in H[q])
  <2>1. ASSUME NEW q \in Queues, NEW e \in Elements
        PROVE  e \in Range(C[q]) <=> On(e, C[q])
    BY <1>5, LinkedList
  <2> QED BY <2>1, <1>2 DEF Owned
<1>10. /\ Range(F) \subseteq Elements
       /\ \A q \in Queues : Range(C[q]) \subseteq Elements /\ H[q] \subseteq Elements
  BY <1>5, LinkedList DEF Hands
<1>11. \A e \in Elements : own[e] = NULL \/ own[e] \in open
  <2>1. SUFFICES ASSUME NEW e \in Elements, own[e] \in Queues, ~Usable(own[e], o)
                 PROVE  FALSE
    BY <1>2 DEF Owned
  <2>2. ~On(e, C[own[e]]) /\ e \notin H[own[e]]
    BY <2>1, <1>1, LayoutUsed
  <2> QED BY <2>1, <2>2, <1>2 DEF Owned
<1>12. /\ m.numFree = Len(F)
       /\ \A q \in Queues : m.queue[q].numAlloc = Len(C[q]) + Cardinality(H[q])
  BY <1>1, CountTypes
<1> DEFINE list == [q \in open |-> Contents(m, q)]
           used == [q \in open |-> Range(list[q]) \cup H[q]]
<1>13. \A q \in open : list[q] = C[q] /\ used[q] = Range(C[q]) \cup H[q]
  BY <1>3, <1>4
<1> HIDE DEF list, used
<1>14. \A q \in open : /\ used[q] \subseteq Elements
                       /\ \A e \in Elements : e \in used[q] <=> own[e] = q
  BY <1>4, <1>9, <1>10, <1>13
<1>15. Range(F) \cup UNION {used[q] : q \in open} = Elements
  <2>1. \A e \in Elements : e \in Range(F) \/ \E q \in open : e \in used[q]
    BY <1>8, <1>11, <1>14
  <2>2. \A e \in UNION {used[q] : q \in open} : e \in Elements
    BY <1>14
  <2> QED BY <2>1, <2>2, <1>10
<1>16. ASSUME NEW q \in open
       PROVE  /\ IsList(m, m.queue[q].pTail, list[q])
              /\ m.queue[q].numAlloc = Len(list[q]) + Cardinality(H[q])
              /\ Range(list[q]) \cap H[q] = {}
              /\ Range(F) \cap used[q] = {}
              /\ \A p \in open \ {q} : used[p] \cap used[q] = {}
  <2>1. q \in Queues /\ q # NULL /\ list[q] = C[q]
    BY <1>4, <1>13, NullIsNoQueue
  <2>2. Range(C[q]) \cap H[q] = {}
    BY <2>1, <1>9, <1>10
  <2>3. Range(F) \cap used[q] = {}
    BY <2>1, <1>8, <1>10, <1>14
  <2>4. \A p \in open \ {q} : used[p] \cap used[q] = {}
    BY <1>14
  <2> QED BY <2>1, <2>2, <2>3, <2>4, <1>7, <1>12
<1> QED BY <1>3, <1>6, <1>12, <1>15, <1>16 DEF PoolIsWhole, list, used

\* A queue that has less than it reserved, and not its maximum, can take an
\* element.
LEMMA PoolHonours ==
    ASSUME NEW m, NEW o, NEW H, NEW q, Usable(q, o), Pool(m, o, H),
           BelowReserve(m, q), m.queue[q].numAlloc # m.queue[q].maxElements
    PROVE  CanAlloc(m, q)
<1>1. PICK F, C : Layout(m, F, C, H)
  BY DEF Pool, Laid
<1>2. m \in Area
  BY <1>1 DEF Layout
<1>3. m.numReserve > 0 /\ m.numReserve \in Nat
  BY <1>2, ClaimCounted, UsableQueue, QueueNumbers DEF Pool
<1>4. m.numReserve <= m.numFree /\ m.numFree = Len(F) /\ m.numFree \in Nat
  BY <1>1, CountTypes DEF Pool, Reserves
<1>5. Len(F) # 0
  BY <1>3, <1>4
<1>6. m.pFreeHead # NULL
  <2>1. Linked(m.pNext, m.pFreeHead, F)
    BY <1>1 DEF Layout, FreeLinked
  <2> QED BY <2>1, <1>5, LinkedSeq
<1>7. IsValid(m, q)
  BY DEF Usable, Pool, Records, IsValid
<1> QED BY <1>6, <1>7 DEF CanAlloc
----------------------------------------------------------------------------
\* DRV_SPI_SYS_QUEUE_Initialize gives a whole pool.
LEMMA InitialLayout ==
    LET F == [i \in 1 .. NumElements |-> i]
        C == [q \in Queues |-> <<>>]
        H == [q \in Queues |-> {}]
    IN Layout(Initialized, F, C, H)
<1> DEFINE F == [i \in 1 .. NumElements |-> i]
           C == [q \in Queues |-> <<>>]
           H == [q \in Queues |-> {}]
           own == [e \in Elements |-> NULL]
<1> USE SpiQueueAssumption
<1>1. PICK m : m = Initialized
  OBVIOUS
<1>2. /\ m.pNext = [e \in Elements |-> IF e < NumElements THEN e + 1 ELSE NULL]
      /\ m.pFreeHead = 1 /\ m.pFreeTail = NumElements
      /\ m.numFree = NumElements /\ m.numReserve = 0
      /\ m.pFreeQueueHead = 1 /\ m.pFreeQueueTail = NumQueues
      /\ m.queue = [q \in Queues |->
                      [BlankQueue EXCEPT !.pNext = IF q < NumQueues THEN q + 1
                                                   ELSE NULL]]
  BY <1>1 DEF Initialized
<1>3. \A q \in Queues : /\ m.queue[q] \in Queue
                        /\ m.queue[q].pHead = NULL
                        /\ m.queue[q].numAlloc = 0
  BY <1>2 DEF Queue, BlankQueue, Queues, NULL
<1>4. m \in Area
  <2>1. m.pNext \in [Elements -> Elements \cup {NULL}]
    BY <1>2 DEF Elements
  <2>2. m.queue \in [Queues -> Queue]
    BY <1>2, <1>3
  <2>3. m = [pNext |-> m.pNext, pFreeHead |-> 1, pFreeTail |-> NumElements,
             numFree |-> NumElements, numReserve |-> 0,
             pFreeQueueHead |-> 1, pFreeQueueTail |-> NumQueues,
             queue |-> m.queue]
    BY <1>1, <1>2 DEF Initialized
  <2> QED BY <2>1, <2>2, <2>3 DEF Area, Elements, Queues
<1>5. F \in Seq(Elements) /\ Len(F) = NumElements /\ F # <<>>
      /\ \A i \in 1 .. NumElements : F[i] = i
  BY DEF Elements
<1> HIDE DEF F
<1>6. FreeLinked(m, F)
  BY <1>2, <1>5 DEF FreeLinked, Linked, Elements
<1>7. \A q \in Queues : QueueLinked(m, q, <<>>)
  BY <1>3 DEF QueueLinked, Linked
<1>8. Placed(F, C, H)
  <2>1. \A e \in Elements : On(e, F)
    BY <1>5 DEF On, Elements
  <2>2. \A q \in Queues, e \in Elements : ~On(e, C[q]) /\ e \notin H[q]
    BY DEF On
  <2>3. own \in [Elements -> Queues \cup {NULL}] /\ \A e \in Elements : own[e] = NULL
    OBVIOUS
  <2> HIDE DEF own, C, H
  <2>4. Owned(own, F, C, H)
    BY <2>1, <2>2, <2>3, NullIsNoQueue DEF Owned
  <2> QED BY <2>4 DEF Placed
<1>9. Counted(m, F, C, H)
  <2>1. Cardinality({}) = 0
    BY FS_EmptySet
  <2> QED BY <2>1, <1>2, <1>3, <1>5, TwoQueues DEF Counted
<1>10. DOMAIN C = Queues /\ H \in Hands
  BY DEF Hands
<1>11. \A q \in Queues : \A e \in H[q] : m.pNext[e] = NULL
  OBVIOUS
<1>12. \A q \in Queues : QueueLinked(m, q, C[q])
  BY <1>7
<1> HIDE DEF C, H
<1>13. Layout(m, F, C, H)
  BY <1>4, <1>6, <1>8, <1>9, <1>10, <1>11, <1>12 DEF Layout
<1> QED BY <1>1, <1>13 DEF F, C, H

LEMMA PoolInit ==
    LET m == Created(Initialized, Reserve, MaxJobs)
        H == [q \in Queues |-> {}]
    IN Pool(m, FALSE, H) /\ Contents(m, Q) = <<>>
<1> DEFINE i == Initialized
           F == [n \in 1 .. NumElements |-> n]
           C == [q \in Queues |-> <<>>]
           H == [q \in Queues |-> {}]
<1> USE SpiQueueAssumption, SpiDriverAssumption
<1>1. PICK a : a = Created(i, Reserve, MaxJobs)
  OBVIOUS
<1>2. Layout(i, F, C, H)
  BY InitialLayout
<1>3. /\ i \in Area /\ i.pFreeQueueHead = Q /\ CanCreate(i, Reserve)
      /\ i.numReserve = 0 /\ i.numFree = NumElements
      /\ i.pFreeQueueTail = NumQueues
      /\ i.queue[Q].pNext = 2
  <2>1. i \in Area
    BY <1>2 DEF Layout
  <2> QED BY <2>1 DEF Initialized, CanCreate, Q, NULL, Queues
<1>4. i.queue[OtherQ].pNext = NextFree
  BY TwoQueues DEF Initialized, NextFree, OtherQ, BlankQueue
<1>5. \A p \in Queues : i.queue[p].pHead = NULL
  BY DEF Initialized, BlankQueue
<1> HIDE DEF i, F
<1>6. Layout(a, F, C, H)
  <2>1. C[i.pFreeQueueHead] = <<>> /\ H[i.pFreeQueueHead] = {}
    BY <1>3, TwoQueues
  <2>2. Reserve \in 0 .. NumElements /\ MaxJobs \in 0 .. NumElements
    OBVIOUS
  <2> HIDE DEF C, H
  <2> QED BY <1>1, <1>2, <1>3, <2>1, <2>2, CreateLayout
<1>7. /\ a.numFree = i.numFree
      /\ a.numReserve = i.numReserve + Reserve
      /\ a.pFreeQueueHead = 2
      /\ a.pFreeQueueTail = NumQueues
      /\ a.queue[Q].pHead = NULL /\ a.queue[Q].pNext = NULL
      /\ a.queue[Q].numAlloc = 0
      /\ a.queue[Q].numReserved = Reserve
      /\ \A p \in Queues \ {Q} : a.queue[p] = i.queue[p]
  <2>1. Reserve \in 0 .. NumElements /\ MaxJobs \in 0 .. NumElements
    OBVIOUS
  <2>2. i.pFreeQueueHead \in Queues
    BY <1>3, TwoQueues
  <2>3. 2 # NULL
    BY DEF NULL
  <2> HIDE SpiQueueAssumption, SpiDriverAssumption
  <2> QED BY <1>1, <1>3, <2>1, <2>2, <2>3, CreatedFields
<1>8. Reserves(a, FALSE)
  <2>1. Claim(a, Q) = Reserve
    BY <1>7 DEF Claim, BelowReserve
  <2>2. Claim(a, OtherQ) \in Nat
    BY <1>6, TwoQueues, QueueNumbers DEF Layout
  <2> QED BY <2>1, <2>2, <1>3, <1>7 DEF Reserves
<1>9. Records(a, FALSE)
  <2>1. a.queue[OtherQ].pNext = NextFree /\ a.queue[OtherQ].pHead = NULL
    BY <1>4, <1>5, <1>7, TwoQueues
  <2>2. \A p \in Queues \ {Q, OtherQ} : a.queue[p].pHead = NULL
    BY <1>5, <1>7
  <2>3. a.pFreeQueueHead = OtherQ
    BY <1>7 DEF OtherQ
  <2>4. a.pFreeQueueTail # NULL
    BY <1>7 DEF NULL
  <2> QED BY <2>1, <2>2, <2>3, <2>4, <1>7 DEF Records
<1>10. Laid(a, H)
  <2> HIDE DEF C, H
  <2> QED BY <1>6 DEF Laid
<1>11. Pool(a, FALSE, H)
  BY <1>8, <1>9, <1>10, TwoQueues DEF Pool
<1>12. Contents(a, Q) = <<>>
  <2>1. Contents(a, Q) = C[Q]
    BY <1>6, TwoQueues, LayoutIs
  <2> QED BY <2>1, TwoQueues
<1> QED BY <1>1, <1>11, <1>12 DEF i
----------------------------------------------------------------------------
\* The pool whenever the driver is between two steps: the element in the hands
\* of the driver's client is the job in progress.
PoolInv ==
    /\ Pool(mem, other.open, Held)
    /\ currentJob \in Elements \cup {NULL}
    /\ other \in [open : BOOLEAN, held : SUBSET Elements]
    /\ pc \in Places
    /\ pc = "destroy" => other.open /\ other.held = {}
    /\ pc \in {"send", "error", "receive", "callback", "free",
              "errorCallback", "errorFree"} =>
         currentJob # NULL

\* Held, of any driver's job and any hands of the second client.
HeldBy(c, h) == [q \in Queues |-> IF q = Q THEN {c} \ {NULL}
                                  ELSE IF q = OtherQ THEN h ELSE {}]

LEMMA HeldIs == Held = HeldBy(currentJob, other.held)
<1> QED BY DEF Held, HeldBy

\* The hands of one client change and those of the other do not.
LEMMA OtherTakes ==
    ASSUME NEW c, NEW h, NEW e
    PROVE  With(HeldBy(c, h), OtherQ, e) = HeldBy(c, h \cup {e})
<1> QED BY TwoQueues DEF HeldBy, With

LEMMA OtherGives ==
    ASSUME NEW c, NEW h, NEW e
    PROVE  Without(HeldBy(c, h), OtherQ, e) = HeldBy(c, h \ {e})
<1> QED BY TwoQueues DEF HeldBy, Without

LEMMA DriverTakes ==
    ASSUME NEW h, NEW e \in Elements
    PROVE  With(HeldBy(NULL, h), Q, e) = HeldBy(e, h)
<1> QED BY TwoQueues, NullIsNone DEF HeldBy, With

LEMMA DriverGives ==
    ASSUME NEW h, NEW e \in Elements
    PROVE  /\ e \in HeldBy(e, h)[Q]
           /\ Without(HeldBy(e, h), Q, e) = HeldBy(NULL, h)
<1> QED BY TwoQueues, NullIsNone DEF HeldBy, Without

\* A job is added: an element is taken and enqueued at once.
LEMMA PoolAdd ==
    ASSUME NEW m, NEW o, NEW H, Pool(m, o, H), CanAlloc(m, Q)
    PROVE  LET e == m.pFreeHead
               a == Enqueued(Allocated(m, Q), Q, e)
           IN /\ e \in Elements
              /\ \A p \in Queues : e \notin H[p] /\ ~On(e, Contents(m, p))
              /\ Pool(a, o, H)
              /\ Contents(a, Q) = Append(Contents(m, Q), e)
<1> DEFINE e  == m.pFreeHead
           b  == Allocated(m, Q)
           a  == Enqueued(b, Q, e)
           H2 == With(H, Q, e)
<1>1. Usable(Q, o) /\ Q \in Queues
  BY TwoQueues DEF Usable
<1>2. /\ e \in Elements
      /\ \A p \in Queues : e \notin H[p] /\ ~On(e, Contents(m, p))
      /\ Pool(b, o, H2)
      /\ Contents(b, Q) = Contents(m, Q)
  BY <1>1, PoolAlloc
<1>3. H \in Hands
  BY DEF Pool, Laid, Layout
<1>4. e \in H2[Q] /\ Without(H2, Q, e) = H
  BY <1>1, <1>2, <1>3 DEF Hands, With, Without
<1>5. /\ Pool(a, o, Without(H2, Q, e))
      /\ Contents(a, Q) = Append(Contents(b, Q), e)
  <2>1. Usable(Q, o) /\ Pool(b, o, H2) /\ e \in H2[Q]
    BY <1>1, <1>2, <1>4
  <2> HIDE DEF e, b, H2
  <2>2. Pool(a, o, Without(H2, Q, e))
    BY <2>1, PoolEnqueue
  <2>3. Contents(a, Q) = Append(Contents(b, Q), e)
    BY <2>1, <2>2, PoolEnqueue
  <2> QED BY <2>2, <2>3
<1> HIDE DEF b, H2
<1> QED BY <1>2, <1>4, <1>5 DEF b

\* The first element of the second client's queue is taken and freed.
LEMMA PoolDrain ==
    ASSUME NEW m, NEW o, NEW H, Usable(OtherQ, o), Pool(m, o, H),
           ~IsEmpty(m, OtherQ)
    PROVE  /\ Pool(Drained(m, OtherQ), o, H)
           /\ Contents(Drained(m, OtherQ), Q) = Contents(m, Q)
<1> DEFINE e  == m.queue[OtherQ].pHead
           b  == Dequeued(m, OtherQ)
           a  == Freed(b, OtherQ, e)
           H2 == With(H, OtherQ, e)
<1>1. OtherQ \in Queues /\ Q \in Queues /\ Q # OtherQ
  BY TwoQueues DEF Usable
<1>2. /\ e \in Elements
      /\ \A p \in Queues : e \notin H[p]
      /\ Pool(b, o, H2)
      /\ \A p \in Queues \ {OtherQ} : Contents(b, p) = Contents(m, p)
  <2>2. Pool(b, o, H2)
    BY PoolDequeue
  <2>3. e \in Elements /\ \A p \in Queues : e \notin H[p]
    BY <2>2, PoolDequeue
  <2>4. \A p \in Queues \ {OtherQ} : Contents(b, p) = Contents(m, p)
    BY <2>2, PoolDequeue
  <2> QED BY <2>2, <2>3, <2>4
<1>3. H \in Hands
  BY DEF Pool, Laid, Layout
<1>4. e \in H2[OtherQ] /\ Without(H2, OtherQ, e) = H
  BY <1>1, <1>2, <1>3 DEF Hands, With, Without
<1>5. /\ Pool(a, o, Without(H2, OtherQ, e))
      /\ \A p \in Queues : Contents(a, p) = Contents(b, p)
  <2>1. Usable(OtherQ, o) /\ Pool(b, o, H2) /\ e \in H2[OtherQ]
    BY <1>1, <1>2, <1>4
  <2> HIDE DEF e, b, H2
  <2>2. Pool(a, o, Without(H2, OtherQ, e))
    BY <2>1, PoolFree
  <2>3. \A p \in Queues : Contents(a, p) = Contents(b, p)
    BY <2>1, <2>2, PoolFree
  <2> QED BY <2>2, <2>3
<1> HIDE DEF b, H2
<1> QED BY <1>1, <1>2, <1>4, <1>5 DEF b, Drained

\* What the clients ask for: each of the three calls writes the job that
\* WriteReadJob writes for its two sizes.
Asks == Shapes \cup (Sizes \X {0}) \cup ({0} \X Sizes)

AddAsked(s) == Add(WriteReadJob(s[1], s[2]), s[1], s[2])

LEMMA AsksAre ==
    ASSUME NEW s \in Asks
    PROVE  s = <<s[1], s[2]>> /\ s[1] \in Nat /\ s[2] \in Nat
<1>1. Shapes \subseteq Nat \X Nat /\ Sizes \subseteq Nat
  BY SpiDriverAssumption
<1>2. CASE s \in Shapes
  BY <1>1, <1>2
<1>3. CASE s \in Sizes \X {0}
  <2>1. s = <<s[1], s[2]>> /\ s[1] \in Sizes /\ s[2] = 0
    BY <1>3
  <2> QED BY <2>1, <1>1
<1>4. CASE s \in {0} \X Sizes
  <2>1. s = <<s[1], s[2]>> /\ s[1] = 0 /\ s[2] \in Sizes
    BY <1>4
  <2> QED BY <2>1, <1>1
<1> QED BY <1>2, <1>3, <1>4 DEF Asks

\* Two jobs with the same fields are the same.
LEMMA SameJob ==
    ASSUME NEW j \in JobObject, NEW k \in JobObject,
           j.dataTxed = k.dataTxed, j.dataRxed = k.dataRxed,
           j.dataLeftToTx = k.dataLeftToTx, j.dummyLeftToTx = k.dummyLeftToTx,
           j.dataLeftToRx = k.dataLeftToRx, j.dummyLeftToRx = k.dummyLeftToRx,
           j.status = k.status
    PROVE  j = k
<1> QED BY DEF JobObject

LEMMA WriteReadJobIs ==
    ASSUME NEW t \in Nat, NEW r \in Nat
    PROVE  LET j == WriteReadJob(t, r)
           IN /\ j \in JobObject
              /\ j.dataTxed = 0 /\ j.dataRxed = 0
              /\ j.dataLeftToTx = t /\ j.dataLeftToRx = r
              /\ j.dummyLeftToTx = IF r > t THEN r - t ELSE 0
              /\ j.dummyLeftToRx = IF t > r THEN t - r ELSE 0
              /\ j.status = "PENDING"
<1>1. BlankJob \in JobObject
  BY DEF BlankJob, JobObject, Statuses
<1>2. /\ (IF r > t THEN r - t ELSE 0) \in Nat
      /\ (IF t > r THEN t - r ELSE 0) \in Nat
  OBVIOUS
<1>3. WriteReadJob(t, r) \in JobObject
  BY <1>1, <1>2 DEF WriteReadJob, JobObject, Statuses
<1> QED BY <1>3 DEF WriteReadJob, BlankJob

LEMMA ClientCases ==
    Client => \/ \E s \in Asks : AddAsked(s)
              \/ \E n \in BlockingSizes : Blocking_Start(n)
<1>1. ASSUME NEW n \in Sizes
      PROVE  /\ ReadJob(n) = WriteReadJob(0, n)
             /\ WriteJob(n) = WriteReadJob(n, 0)
  <2>1. n \in Nat
    BY SpiDriverAssumption
  <2>2. /\ (IF n > 0 THEN n - 0 ELSE 0) = n
        /\ (IF 0 > n THEN 0 - n ELSE 0) = 0
    BY <2>1
  <2>3. BlankJob \in JobObject
    BY DEF BlankJob, JobObject, Statuses
  <2>4. PICK j : j = ReadJob(n)
    OBVIOUS
  <2>5. PICK k : k = WriteReadJob(0, n)
    OBVIOUS
  <2>6. /\ j \in JobObject
        /\ j.dataTxed = 0 /\ j.dataRxed = 0
        /\ j.dataLeftToTx = 0 /\ j.dataLeftToRx = n
        /\ j.dummyLeftToTx = n /\ j.dummyLeftToRx = 0 /\ j.status = "PENDING"
    BY <2>1, <2>3, <2>4 DEF ReadJob, BlankJob, JobObject, Statuses
  <2>7. j = k
    <3>1. k \in JobObject
      BY <2>1, <2>5, WriteReadJobIs
    <3> QED BY <3>1, <2>1, <2>2, <2>5, <2>6, WriteReadJobIs, SameJob
  <2>8. PICK v : v = WriteJob(n)
    OBVIOUS
  <2>9. PICK w : w = WriteReadJob(n, 0)
    OBVIOUS
  <2>10. /\ v \in JobObject
         /\ v.dataTxed = 0 /\ v.dataRxed = 0
         /\ v.dataLeftToTx = n /\ v.dataLeftToRx = 0
         /\ v.dummyLeftToTx = 0 /\ v.dummyLeftToRx = n /\ v.status = "PENDING"
    BY <2>1, <2>3, <2>8 DEF WriteJob, BlankJob, JobObject, Statuses
  <2>11. v = w
    <3>1. w \in JobObject
      BY <2>1, <2>9, WriteReadJobIs
    <3> QED BY <3>1, <2>1, <2>2, <2>9, <2>10, WriteReadJobIs, SameJob
  <2> QED BY <2>4, <2>5, <2>7, <2>8, <2>9, <2>11
<1>2. BufferAddRead2 => \E s \in Asks : AddAsked(s)
  <2> SUFFICES ASSUME NEW n \in Sizes, Add(ReadJob(n), 0, n)
               PROVE  \E s \in Asks : AddAsked(s)
    BY DEF BufferAddRead2
  <2>1. AddAsked(<<0, n>>)
    BY <1>1 DEF AddAsked
  <2>2. <<0, n>> \in Asks
    BY DEF Asks
  <2> QED BY <2>1, <2>2
<1>3. BufferAddWrite2 => \E s \in Asks : AddAsked(s)
  <2> SUFFICES ASSUME NEW n \in Sizes, Add(WriteJob(n), n, 0)
               PROVE  \E s \in Asks : AddAsked(s)
    BY DEF BufferAddWrite2
  <2>1. AddAsked(<<n, 0>>)
    BY <1>1 DEF AddAsked
  <2>2. <<n, 0>> \in Asks
    BY DEF Asks
  <2> QED BY <2>1, <2>2
<1>4. BufferAddWriteRead2 => \E s \in Asks : AddAsked(s)
  BY DEF BufferAddWriteRead2, Asks, AddAsked
<1> QED BY <1>2, <1>3, <1>4
        DEF Client, DRV_SPI_BufferAddRead, DRV_SPI_BufferAddWrite,
            DRV_SPI_BufferAddRead2, DRV_SPI_BufferAddWrite2,
            DRV_SPI_BufferAddWriteRead2, DRV_SPI_BufferAddWriteRead,
            BufferAddRead, BufferAddWrite
----------------------------------------------------------------------------
\* The calls of the second client leave the driver's jobs where they are.
LEMMA OtherClientPool ==
    ASSUME PoolInv, OtherClient
    PROVE  /\ PoolInv' /\ Contents(mem, Q)' = Contents(mem, Q)
           /\ UNCHANGED <<job, asked, currentJob, symbolsInProgress,
                          moduleVars, blocking, received, clocked, done>>
           /\ pc = "client" \/ pc = "destroy"
           /\ pc' = "client" \/ pc' = "destroy"
<1> DEFINE o == other.open
           h == other.held
           c == currentJob
<1>1. /\ Pool(mem, o, HeldBy(c, h))
      /\ o \in BOOLEAN /\ h \in SUBSET Elements
      /\ other = [open |-> o, held |-> h]
      /\ c \in Elements \cup {NULL}
  BY HeldIs DEF PoolInv
<1>2. HeldBy(c, h)[OtherQ] = h
  BY TwoQueues DEF HeldBy
<1>3. ~o => h = {}
  BY <1>1, <1>2 DEF Pool
<1>4. h # {} => Usable(OtherQ, o)
  BY <1>3 DEF Usable
<1>5. SUFFICES /\ Pool(mem', other'.open, HeldBy(currentJob', other'.held))
               /\ other' \in [open : BOOLEAN, held : SUBSET Elements]
               /\ pc' = "destroy" => other'.open /\ other'.held = {}
               /\ Contents(mem', Q) = Contents(mem, Q)
               /\ UNCHANGED <<job, asked, currentJob, symbolsInProgress,
                              moduleVars, blocking, received, clocked, done>>
               /\ pc = "client" \/ pc = "destroy"
               /\ pc' = "client" \/ pc' = "destroy"
  <2>1. Held' = HeldBy(currentJob', other'.held)
    BY DEF Held, HeldBy
  <2> QED BY <2>1, <1>1 DEF PoolInv, Places
<1>6. ASSUME NEW s \in OtherSetups, Other_Create(s)
      PROVE  /\ mem' = Created(mem, s.reserve, s.max)
             /\ other' = [open |-> TRUE, held |-> h]
             /\ Pool(mem', TRUE, HeldBy(c, h))
             /\ Contents(mem', Q) = Contents(mem, Q)
  <2>1. s.reserve \in 0 .. NumElements /\ s.max \in 0 .. NumElements
    BY SpiDriverAssumption, SpiQueueAssumption
  <2>2. o = FALSE /\ CanCreate(mem, s.reserve)
    BY <1>1, <1>6 DEF Other_Create
  <2>3. mem' = Created(mem, s.reserve, s.max) /\ other' = [open |-> TRUE, held |-> h]
    BY <1>1, <1>6 DEF Other_Create
  <2>4. Pool(mem, FALSE, HeldBy(c, h))
    BY <1>1, <2>2
  <2> HIDE DEF o, h, c
  <2>5. Pool(mem', TRUE, HeldBy(c, h))
    BY <2>1, <2>2, <2>3, <2>4, PoolCreate
  <2>6. Contents(mem', Q) = Contents(mem, Q)
    BY <2>1, <2>2, <2>3, <2>4, <2>5, PoolCreate, TwoQueues
  <2> QED BY <2>3, <2>5, <2>6
<1>7. ASSUME Other_Alloc
      PROVE  /\ other' = [open |-> o, held |-> h \cup {mem.pFreeHead}]
             /\ mem.pFreeHead \in Elements
             /\ Pool(mem', o, HeldBy(c, h \cup {mem.pFreeHead}))
             /\ Contents(mem', Q) = Contents(mem, Q)
  <2> DEFINE e == mem.pFreeHead
  <2>1. /\ Usable(OtherQ, o) /\ CanAlloc(mem, OtherQ)
        /\ mem' = Allocated(mem, OtherQ)
        /\ other' = [open |-> o, held |-> h \cup {e}]
    BY <1>1, <1>7 DEF Other_Alloc, Usable
  <2> HIDE DEF o, h, c
  <2>2. /\ e \in Elements
        /\ Pool(mem', o, With(HeldBy(c, h), OtherQ, e))
        /\ \A p \in Queues : Contents(mem', p) = Contents(mem, p)
    BY <1>1, <2>1, PoolAlloc
  <2>3. With(HeldBy(c, h), OtherQ, e) = HeldBy(c, h \cup {e})
    BY OtherTakes
  <2> QED BY <2>1, <2>2, <2>3, TwoQueues
<1>8. ASSUME NEW e \in Elements, Other_Enqueue(e)
      PROVE  /\ other' = [open |-> o, held |-> h \ {e}]
             /\ Pool(mem', o, HeldBy(c, h \ {e}))
             /\ Contents(mem', Q) = Contents(mem, Q)
  <2>1. /\ e \in h /\ mem' = Enqueued(mem, OtherQ, e)
        /\ other' = [open |-> o, held |-> h \ {e}]
    BY <1>1, <1>8 DEF Other_Enqueue
  <2>2. Usable(OtherQ, o) /\ e \in HeldBy(c, h)[OtherQ]
    BY <1>2, <1>4, <2>1
  <2> HIDE DEF o, h, c
  <2>3. Pool(mem', o, Without(HeldBy(c, h), OtherQ, e))
    BY <1>1, <2>1, <2>2, PoolEnqueue
  <2>4. \A p \in Queues \ {OtherQ} : Contents(mem', p) = Contents(mem, p)
    BY <1>1, <2>1, <2>2, <2>3, PoolEnqueue
  <2>5. Without(HeldBy(c, h), OtherQ, e) = HeldBy(c, h \ {e})
    BY OtherGives
  <2> QED BY <2>1, <2>3, <2>4, <2>5, TwoQueues
<1>9. ASSUME NEW e \in Elements, Other_Free(e)
      PROVE  /\ other' = [open |-> o, held |-> h \ {e}]
             /\ Pool(mem', o, HeldBy(c, h \ {e}))
             /\ Contents(mem', Q) = Contents(mem, Q)
  <2>1. /\ e \in h /\ mem' = Freed(mem, OtherQ, e)
        /\ other' = [open |-> o, held |-> h \ {e}]
    BY <1>1, <1>9 DEF Other_Free
  <2>2. Usable(OtherQ, o) /\ e \in HeldBy(c, h)[OtherQ]
    BY <1>2, <1>4, <2>1
  <2> HIDE DEF o, h, c
  <2>3. Pool(mem', o, Without(HeldBy(c, h), OtherQ, e))
    BY <1>1, <2>1, <2>2, PoolFree
  <2>4. \A p \in Queues : Contents(mem', p) = Contents(mem, p)
    BY <1>1, <2>1, <2>2, <2>3, PoolFree
  <2>5. Without(HeldBy(c, h), OtherQ, e) = HeldBy(c, h \ {e})
    BY OtherGives
  <2> QED BY <2>1, <2>3, <2>4, <2>5, TwoQueues
<1>10. ASSUME Other_Dequeue
       PROVE  LET e == mem.queue[OtherQ].pHead
              IN /\ other' = [open |-> o, held |-> h \cup {e}]
                 /\ e \in Elements
                 /\ Pool(mem', o, HeldBy(c, h \cup {e}))
                 /\ Contents(mem', Q) = Contents(mem, Q)
  <2> DEFINE e == mem.queue[OtherQ].pHead
  <2>1. /\ Usable(OtherQ, o) /\ ~IsEmpty(mem, OtherQ)
        /\ mem' = Dequeued(mem, OtherQ)
        /\ other' = [open |-> o, held |-> h \cup {e}]
    BY <1>1, <1>10 DEF Other_Dequeue, Usable
  <2> HIDE DEF o, h, c
  <2>2. Pool(mem', o, With(HeldBy(c, h), OtherQ, e))
    BY <1>1, <2>1, PoolDequeue
  <2>3. e \in Elements
    BY <1>1, <2>1, <2>2, PoolDequeue
  <2>4. \A p \in Queues \ {OtherQ} : Contents(mem', p) = Contents(mem, p)
    BY <1>1, <2>1, <2>2, PoolDequeue
  <2>5. With(HeldBy(c, h), OtherQ, e) = HeldBy(c, h \cup {e})
    BY OtherTakes
  <2> QED BY <2>1, <2>2, <2>3, <2>4, <2>5, TwoQueues
<1>11. ASSUME Destroy_Loop, IsEmpty(mem, OtherQ)
       PROVE  /\ other' = [open |-> FALSE, held |-> h]
              /\ Pool(mem', FALSE, HeldBy(c, h))
              /\ Contents(mem', Q) = Contents(mem, Q)
  <2>1. /\ o = TRUE /\ h = {} /\ mem' = Destroyed(mem, OtherQ)
        /\ other' = [open |-> FALSE, held |-> h]
    BY <1>1, <1>11 DEF Destroy_Loop, PoolInv
  <2>2. Pool(mem, TRUE, HeldBy(c, h)) /\ HeldBy(c, h)[OtherQ] = {}
    BY <1>1, <1>2, <2>1
  <2> HIDE DEF o, h, c
  <2>3. Pool(mem', FALSE, HeldBy(c, h))
    BY <1>11, <2>1, <2>2, PoolDestroy
  <2>4. Contents(mem', Q) = Contents(mem, Q)
    BY <1>11, <2>1, <2>2, <2>3, PoolDestroy, TwoQueues
  <2> QED BY <2>1, <2>3, <2>4
<1>12. ASSUME Destroy_Loop, ~IsEmpty(mem, OtherQ)
       PROVE  /\ other' = other /\ pc' = pc
              /\ Pool(mem', o, HeldBy(c, h))
              /\ Contents(mem', Q) = Contents(mem, Q)
  <2>1. /\ o = TRUE /\ mem' = Drained(mem, OtherQ)
        /\ other' = other /\ pc' = pc
    BY <1>1, <1>12 DEF Destroy_Loop, PoolInv
  <2>2. Usable(OtherQ, o)
    BY <2>1 DEF Usable
  <2> HIDE DEF o, h, c
  <2>3. Pool(mem', o, HeldBy(c, h))
    BY <1>1, <1>12, <2>1, <2>2, PoolDrain
  <2>4. Contents(mem', Q) = Contents(mem, Q)
    BY <1>1, <1>12, <2>1, <2>2, <2>3, PoolDrain
  <2> QED BY <2>1, <2>3, <2>4
<1>13. CASE \E s \in OtherSetups : Other_Create(s)
  <2>1. PICK s \in OtherSetups : Other_Create(s)
    BY <1>13
  <2>2. pc = "client" /\ pc' = "client" /\ c' = c
    BY <2>1 DEF Other_Create, OtherStep, driverVars
  <2> QED BY <1>1, <1>6, <2>1, <2>2 DEF Other_Create, OtherStep, driverVars, moduleVars
<1>14. CASE Other_Alloc
  <2>1. pc = "client" /\ pc' = "client" /\ c' = c
    BY <1>14 DEF Other_Alloc, OtherStep, driverVars
  <2> QED BY <1>1, <1>7, <1>14, <2>1 DEF Other_Alloc, OtherStep, driverVars, moduleVars
<1>15. CASE \E e \in Elements : Other_Enqueue(e) \/ Other_Free(e)
  <2>1. PICK e \in Elements : Other_Enqueue(e) \/ Other_Free(e)
    BY <1>15
  <2>2. pc = "client" /\ pc' = "client" /\ c' = c
    BY <2>1 DEF Other_Enqueue, Other_Free, OtherStep, driverVars
  <2> QED BY <1>1, <1>8, <1>9, <2>1, <2>2
          DEF Other_Enqueue, Other_Free, OtherStep, driverVars, moduleVars
<1>16. CASE Other_Dequeue
  <2>1. pc = "client" /\ pc' = "client" /\ c' = c
    BY <1>16 DEF Other_Dequeue, OtherStep, driverVars
  <2> QED BY <1>1, <1>10, <1>16, <2>1
          DEF Other_Dequeue, OtherStep, driverVars, moduleVars
<1>17. CASE Other_Destroy
  <2>1. /\ pc = "client" /\ pc' = "destroy" /\ c' = c
        /\ mem' = mem /\ other' = other /\ o /\ h = {}
    BY <1>17 DEF Other_Destroy, poolVars
  <2>2. Pool(mem', other'.open, HeldBy(currentJob', other'.held))
    BY <1>1, <2>1
  <2>3. /\ other' \in [open : BOOLEAN, held : SUBSET Elements]
        /\ other'.open /\ other'.held = {}
        /\ Contents(mem', Q) = Contents(mem, Q)
    BY <1>1, <2>1
  <2>4. UNCHANGED <<job, asked, currentJob, symbolsInProgress, moduleVars,
                    blocking, received, clocked, done>>
    BY <1>17 DEF Other_Destroy, poolVars
  <2> QED BY <2>1, <2>2, <2>3, <2>4
<1>18. CASE Destroy_Loop
  <2>1. /\ pc = "destroy" /\ c' = c
        /\ o /\ h = {}
        /\ IsEmpty(mem, OtherQ) => pc' = "client"
    BY <1>18 DEF Destroy_Loop, PoolInv
  <2>2. UNCHANGED <<job, asked, currentJob, symbolsInProgress, moduleVars,
                    blocking, received, clocked, done>>
    BY <1>18 DEF Destroy_Loop
  <2>3. CASE IsEmpty(mem, OtherQ)
    <3>0. /\ other' = [open |-> FALSE, held |-> h]
          /\ Pool(mem', FALSE, HeldBy(c, h))
          /\ Contents(mem', Q) = Contents(mem, Q)
      BY <1>11, <1>18, <2>3, Zenon
    <3>1. Pool(mem', other'.open, HeldBy(currentJob', other'.held))
      BY <3>0, <2>1
    <3>2. /\ other' \in [open : BOOLEAN, held : SUBSET Elements]
          /\ Contents(mem', Q) = Contents(mem, Q)
      BY <1>1, <3>0
    <3>3. pc' = "client"
      BY <2>1, <2>3
    <3> QED BY <2>1, <2>2, <3>1, <3>2, <3>3
  <2>4. CASE ~IsEmpty(mem, OtherQ)
    <3>1. other' = other /\ pc' = pc /\ Contents(mem', Q) = Contents(mem, Q)
      BY <1>12, <1>18, <2>4
    <3>2. Pool(mem', other'.open, HeldBy(currentJob', other'.held))
      BY <1>12, <1>18, <2>1, <2>4, <3>1
    <3> QED BY <1>1, <2>1, <2>2, <3>1, <3>2
  <2> QED BY <2>3, <2>4
<1> QED BY <1>13, <1>14, <1>15, <1>16, <1>17, <1>18 DEF OtherClient

\* What a step has to show of the hands to keep PoolInv.
LEMMA PoolStep ==
    ASSUME Pool(mem', other'.open, HeldBy(currentJob', other'.held)),
           currentJob' \in Elements \cup {NULL},
           other' \in [open : BOOLEAN, held : SUBSET Elements],
           pc' \in Places,
           pc' = "destroy" => other'.open /\ other'.held = {},
           pc' \in {"send", "error", "receive", "callback", "free",
                   "errorCallback", "errorFree"} =>
             currentJob' # NULL
    PROVE  PoolInv'
<1>1. Held' = HeldBy(currentJob', other'.held)
  BY DEF Held, HeldBy
<1> QED BY <1>1 DEF PoolInv

\* A job is added at the end of the queue, in an element that was free.
LEMMA AddStep ==
    ASSUME PoolInv, NEW j, NEW t, NEW r, Add(j, t, r)
    PROVE  LET e == mem.pFreeHead
           IN /\ PoolInv'
              /\ e \in Elements /\ e # currentJob /\ ~On(e, Contents(mem, Q))
              /\ Contents(mem, Q)' = Append(Contents(mem, Q), e)
<1> DEFINE e == mem.pFreeHead
           H == HeldBy(currentJob, other.held)
<1>1. /\ CanAlloc(mem, Q)
      /\ mem' = Enqueued(Allocated(mem, Q), Q, e)
      /\ other' = other /\ currentJob' = currentJob /\ pc' = pc
      /\ pc \in {"client", "callback", "errorCallback"}
  BY DEF Add, driverVars
<1>2. Pool(mem, other.open, H)
  BY HeldIs DEF PoolInv
<1>3. Pool(mem', other.open, H)
  <2> HIDE DEF H
  <2> QED BY <1>1, <1>2, PoolAdd
<1>4. /\ e \in Elements
      /\ \A p \in Queues : e \notin H[p] /\ ~On(e, Contents(mem, p))
      /\ Contents(mem', Q) = Append(Contents(mem, Q), e)
  <2> HIDE DEF H
  <2> QED BY <1>1, <1>2, <1>3, PoolAdd
<1>5. e # currentJob /\ ~On(e, Contents(mem, Q))
  <2>1. e # NULL /\ e \notin H[Q]
    BY <1>4, TwoQueues, NullIsNone
  <2> QED BY <2>1, <1>4, TwoQueues DEF HeldBy
<1>6. PoolInv'
  BY <1>1, <1>3, PoolStep DEF PoolInv
<1> QED BY <1>4, <1>5, <1>6

\* The first job of the queue becomes the job in progress.
LEMMA StartStep ==
    ASSUME PoolInv, Tasks_Start
    PROVE  /\ PoolInv'
           /\ Contents(mem, Q) # <<>>
           /\ currentJob' = Contents(mem, Q)[1] /\ currentJob' \in Elements
           /\ Contents(mem, Q)' = Tail(Contents(mem, Q))
<1> DEFINE e == mem.queue[Q].pHead
<1>1. /\ currentJob = NULL /\ currentJob' = e
      /\ ~IsEmpty(mem, Q) /\ mem' = Dequeued(mem, Q)
      /\ other' = other /\ pc' = "send"
  BY DEF Tasks_Start
<1>2. Pool(mem, other.open, HeldBy(NULL, other.held)) /\ Usable(Q, other.open)
  BY <1>1, HeldIs DEF PoolInv, Usable
<1>3. Pool(mem', other.open, With(HeldBy(NULL, other.held), Q, e))
  BY <1>1, <1>2, PoolDequeue
<1>4. /\ e \in Elements
      /\ Contents(mem, Q) # <<>> /\ e = Contents(mem, Q)[1]
      /\ Contents(mem', Q) = Tail(Contents(mem, Q))
  BY <1>1, <1>2, <1>3, PoolDequeue
<1>5. Pool(mem', other'.open, HeldBy(currentJob', other'.held))
  BY <1>1, <1>3, <1>4, DriverTakes
<1>6. PoolInv'
  <2>1. currentJob' # NULL
    BY <1>1, <1>4, NullIsNone
  <2> QED BY <1>1, <1>4, <1>5, <2>1, PoolStep DEF PoolInv, Places
<1> QED BY <1>1, <1>4, <1>6

\* The job in progress goes back to the pool.
LEMMA FreeStep ==
    ASSUME PoolInv, currentJob # NULL, currentJob' = NULL, other' = other,
           mem' = Freed(mem, Q, currentJob), pc' \in {"client", "stale"}
    PROVE  PoolInv' /\ Contents(mem, Q)' = Contents(mem, Q)
<1> DEFINE H == HeldBy(currentJob, other.held)
<1>1. /\ currentJob \in Elements
      /\ Pool(mem, other.open, H) /\ Usable(Q, other.open)
      /\ currentJob \in H[Q]
  BY HeldIs, DriverGives DEF PoolInv, Usable
<1> HIDE DEF H
<1>2. Pool(mem', other.open, Without(H, Q, currentJob))
  BY <1>1, PoolFree
<1>3. \A p \in Queues : Contents(mem', p) = Contents(mem, p)
  BY <1>1, <1>2, PoolFree
<1>4. Pool(mem', other'.open, HeldBy(currentJob', other'.held))
  BY <1>1, <1>2, DriverGives DEF H
<1>5. PoolInv'
  BY <1>4, PoolStep DEF PoolInv, Places
<1> QED BY <1>3, <1>5, TwoQueues

\* The other steps do not touch the pool.
LEMMA QuietStep ==
    ASSUME PoolInv, UNCHANGED <<mem, other, currentJob>>,
           \/ pc' = pc
           \/ pc' \in {"client", "fill", "drain"}
           \/ currentJob # NULL /\ pc' \in {"send", "receive", "callback", "free", "error",
                                         "errorCallback", "errorFree"}
    PROVE  PoolInv' /\ Contents(mem, Q)' = Contents(mem, Q)
<1>1. Pool(mem', other'.open, HeldBy(currentJob', other'.held))
  BY HeldIs DEF PoolInv
<1>2. PoolInv'
  BY <1>1, PoolStep DEF PoolInv, Places
<1> QED BY <1>2

LEMMA PoolInvInit == Init => PoolInv
<1> SUFFICES ASSUME Init PROVE PoolInv
  OBVIOUS
<1>1. Held = [q \in Queues |-> {}]
  BY TwoQueues DEF Init, Held
<1>2. Pool(mem, FALSE, [q \in Queues |-> {}])
  BY PoolInit DEF Init
<1> QED BY <1>1, <1>2 DEF Init, PoolInv, Places

LEMMA PoolInvNext == PoolInv /\ [Next]_vars => PoolInv'
<1> SUFFICES ASSUME PoolInv, [Next]_vars PROVE PoolInv'
  OBVIOUS
<1>1. CASE Client
  <2>1. CASE \E s \in Asks : AddAsked(s)
    BY <2>1, AddStep DEF AddAsked
  <2>2. CASE \E n \in BlockingSizes : Blocking_Start(n)
    BY <2>2, QuietStep DEF Blocking_Start, poolVars
  <2> QED BY <1>1, <2>1, <2>2, ClientCases
<1>2. CASE OtherClient
  BY <1>2, OtherClientPool
<1>3. CASE DRV_SPI0_Tasks
  <2>1. CASE Tasks_Start
    BY <2>1, StartStep
  <2>2. CASE Tasks_Continue
    BY <2>2, QuietStep, SMTT(30) DEF Tasks_Continue, poolVars
  <2>3. CASE Tasks_Send
    BY <2>3, QuietStep DEF Tasks_Send, PoolInv
  <2>4. CASE Tasks_Error
    <3>1. currentJob # NULL
      BY <2>4 DEF Tasks_Error, PoolInv
    <3>2. /\ UNCHANGED <<mem, other, currentJob>>
          /\ pc' \in {"errorCallback", "receive"}
      BY <2>4 DEF Tasks_Error
    <3> QED BY <3>1, <3>2, QuietStep
  <2>5. CASE Tasks_Receive
    <3>1. /\ currentJob # NULL /\ UNCHANGED <<mem, other, currentJob>>
          /\ pc' \in {"callback", "client"}
      BY <2>5 DEF Tasks_Receive, PoolInv
    <3> QED BY <3>1, QuietStep
  <2>6. CASE Tasks_Return
    <3>1. /\ currentJob # NULL /\ UNCHANGED <<mem, other, currentJob>>
          /\ pc' \in {"free", "errorFree"}
      BY <2>6 DEF Tasks_Return, poolVars, PoolInv
    <3> QED BY <3>1, QuietStep
  <2>7. CASE Tasks_Free
    <3>1. /\ currentJob # NULL /\ currentJob' = NULL /\ other' = other
          /\ mem' = Freed(mem, Q, currentJob) /\ pc' \in {"client", "stale"}
      BY <2>7 DEF Tasks_Free, PoolInv
    <3> QED BY <3>1, FreeStep
  <2> QED BY <1>3, <2>1, <2>2, <2>3, <2>4, <2>5, <2>6, <2>7 DEF DRV_SPI0_Tasks
<1>4. CASE BufferAddWriteRead
  <2>1. CASE Blocking_Fill
    <3>1. UNCHANGED <<mem, other, currentJob>> /\ pc' \in {"client", "drain"}
      BY <2>1 DEF Blocking_Fill, poolVars
    <3> QED BY <3>1, QuietStep
  <2>2. CASE Blocking_Drain
    <3>1. UNCHANGED <<mem, other, currentJob>> /\ (pc' = pc \/ pc' = "fill")
      BY <2>2 DEF Blocking_Drain, poolVars
    <3> QED BY <3>1, QuietStep
  <2> QED BY <1>4, <2>1, <2>2 DEF BufferAddWriteRead
<1>5. CASE Module
  <2>1. UNCHANGED <<mem, other, currentJob, pc>>
    BY <1>5 DEF Module, Module_ShiftStarts, Module_ShiftEnds, poolVars, driverVars
  <2> QED BY <2>1, QuietStep
<1>6. CASE UNCHANGED vars
  BY <1>6, QuietStep DEF vars, poolVars, driverVars
<1> QED BY <1>1, <1>2, <1>3, <1>4, <1>5, <1>6 DEF Next, DRV_SPI_Tasks

LEMMA PoolInvAlways == Spec => []PoolInv
<1> QED BY PoolInvInit, PoolInvNext, PTL DEF Spec

\* Whatever the two clients do, every element of the pool is in exactly one
\* place: the free list, a queue, or the hands of a client; the lists end where
\* their tails say, and the counters count (drv_spi_static_sys_queue.c).
THEOREM PoolCorrect == Spec => []PoolWhole
<1>1. PoolInv => PoolWhole
  <2> SUFFICES ASSUME PoolInv PROVE PoolWhole
    OBVIOUS
  <2>1. \A q : q \in Open <=> Usable(q, other.open)
    BY DEF Open, Usable
  <2>2. Pool(mem, other.open, Held)
    BY DEF PoolInv
  <2> QED BY <2>1, <2>2, PoolPlaces DEF PoolWhole
<1> QED BY <1>1, PoolInvAlways, PTL

\* What a queue has reserved is kept for it: the pool's counter is what the
\* queues may still claim, it is covered by free elements, and a queue below
\* its reservation, and not at its maximum, is given an element
\* (DRV_SPI_SYS_QUEUE_AllocElement).
THEOREM ReservationsCorrect == Spec => []ReservationsHonoured
<1>1. PoolInv => ReservationsHonoured
  <2> SUFFICES ASSUME PoolInv PROVE ReservationsHonoured
    OBVIOUS
  <2>1. Pool(mem, other.open, Held)
    BY DEF PoolInv
  <2>2. mem.numReserve = Unclaimed /\ mem.numReserve <= mem.numFree
    BY <2>1 DEF Pool, Reserves, Unclaimed
  <2>3. ASSUME NEW q \in Open, BelowReserve(mem, q),
               mem.queue[q].numAlloc # mem.queue[q].maxElements
        PROVE  CanAlloc(mem, q)
    <3>1. Usable(q, other.open)
      BY DEF Open, Usable
    <3> QED BY <2>1, <2>3, <3>1, PoolHonours
  <2> QED BY <2>2, <2>3 DEF ReservationsHonoured
<1> QED BY <1>1, PoolInvAlways, PTL
----------------------------------------------------------------------------
\* The symbols s are on the wire from place f on, in a job with t data symbols;
\* the answers s are those of the places from f on.
Wire(s, f, t) ==
    \A i \in 1 .. Len(s) : s[i] = IF f + i <= t THEN f + i ELSE 0
Count(s, f) == \A i \in 1 .. Len(s) : s[i] = f + i

\* The numbers of a job of t symbols to send and r to receive when S have
\* been put in the module and R answers taken from it.
Numbers(j, t, r, S, R) ==
    /\ t \in Nat /\ r \in Nat /\ S \in Nat /\ R \in Nat
    /\ R <= S /\ S <= AtLeast(t, r)
    /\ j.dataTxed = AtMost(S, t)
    /\ j.dataLeftToTx = t - AtMost(S, t)
    /\ j.dummyLeftToTx = AtLeast(t, r) - AtLeast(S, t)
    /\ j.dataRxed = AtMost(R, r)
    /\ j.dataLeftToRx = r - AtMost(R, r)
    /\ j.dummyLeftToRx = AtLeast(t, r) - AtLeast(R, r)

Sent     == Len(clocked) + Len(shift) + Len(tx)
Answered == Len(clocked) - Len(rx)

\* A job that waits is as it was added.
Fresh(j, a, got) == /\ Numbers(j, a.tx, a.rx, 0, 0)
                    /\ j.status = "PENDING"
                    /\ got = <<>>

AllFresh(c, jobs, asks, gots) ==
    \A i \in 1 .. Len(c) : Fresh(jobs[c[i]], asks[c[i]], gots[c[i]])

\* The job in progress.
Busy(e, t, r) ==
    /\ Numbers(job[e], t, r, Sent, Answered)
    /\ job[e].status = IF pc \in {"callback", "free"} THEN "COMPLETE"
                       ELSE "PROCESSING"
    /\ symbolsInProgress = InModule
    /\ Wire(clocked, 0, t)
    /\ Wire(shift, Len(clocked), t)
    /\ Wire(tx, Len(clocked) + Len(shift), t)
    /\ Count(received[e], 0) /\ Len(received[e]) = AtMost(Answered, r)
    /\ blocking = NoExchange
    /\ pc \in Places \ {"fill", "drain", "errorCallback", "errorFree", "stale"}
    /\ pc \in {"callback", "free"} => Len(clocked) = AtLeast(t, r)
                                      /\ InModule = 0

\* No job is in progress: what the module has is the blocking exchange's.
Idle ==
    /\ pc \in {"client", "destroy", "fill", "drain"}
    /\ InModule = blocking.sent - blocking.read
    /\ Answered = blocking.read
    /\ blocking.sent <= blocking.size
    /\ pc \in {"client", "destroy"} => blocking = NoExchange
    /\ pc = "fill" => blocking.sent = blocking.read

ModuleInv ==
    /\ tx \in Seq(Nat) /\ shift \in Seq(Nat) /\ rx \in Seq(Nat)
    /\ clocked \in Seq(Nat)
    /\ overflow = FALSE
    /\ Len(shift) <= 1
    /\ InModule <= FifoSize
    /\ Count(rx, Answered)

JobsInv ==
    /\ job \in [Elements -> JobObject]
    /\ received \in [Elements -> Seq(Nat)]
    /\ asked \in [Elements -> [tx : Nat, rx : Nat]]
    /\ symbolsInProgress \in 0 .. FifoSize
    /\ blocking \in [size : Nat, sent : Nat, read : Nat]
    /\ AllFresh(Contents(mem, Q), job, asked, received)
    /\ done = IF pc = "callback"
              THEN [id |-> currentJob, sent |-> clocked, got |-> received[currentJob]]
              ELSE NoneDone

DriverInv ==
    /\ PoolInv
    /\ ModuleInv
    /\ JobsInv
    /\ currentJob # NULL =>
         Busy(currentJob, asked[currentJob].tx, asked[currentJob].rx)
    /\ currentJob = NULL => Idle
----------------------------------------------------------------------------
\* Putting symbols in the module: data first, dummies only behind the last
\* data symbol, and no more than there is room for.
LEMMA SendNumbers ==
    ASSUME NEW j, NEW k, NEW t, NEW r, NEW S, NEW R, NEW room \in Nat,
           NEW data, NEW dummy,
           Numbers(j, t, r, S, R),
           data = AtMost(j.dataLeftToTx, room),
           dummy = AtMost(j.dummyLeftToTx, room - data),
           k.dataTxed = j.dataTxed + data,
           k.dataLeftToTx = j.dataLeftToTx - data,
           k.dummyLeftToTx = j.dummyLeftToTx - dummy,
           k.dataRxed = j.dataRxed,
           k.dataLeftToRx = j.dataLeftToRx,
           k.dummyLeftToRx = j.dummyLeftToRx
    PROVE  /\ data \in Nat /\ dummy \in Nat /\ data + dummy <= room
           /\ data > 0 => j.dataTxed = S /\ S + data <= t
           /\ dummy > 0 => S + data >= t
           /\ Numbers(k, t, r, S + data + dummy, R)
<1>1. /\ t \in Nat /\ r \in Nat /\ S \in Nat /\ R \in Nat
      /\ R <= S /\ S <= AtLeast(t, r)
      /\ j.dataTxed = AtMost(S, t)
      /\ j.dataLeftToTx = t - AtMost(S, t)
      /\ j.dummyLeftToTx = AtLeast(t, r) - AtLeast(S, t)
  BY DEF Numbers
<1>2. /\ data \in Nat /\ dummy \in Nat /\ data + dummy <= room
      /\ data > 0 => j.dataTxed = S /\ S + data <= t
      /\ dummy > 0 => S + data >= t
  BY <1>1 DEF AtMost, AtLeast
<1>3. /\ S + data + dummy <= AtLeast(t, r)
      /\ AtMost(S + data + dummy, t) = AtMost(S, t) + data
      /\ AtLeast(S + data + dummy, t) = AtLeast(S, t) + dummy
  BY <1>1, <1>2 DEF AtMost, AtLeast
<1>4. /\ k.dataTxed = AtMost(S + data + dummy, t)
      /\ k.dataLeftToTx = t - AtMost(S + data + dummy, t)
      /\ k.dummyLeftToTx = AtLeast(t, r) - AtLeast(S + data + dummy, t)
  <2>1. /\ AtMost(S, t) \in Nat /\ AtLeast(S, t) \in Nat /\ AtLeast(t, r) \in Nat
    BY <1>1 DEF AtMost, AtLeast
  <2> QED BY <2>1, <1>1, <1>2, <1>3
<1>5. S + data + dummy \in Nat /\ R <= S + data + dummy
  BY <1>1, <1>2
<1> QED BY <1>1, <1>2, <1>3, <1>4, <1>5 DEF Numbers

\* Taking answers: all that are there are the job's, data first.
LEMMA ReceiveNumbers ==
    ASSUME NEW j, NEW k, NEW t, NEW r, NEW S, NEW R, NEW n \in Nat,
           NEW data, NEW dummy,
           Numbers(j, t, r, S, R), R + n <= S,
           data = AtMost(j.dataLeftToRx, n),
           dummy = AtMost(j.dummyLeftToRx, n - data),
           k.dataRxed = j.dataRxed + data,
           k.dataLeftToRx = j.dataLeftToRx - data,
           k.dummyLeftToRx = j.dummyLeftToRx - dummy,
           k.dataTxed = j.dataTxed,
           k.dataLeftToTx = j.dataLeftToTx,
           k.dummyLeftToTx = j.dummyLeftToTx
    PROVE  /\ data \in Nat /\ dummy \in Nat /\ data + dummy = n
           /\ data > 0 => AtMost(R, r) = R
           /\ AtMost(R + n, r) = AtMost(R, r) + data
           /\ Numbers(k, t, r, S, R + n)
           /\ LeftToReceive(k) = AtLeast(t, r) - (R + n)
<1>1. /\ t \in Nat /\ r \in Nat /\ S \in Nat /\ R \in Nat
      /\ R <= S /\ S <= AtLeast(t, r)
      /\ j.dataRxed = AtMost(R, r)
      /\ j.dataLeftToRx = r - AtMost(R, r)
      /\ j.dummyLeftToRx = AtLeast(t, r) - AtLeast(R, r)
  BY DEF Numbers
<1>2. /\ data \in Nat /\ dummy \in Nat /\ data + dummy = n
      /\ data > 0 => AtMost(R, r) = R
  BY <1>1 DEF AtMost, AtLeast
<1>3. /\ AtMost(R + n, r) = AtMost(R, r) + data
      /\ AtLeast(R + n, r) = AtLeast(R, r) + dummy
  BY <1>1, <1>2 DEF AtMost, AtLeast
<1>4. /\ AtMost(R, r) \in Nat /\ AtLeast(R, r) \in Nat /\ AtLeast(t, r) \in Nat
      /\ AtMost(R, r) + AtLeast(R, r) = R + r
  BY <1>1 DEF AtMost, AtLeast
<1>5. /\ k.dataRxed = AtMost(R + n, r)
      /\ k.dataLeftToRx = r - AtMost(R + n, r)
      /\ k.dummyLeftToRx = AtLeast(t, r) - AtLeast(R + n, r)
  BY <1>1, <1>2, <1>3, <1>4
<1>6. LeftToReceive(k) = AtLeast(t, r) - (R + n)
  BY <1>1, <1>2, <1>3, <1>4, <1>5 DEF LeftToReceive
<1>7. R + n \in Nat
  BY <1>1
<1> QED BY <1>1, <1>2, <1>3, <1>5, <1>6, <1>7 DEF Numbers

LEMMA FreshNumbers ==
    ASSUME NEW t \in Nat, NEW r \in Nat
    PROVE  Numbers(WriteReadJob(t, r), t, r, 0, 0)
<1>1. /\ AtMost(0, t) = 0 /\ AtMost(0, r) = 0
      /\ AtLeast(0, t) = t /\ AtLeast(0, r) = r
      /\ (IF r > t THEN r - t ELSE 0) = AtLeast(t, r) - t
      /\ (IF t > r THEN t - r ELSE 0) = AtLeast(t, r) - r
      /\ 0 <= AtLeast(t, r)
  BY DEF AtMost, AtLeast
<1>2. PICK j : j = WriteReadJob(t, r)
  OBVIOUS
<1>3. /\ j.dataTxed = 0 /\ j.dataRxed = 0
      /\ j.dataLeftToTx = t /\ j.dataLeftToRx = r
      /\ j.dummyLeftToTx = AtLeast(t, r) - t
      /\ j.dummyLeftToRx = AtLeast(t, r) - r
  BY <1>1, <1>2, WriteReadJobIs
<1>4. Numbers(j, t, r, 0, 0)
  BY <1>1, <1>3 DEF Numbers
<1> QED BY <1>2, <1>4

\* Symbols and answers, put one behind the other.
LEMMA WireJoin ==
    ASSUME NEW s \in Seq(Nat), NEW u \in Seq(Nat), NEW f \in Nat, NEW t \in Nat,
           Wire(s, f, t), Wire(u, f + Len(s), t)
    PROVE  Wire(s \o u, f, t) /\ s \o u \in Seq(Nat) /\ Len(s \o u) = Len(s) + Len(u)
<1>1. /\ s \o u \in Seq(Nat) /\ Len(s \o u) = Len(s) + Len(u)
      /\ Len(s) \in Nat /\ Len(u) \in Nat
  OBVIOUS
<1>2. ASSUME NEW i \in 1 .. Len(s) + Len(u)
      PROVE  (s \o u)[i] = IF f + i <= t THEN f + i ELSE 0
  <2>1. CASE i <= Len(s)
    <3>1. i \in 1 .. Len(s) /\ (s \o u)[i] = s[i]
      BY <2>1
    <3> QED BY <3>1 DEF Wire
  <2>2. CASE i > Len(s)
    <3>1. i - Len(s) \in 1 .. Len(u) /\ (s \o u)[i] = u[i - Len(s)]
      BY <2>2, <1>1
    <3>2. u[i - Len(s)] = IF f + Len(s) + (i - Len(s)) <= t
                          THEN f + Len(s) + (i - Len(s)) ELSE 0
      BY <3>1 DEF Wire
    <3>3. f + Len(s) + (i - Len(s)) = f + i
      BY <1>1
    <3> QED BY <3>1, <3>2, <3>3
  <2> QED BY <2>1, <2>2, <1>1
<1> QED BY <1>1, <1>2 DEF Wire

LEMMA CountJoin ==
    ASSUME NEW s \in Seq(Nat), NEW u \in Seq(Nat), NEW f \in Nat,
           Count(s, f), Count(u, f + Len(s))
    PROVE  Count(s \o u, f) /\ s \o u \in Seq(Nat) /\ Len(s \o u) = Len(s) + Len(u)
<1>1. /\ s \o u \in Seq(Nat) /\ Len(s \o u) = Len(s) + Len(u)
      /\ Len(s) \in Nat /\ Len(u) \in Nat
  OBVIOUS
<1>2. ASSUME NEW i \in 1 .. Len(s) + Len(u)
      PROVE  (s \o u)[i] = f + i
  <2>1. CASE i <= Len(s)
    <3>1. i \in 1 .. Len(s) /\ (s \o u)[i] = s[i]
      BY <2>1
    <3> QED BY <3>1 DEF Count
  <2>2. CASE i > Len(s)
    <3>1. i - Len(s) \in 1 .. Len(u) /\ (s \o u)[i] = u[i - Len(s)]
      BY <2>2, <1>1
    <3>2. u[i - Len(s)] = f + Len(s) + (i - Len(s))
      BY <3>1 DEF Count
    <3>3. f + Len(s) + (i - Len(s)) = f + i
      BY <1>1
    <3> QED BY <3>1, <3>2, <3>3
  <2> QED BY <2>1, <2>2, <1>1
<1> QED BY <1>1, <1>2 DEF Count

\* The first symbol leaves.
LEMMA WireTail ==
    ASSUME NEW s \in Seq(Nat), s # <<>>, NEW f \in Nat, NEW t \in Nat, Wire(s, f, t)
    PROVE  /\ Head(s) \in Nat /\ Tail(s) \in Seq(Nat)
           /\ Len(Tail(s)) = Len(s) - 1 /\ Len(s) > 0
           /\ Wire(<<Head(s)>>, f, t) /\ Wire(Tail(s), f + 1, t)
<1>1. /\ Len(s) > 0 /\ Len(s) \in Nat /\ Head(s) = s[1] /\ Head(s) \in Nat
      /\ Tail(s) \in Seq(Nat) /\ Len(Tail(s)) = Len(s) - 1
      /\ \A i \in 1 .. Len(Tail(s)) : Tail(s)[i] = s[i + 1]
  BY EmptySeq
<1>2. Wire(<<Head(s)>>, f, t)
  <2>1. 1 \in 1 .. Len(s)
    BY <1>1
  <2> QED BY <2>1, <1>1 DEF Wire
<1>3. ASSUME NEW i \in 1 .. Len(Tail(s))
      PROVE  Tail(s)[i] = IF f + 1 + i <= t THEN f + 1 + i ELSE 0
  <2>1. i + 1 \in 1 .. Len(s) /\ f + 1 + i = f + (i + 1)
    BY <1>1
  <2> QED BY <2>1, <1>1 DEF Wire
<1> QED BY <1>1, <1>2, <1>3 DEF Wire

LEMMA CountTail ==
    ASSUME NEW s \in Seq(Nat), s # <<>>, NEW f \in Nat, Count(s, f)
    PROVE  /\ Tail(s) \in Seq(Nat)
           /\ Len(Tail(s)) = Len(s) - 1 /\ Len(s) > 0 /\ Len(s) \in Nat
           /\ Count(Tail(s), f + 1)
<1>1. /\ Len(s) > 0 /\ Len(s) \in Nat
      /\ Tail(s) \in Seq(Nat) /\ Len(Tail(s)) = Len(s) - 1
      /\ \A i \in 1 .. Len(Tail(s)) : Tail(s)[i] = s[i + 1]
  BY EmptySeq
<1>2. ASSUME NEW i \in 1 .. Len(Tail(s)) PROVE Tail(s)[i] = f + 1 + i
  <2>1. i + 1 \in 1 .. Len(s) /\ f + 1 + i = f + (i + 1)
    BY <1>1
  <2> QED BY <2>1, <1>1 DEF Count
<1> QED BY <1>1, <1>2 DEF Count

\* What the jobs that wait are.
LEMMA PoolQueue ==
    ASSUME NEW m, NEW o, NEW H, NEW q \in Queues, Pool(m, o, H)
    PROVE  /\ Contents(m, q) \in Seq(Elements)
           /\ \A i, j \in 1 .. Len(Contents(m, q)) :
                Contents(m, q)[i] = Contents(m, q)[j] => i = j
           /\ IsEmpty(m, q) <=> Contents(m, q) = <<>>
           /\ Contents(m, q) # <<>> => m.queue[q].pHead = Contents(m, q)[1]
           /\ \A e \in H[q] : ~On(e, Contents(m, q))
<1>1. PICK F, C : Layout(m, F, C, H)
  BY DEF Pool, Laid
<1>2. Linked(m.pNext, m.queue[q].pHead, C[q]) /\ C[q] = Contents(m, q)
  BY <1>1, LayoutIs DEF Layout, QueueLinked
<1>3. IsEmpty(m, q) <=> C[q] = <<>>
  BY <1>2, LinkedSeq DEF IsEmpty
<1>4. C[q] # <<>> => m.queue[q].pHead = C[q][1]
  BY <1>2 DEF Linked
<1>5. \A e \in H[q] : ~On(e, C[q])
  <2>1. PICK own : Owned(own, F, C, H)
    BY <1>1 DEF Layout, Placed
  <2>2. H[q] \subseteq Elements
    BY <1>1 DEF Layout, Hands
  <2> QED BY <2>1, <2>2 DEF Owned
<1> QED BY <1>2, <1>3, <1>4, <1>5 DEF Linked

LEMMA WaitingIs ==
    ASSUME PoolInv
    PROVE  LET c == Contents(mem, Q)
           IN /\ c \in Seq(Elements)
              /\ \A i, j \in 1 .. Len(c) : c[i] = c[j] => i = j
              /\ IsEmpty(mem, Q) <=> c = <<>>
              /\ c # <<>> => mem.queue[Q].pHead = c[1]
              /\ currentJob # NULL => ~On(currentJob, c)
<1>1. Pool(mem, other.open, HeldBy(currentJob, other.held))
  BY HeldIs DEF PoolInv
<1>2. currentJob # NULL => currentJob \in HeldBy(currentJob, other.held)[Q]
  BY DriverGives DEF PoolInv
<1> HIDE DEF HeldBy
<1> QED BY <1>1, <1>2, TwoQueues, PoolQueue

\* The jobs that wait and are not touched stay as they are.
Untouched(c, j1, a1, g1, j2, a2, g2) ==
    \A d \in Elements : On(d, c) => /\ j2[d] = j1[d]
                                    /\ a2[d] = a1[d]
                                    /\ g2[d] = g1[d]

LEMMA FreshStays ==
    ASSUME NEW c \in Seq(Elements), NEW j1, NEW a1, NEW g1, NEW j2, NEW a2, NEW g2,
           AllFresh(c, j1, a1, g1), Untouched(c, j1, a1, g1, j2, a2, g2)
    PROVE  AllFresh(c, j2, a2, g2)
<1> SUFFICES ASSUME NEW i \in 1 .. Len(c)
             PROVE  Fresh(j2[c[i]], a2[c[i]], g2[c[i]])
  BY DEF AllFresh
<1>1. c[i] \in Elements /\ On(c[i], c)
  BY DEF On
<1> QED BY <1>1 DEF AllFresh, Untouched

LEMMA FreshAdds ==
    ASSUME NEW c \in Seq(Elements), NEW e \in Elements, NEW j, NEW a, NEW g,
           AllFresh(c, j, a, g), Fresh(j[e], a[e], g[e])
    PROVE  AllFresh(Append(c, e), j, a, g)
<1> SUFFICES ASSUME NEW i \in 1 .. Len(c) + 1
             PROVE  Fresh(j[Append(c, e)[i]], a[Append(c, e)[i]], g[Append(c, e)[i]])
  BY DEF AllFresh
<1>1. CASE i <= Len(c)
  <2>1. i \in 1 .. Len(c) /\ Append(c, e)[i] = c[i]
    BY <1>1
  <2> QED BY <2>1 DEF AllFresh
<1>2. CASE i = Len(c) + 1
  BY <1>2
<1> QED BY <1>1, <1>2

LEMMA FreshTail ==
    ASSUME NEW c \in Seq(Elements), c # <<>>, NEW j, NEW a, NEW g,
           AllFresh(c, j, a, g)
    PROVE  Fresh(j[c[1]], a[c[1]], g[c[1]]) /\ AllFresh(Tail(c), j, a, g)
<1>1. /\ 1 \in 1 .. Len(c) /\ Len(Tail(c)) = Len(c) - 1
      /\ \A i \in 1 .. Len(Tail(c)) : i + 1 \in 1 .. Len(c) /\ Tail(c)[i] = c[i + 1]
  BY EmptySeq
<1> QED BY <1>1 DEF AllFresh

LEMMA LengthsAre ==
    ASSUME ModuleInv
    PROVE  /\ Len(tx) \in Nat /\ Len(rx) \in Nat /\ Len(clocked) \in Nat
           /\ Len(shift) \in Nat /\ Len(shift) <= 1
           /\ InModule \in Nat /\ InModule <= FifoSize /\ FifoSize \in Nat
           /\ InModule = 0 => /\ tx = <<>> /\ shift = <<>> /\ rx = <<>>
                              /\ Len(rx) = 0 /\ Len(shift) = 0 /\ Len(tx) = 0
<1>1. /\ Len(tx) \in Nat /\ Len(rx) \in Nat /\ Len(clocked) \in Nat
      /\ Len(shift) \in Nat /\ Len(shift) <= 1
      /\ InModule <= FifoSize /\ FifoSize \in Nat
  BY SpiDriverAssumption DEF ModuleInv
<1>2. /\ Len(tx) = 0 => tx = <<>>
      /\ Len(shift) = 0 => shift = <<>>
      /\ Len(rx) = 0 => rx = <<>>
  BY EmptySeq DEF ModuleInv
<1>3. InModule \in Nat /\ (InModule = 0 => Len(rx) = 0 /\ Len(shift) = 0 /\ Len(tx) = 0)
  BY <1>1 DEF InModule
<1> QED BY <1>1, <1>2, <1>3
----------------------------------------------------------------------------
\* DriverInv, an action at a time.
LEMMA DriverInit == Init => DriverInv
<1> SUFFICES ASSUME Init PROVE DriverInv
  OBVIOUS
<1>1. PoolInv
  BY PoolInvInit
<1>2. Contents(mem, Q) = <<>>
  BY PoolInit DEF Init
<1>3. BlankJob \in JobObject
  BY DEF BlankJob, JobObject, Statuses
<1>4. ModuleInv
  BY SpiDriverAssumption DEF Init, ModuleInv, InModule, Count
<1>5. JobsInv
  <2>1. job \in [Elements -> JobObject]
    BY <1>3 DEF Init
  <2>2. received \in [Elements -> Seq(Nat)]
    BY DEF Init
  <2>3. asked \in [Elements -> [tx : Nat, rx : Nat]]
    BY DEF Init, NothingAsked
  <2>4. /\ symbolsInProgress \in 0 .. FifoSize
        /\ blocking \in [size : Nat, sent : Nat, read : Nat]
        /\ pc = "client" /\ done = NoneDone
    BY SpiDriverAssumption DEF Init, NoExchange
  <2>5. AllFresh(Contents(mem, Q), job, asked, received)
    BY <1>2 DEF AllFresh
  <2> QED BY <2>1, <2>2, <2>3, <2>4, <2>5 DEF JobsInv
<1>6. Idle
  BY DEF Init, Idle, InModule, Answered, NoExchange
<1> QED BY <1>1, <1>4, <1>5, <1>6 DEF DriverInv, Init

\* The error path is not taken.
LEMMA NoErrorPath ==
    ASSUME DriverInv PROVE pc \notin {"errorCallback", "errorFree", "stale"}
<1> QED BY DEF DriverInv, Busy, Idle

\* The steps of the second client.
LEMMA DriverOther == ASSUME DriverInv, OtherClient PROVE DriverInv'
<1>1. /\ PoolInv' /\ Contents(mem, Q)' = Contents(mem, Q)
      /\ UNCHANGED <<job, asked, currentJob, symbolsInProgress,
                     blocking, received, clocked, done>>
      /\ UNCHANGED <<tx, shift, rx, overflow>>
      /\ pc = "client" \/ pc = "destroy"
      /\ pc' = "client" \/ pc' = "destroy"
  BY OtherClientPool DEF DriverInv, moduleVars
<1>2. ModuleInv'
  BY <1>1 DEF DriverInv, ModuleInv, InModule, Answered
<1>3. JobsInv'
  BY <1>1 DEF DriverInv, JobsInv
<1>4. currentJob' # NULL =>
         Busy(currentJob, asked[currentJob].tx, asked[currentJob].rx)'
  BY <1>1 DEF DriverInv, Busy, Sent, Answered, InModule, Places
<1>5. currentJob' = NULL => Idle'
  BY <1>1 DEF DriverInv, Idle, Answered, InModule
<1> QED BY <1>1, <1>2, <1>3, <1>4, <1>5 DEF DriverInv

\* A job is added.
LEMMA DriverAdd == ASSUME DriverInv, NEW s \in Asks, AddAsked(s) PROVE DriverInv'
<1>0. PICK e, t, r, c : e = mem.pFreeHead /\ t = s[1] /\ r = s[2] /\ c = Contents(mem, Q)
  OBVIOUS
<1>1. t \in Nat /\ r \in Nat /\ Add(WriteReadJob(t, r), t, r)
  BY <1>0, AsksAre DEF AddAsked
<1>2. /\ PoolInv'
      /\ e \in Elements /\ e # currentJob /\ ~On(e, c)
      /\ Contents(mem, Q)' = Append(c, e)
  BY <1>0, <1>1, AddStep DEF DriverInv
<1>3. /\ job' = [job EXCEPT ![e] = WriteReadJob(t, r)]
      /\ asked' = [asked EXCEPT ![e] = [tx |-> t, rx |-> r]]
      /\ received' = [received EXCEPT ![e] = <<>>]
      /\ UNCHANGED <<pc, currentJob, symbolsInProgress, tx, shift, rx, overflow,
                     blocking, clocked, done>>
  BY <1>0, <1>1 DEF Add, driverVars, moduleVars
<1>4. /\ job \in [Elements -> JobObject]
      /\ asked \in [Elements -> [tx : Nat, rx : Nat]]
      /\ received \in [Elements -> Seq(Nat)]
      /\ c \in Seq(Elements)
  BY <1>0, WaitingIs DEF DriverInv, JobsInv
<1>5. /\ job' \in [Elements -> JobObject]
      /\ asked' \in [Elements -> [tx : Nat, rx : Nat]]
      /\ received' \in [Elements -> Seq(Nat)]
  <2>1. WriteReadJob(t, r) \in JobObject
    BY <1>1, WriteReadJobIs
  <2>2. <<>> \in Seq(Nat) /\ [tx |-> t, rx |-> r] \in [tx : Nat, rx : Nat]
    BY <1>1
  <2> QED BY <1>2, <1>3, <1>4, <2>1, <2>2
<1>6. /\ job'[e] = WriteReadJob(t, r)
      /\ asked'[e].tx = t /\ asked'[e].rx = r
      /\ received'[e] = <<>>
      /\ \A d \in Elements \ {e} : /\ job'[d] = job[d]
                                   /\ asked'[d] = asked[d]
                                   /\ received'[d] = received[d]
  BY <1>2, <1>3, <1>4
<1>7. Fresh(job'[e], asked'[e], received'[e])
  BY <1>1, <1>6, FreshNumbers, WriteReadJobIs DEF Fresh
<1>8. AllFresh(c, job', asked', received')
  <2>1. \A d \in Elements : On(d, c) => d # e
    BY <1>2
  <2>2. AllFresh(c, job, asked, received)
    BY <1>0 DEF DriverInv, JobsInv
  <2>3. Untouched(c, job, asked, received, job', asked', received')
    BY <2>1, <1>6 DEF Untouched
  <2> QED BY <2>2, <2>3, <1>4, FreshStays
<1>9. AllFresh(Contents(mem, Q)', job', asked', received')
  BY <1>2, <1>4, <1>7, <1>8, FreshAdds
<1>10. ModuleInv'
  BY <1>3 DEF DriverInv, ModuleInv, InModule, Answered
<1>11. currentJob # NULL => currentJob \in Elements \ {e}
  BY <1>2 DEF DriverInv, PoolInv
<1>12. JobsInv'
  <2>1. pc = "callback" => currentJob \in Elements \ {e}
    BY <1>11 DEF DriverInv, PoolInv
  <2>2. done' = IF pc' = "callback"
                THEN [id |-> currentJob', sent |-> clocked',
                      got |-> received'[currentJob']]
                ELSE NoneDone
    BY <2>1, <1>3, <1>6 DEF DriverInv, JobsInv
  <2>3. /\ symbolsInProgress' \in 0 .. FifoSize
        /\ blocking' \in [size : Nat, sent : Nat, read : Nat]
    BY <1>3 DEF DriverInv, JobsInv
  <2> QED BY <2>2, <2>3, <1>5, <1>9 DEF JobsInv
<1>13. ASSUME currentJob' # NULL
       PROVE  Busy(currentJob, asked[currentJob].tx, asked[currentJob].rx)'
  <2>1. Busy(currentJob, asked[currentJob].tx, asked[currentJob].rx)
    BY <1>3, <1>13 DEF DriverInv
  <2>2. /\ job'[currentJob] = job[currentJob]
        /\ asked'[currentJob] = asked[currentJob]
        /\ received'[currentJob] = received[currentJob]
    BY <1>3, <1>6, <1>11, <1>13
  <2> QED BY <2>1, <2>2, <1>3 DEF Busy, Sent, Answered, InModule
<1>14. currentJob' = NULL => Idle'
  BY <1>3 DEF DriverInv, Idle, Answered, InModule
<1> QED BY <1>2, <1>10, <1>12, <1>13, <1>14 DEF DriverInv

\* The next job of the queue is started.
LEMMA DriverStart == ASSUME DriverInv, Tasks_Start PROVE DriverInv'
<1>0. PICK e, c : e = currentJob' /\ c = Contents(mem, Q)
  OBVIOUS
<1>1. /\ PoolInv' /\ c # <<>> /\ e = c[1] /\ e \in Elements
      /\ Contents(mem, Q)' = Tail(c)
  BY <1>0, StartStep DEF DriverInv
<1>2. /\ pc = "client" /\ pc' = "send" /\ currentJob = NULL
      /\ symbolsInProgress' = 0 /\ rx' = <<>>
      /\ job' = [job EXCEPT ![e].status = "PROCESSING"]
      /\ UNCHANGED <<asked, tx, shift, overflow, blocking, received, clocked, done>>
  BY <1>0 DEF Tasks_Start
<1>3. Idle /\ InModule = 0 /\ Answered = 0 /\ blocking = NoExchange
  BY <1>2 DEF DriverInv, Idle, NoExchange
<1>4. /\ tx = <<>> /\ shift = <<>> /\ rx = <<>> /\ clocked = <<>>
      /\ Len(clocked) = 0
  <2>1. /\ tx = <<>> /\ shift = <<>> /\ rx = <<>> /\ Len(rx) = 0
        /\ Len(clocked) \in Nat
    BY <1>3, LengthsAre DEF DriverInv
  <2>2. Len(clocked) = 0
    BY <2>1, <1>3 DEF Answered
  <2> QED BY <2>1, <2>2, EmptySeq DEF DriverInv, ModuleInv
<1>5. /\ job \in [Elements -> JobObject]
      /\ asked \in [Elements -> [tx : Nat, rx : Nat]]
      /\ received \in [Elements -> Seq(Nat)]
      /\ c \in Seq(Elements)
      /\ \A i, j \in 1 .. Len(c) : c[i] = c[j] => i = j
      /\ AllFresh(c, job, asked, received)
  BY <1>0, WaitingIs DEF DriverInv, JobsInv
<1>6. /\ Fresh(job[e], asked[e], received[e])
      /\ AllFresh(Tail(c), job, asked, received)
  BY <1>1, <1>5, FreshTail
<1>7. /\ job' \in [Elements -> JobObject]
      /\ job'[e] = [job[e] EXCEPT !.status = "PROCESSING"]
      /\ \A d \in Elements \ {e} : job'[d] = job[d]
  <2>1. PICK j : j = job[e]
    OBVIOUS
  <2>2. j \in JobObject
    BY <2>1, <1>1, <1>5
  <2>3. [j EXCEPT !.status = "PROCESSING"] \in JobObject
    BY ONLY <2>2 DEF JobObject, Statuses
  <2> QED BY <2>1, <2>3, <1>1, <1>2, <1>5
<1>8. AllFresh(Tail(c), job', asked', received')
  <2>1. Tail(c) \in Seq(Elements)
    BY <1>1, <1>5
  <2>2. ~On(e, Tail(c))
    <3>1. /\ 1 \in 1 .. Len(c) /\ Len(Tail(c)) = Len(c) - 1
          /\ \A i \in 1 .. Len(Tail(c)) :
               i + 1 \in 1 .. Len(c) /\ Tail(c)[i] = c[i + 1] /\ i + 1 # 1
      BY <1>1, <1>5, EmptySeq
    <3> QED BY <3>1, <1>1, <1>5 DEF On
  <2>3. Untouched(Tail(c), job, asked, received, job', asked', received')
    BY <2>2, <1>2, <1>7 DEF Untouched
  <2> QED BY <2>1, <2>3, <1>6, FreshStays
<1>9. ModuleInv'
  <2>1. InModule' = 0
    BY <1>2, <1>4 DEF InModule
  <2>2. FifoSize \in Nat /\ Len(shift) <= 1
    BY LengthsAre DEF DriverInv
  <2>3. /\ tx' \in Seq(Nat) /\ shift' \in Seq(Nat) /\ rx' \in Seq(Nat)
        /\ clocked' \in Seq(Nat) /\ overflow' = FALSE
    BY <1>2 DEF DriverInv, ModuleInv
  <2>4. Count(rx', Answered')
    BY <1>2 DEF Count
  <2> QED BY <2>1, <2>2, <2>3, <2>4, <1>2 DEF ModuleInv
<1>10. JobsInv'
  <2>1. symbolsInProgress' \in 0 .. FifoSize
    BY <1>2, SpiDriverAssumption
  <2>2. /\ blocking' \in [size : Nat, sent : Nat, read : Nat]
        /\ done' = NoneDone
    BY <1>2 DEF DriverInv, JobsInv
  <2>3. AllFresh(Contents(mem, Q)', job', asked', received')
    BY <1>1, <1>8
  <2> QED BY <2>1, <2>2, <2>3, <1>2, <1>5, <1>7 DEF JobsInv
<1>11. Busy(currentJob, asked[currentJob].tx, asked[currentJob].rx)'
  <2>1. /\ asked[e].tx \in Nat /\ asked[e].rx \in Nat
        /\ Numbers(job[e], asked[e].tx, asked[e].rx, 0, 0) /\ received[e] = <<>>
    BY <1>1, <1>5, <1>6 DEF Fresh
  <2>2. /\ Sent' = 0 /\ Answered' = 0 /\ InModule' = 0
    BY <1>2, <1>4 DEF Sent, Answered, InModule
  <2>3. Numbers(job'[e], asked[e].tx, asked[e].rx, 0, 0) /\ job'[e].status = "PROCESSING"
    <3>1. job[e] \in JobObject
      BY <1>1, <1>5
    <3> QED BY <2>1, <3>1, <1>7 DEF Numbers, JobObject
  <2>4. AtMost(0, asked[e].rx) = 0
    BY <2>1 DEF AtMost
  <2>5. /\ Wire(clocked, 0, asked[e].tx)
        /\ Wire(shift, 0, asked[e].tx)
        /\ Wire(tx, 0, asked[e].tx)
        /\ Count(received[e], 0) /\ Len(received[e]) = 0
    BY <2>1, <1>4 DEF Wire, Count
  <2> QED BY <2>1, <2>2, <2>3, <2>4, <2>5, <1>0, <1>2, <1>3, <1>4 DEF Busy, Places
<1> QED BY <1>0, <1>1, <1>9, <1>10, <1>11, NullIsNone DEF DriverInv

\* A pass of the tasks goes on with the job in progress.
LEMMA DriverContinue == ASSUME DriverInv, Tasks_Continue PROVE DriverInv'
<1>1. /\ pc = "client" /\ pc' = "send" /\ currentJob # NULL
      /\ UNCHANGED <<mem, job, asked, other, currentJob, symbolsInProgress,
                     tx, shift, rx, overflow, blocking, received, clocked, done>>
  BY DEF Tasks_Continue, poolVars, moduleVars
<1>2. PoolInv' /\ Contents(mem, Q)' = Contents(mem, Q)
  BY <1>1, QuietStep DEF DriverInv
<1>3. ModuleInv'
  BY <1>1 DEF DriverInv, ModuleInv, InModule, Answered
<1>4. JobsInv'
  BY <1>1, <1>2 DEF DriverInv, JobsInv
<1>5. Busy(currentJob, asked[currentJob].tx, asked[currentJob].rx)'
  BY <1>1 DEF DriverInv, Busy, Sent, Answered, InModule, Places
<1> QED BY <1>1, <1>2, <1>3, <1>4, <1>5 DEF DriverInv

\* The callbacks return.
LEMMA DriverReturn == ASSUME DriverInv, Tasks_Return PROVE DriverInv'
<1>1. /\ pc = "callback" /\ pc' = "free" /\ done' = NoneDone
      /\ UNCHANGED <<mem, job, asked, other, currentJob, symbolsInProgress,
                     tx, shift, rx, overflow, blocking, received, clocked>>
  BY NoErrorPath DEF Tasks_Return, poolVars, moduleVars
<1>2. currentJob # NULL
  BY <1>1 DEF DriverInv, PoolInv
<1>3. PoolInv' /\ Contents(mem, Q)' = Contents(mem, Q)
  BY <1>1, <1>2, QuietStep DEF DriverInv
<1>4. ModuleInv'
  BY <1>1 DEF DriverInv, ModuleInv, InModule, Answered
<1>5. JobsInv'
  BY <1>1, <1>3 DEF DriverInv, JobsInv
<1>6. Busy(currentJob, asked[currentJob].tx, asked[currentJob].rx)'
  BY <1>1, <1>2 DEF DriverInv, Busy, Sent, Answered, InModule, Places
<1> QED BY <1>1, <1>2, <1>3, <1>4, <1>5, <1>6 DEF DriverInv

LEMMA DriverStutters == ASSUME DriverInv, UNCHANGED vars PROVE DriverInv'
<1>1. UNCHANGED <<mem, job, asked, other, pc, currentJob, symbolsInProgress,
                  tx, shift, rx, overflow, blocking, received, clocked, done>>
  BY DEF vars, poolVars, driverVars, moduleVars
<1>2. PoolInv' /\ Contents(mem, Q)' = Contents(mem, Q)
  BY <1>1, QuietStep DEF DriverInv
<1>3. ModuleInv'
  BY <1>1 DEF DriverInv, ModuleInv, InModule, Answered
<1>4. JobsInv'
  BY <1>1, <1>2 DEF DriverInv, JobsInv
<1>5. currentJob' # NULL =>
         Busy(currentJob, asked[currentJob].tx, asked[currentJob].rx)'
  BY <1>1 DEF DriverInv, Busy, Sent, Answered, InModule
<1>6. currentJob' = NULL => Idle'
  BY <1>1 DEF DriverInv, Idle, Answered, InModule
<1> QED BY <1>2, <1>3, <1>4, <1>5, <1>6 DEF DriverInv

\* An overflow would be needed for the error path.
LEMMA DriverError == ASSUME DriverInv, Tasks_Error PROVE DriverInv'
<1>1. /\ pc = "error" /\ pc' = "receive"
      /\ UNCHANGED <<mem, job, asked, other, currentJob, symbolsInProgress,
                     tx, shift, rx, overflow, blocking, received, clocked, done>>
  BY DEF Tasks_Error, DriverInv, ModuleInv, moduleVars
<1>2. currentJob # NULL
  BY <1>1 DEF DriverInv, PoolInv
<1>3. PoolInv' /\ Contents(mem, Q)' = Contents(mem, Q)
  BY <1>1, <1>2, QuietStep DEF DriverInv
<1>4. ModuleInv'
  BY <1>1 DEF DriverInv, ModuleInv, InModule, Answered
<1>5. JobsInv'
  BY <1>1, <1>3 DEF DriverInv, JobsInv
<1>6. Busy(currentJob, asked[currentJob].tx, asked[currentJob].rx)'
  BY <1>1, <1>2 DEF DriverInv, Busy, Sent, Answered, InModule, Places
<1> QED BY <1>1, <1>2, <1>3, <1>4, <1>5, <1>6 DEF DriverInv

\* What is sent goes on the wire behind what is there.
Behind(x, from, data, dummy) ==
    x \o [n \in 1 .. data |-> from + n] \o [n \in 1 .. dummy |-> 0]

LEMMA SentOnWire ==
    ASSUME NEW x \in Seq(Nat), NEW f \in Nat, NEW t \in Nat, Wire(x, f, t),
           NEW from, NEW data \in Nat, NEW dummy \in Nat,
           data > 0 => from = f + Len(x) /\ f + Len(x) + data <= t,
           dummy > 0 => f + Len(x) + data >= t,
           NEW y, y = Behind(x, from, data, dummy)
    PROVE  y \in Seq(Nat) /\ Len(y) = Len(x) + data + dummy /\ Wire(y, f, t)
<1>0. PICK d, z : d = [n \in 1 .. data |-> from + n] /\ z = [n \in 1 .. dummy |-> 0]
  OBVIOUS
<1>1. d \in Seq(Nat) /\ Len(d) = data
  <2>1. \A n \in 1 .. data : from + n \in Nat
    <3> SUFFICES ASSUME NEW n \in 1 .. data PROVE from + n \in Nat
      OBVIOUS
    <3>1. data > 0 /\ Len(x) \in Nat
      OBVIOUS
    <3> QED BY <3>1
  <2> QED BY <2>1, <1>0
<1>2. z \in Seq(Nat) /\ Len(z) = dummy
  BY <1>0
<1>3. Wire(d, f + Len(x), t)
  <2> SUFFICES ASSUME NEW i \in 1 .. data
               PROVE  d[i] = IF f + Len(x) + i <= t THEN f + Len(x) + i ELSE 0
    BY <1>1 DEF Wire
  <2>1. d[i] = from + i /\ data > 0 /\ i <= data /\ Len(x) \in Nat
    BY <1>0
  <2>2. from = f + Len(x) /\ f + Len(x) + data <= t
    BY <2>1
  <2> QED BY <2>1, <2>2
<1>4. Wire(x \o d, f, t) /\ x \o d \in Seq(Nat) /\ Len(x \o d) = Len(x) + data
  BY <1>1, <1>3, WireJoin
<1>5. Wire(z, f + Len(x \o d), t)
  <2> SUFFICES ASSUME NEW i \in 1 .. dummy
               PROVE  z[i] = IF f + Len(x \o d) + i <= t THEN f + Len(x \o d) + i ELSE 0
    BY <1>2 DEF Wire
  <2>1. z[i] = 0 /\ dummy > 0 /\ i > 0 /\ Len(x) \in Nat
    BY <1>0
  <2>2. f + Len(x) + data >= t
    BY <2>1
  <2>3. ~(f + Len(x \o d) + i <= t)
    BY <1>4, <2>1, <2>2
  <2> QED BY <2>1, <2>3
<1>6. Wire((x \o d) \o z, f, t) /\ (x \o d) \o z \in Seq(Nat)
      /\ Len((x \o d) \o z) = Len(x) + data + dummy
  BY <1>2, <1>4, <1>5, WireJoin
<1> QED BY <1>0, <1>6 DEF Behind

\* Symbols are put in the module.
LEMMA DriverSend == ASSUME DriverInv, Tasks_Send PROVE DriverInv'
<1>0. PICK e, j, k, t, r, S, room, data, dummy, f :
        /\ e = currentJob /\ j = job[e] /\ k = job'[e]
        /\ t = asked[e].tx /\ r = asked[e].rx /\ S = Sent
        /\ room = FifoSize - InTransit
        /\ data = AtMost(j.dataLeftToTx, room)
        /\ dummy = AtMost(j.dummyLeftToTx, room - data)
        /\ f = Len(clocked) + Len(shift)
  BY SMTT(30)
<1>1. /\ pc = "send" /\ pc' = "error"
      /\ tx' = Behind(tx, j.dataTxed, data, dummy)
      /\ job' = [job EXCEPT ![e].dataLeftToTx = @ - data,
                            ![e].dummyLeftToTx = @ - dummy,
                            ![e].dataTxed = @ + data]
      /\ symbolsInProgress' = symbolsInProgress + data + dummy
      /\ UNCHANGED <<mem, asked, other, currentJob, shift, rx, overflow,
                     blocking, received, clocked, done>>
  BY <1>0 DEF Tasks_Send, Behind
<1>2. currentJob # NULL /\ e \in Elements
  BY <1>0, <1>1 DEF DriverInv, PoolInv
<1>3. /\ Busy(e, t, r)
      /\ job \in [Elements -> JobObject] /\ j \in JobObject
      /\ asked \in [Elements -> [tx : Nat, rx : Nat]]
      /\ received \in [Elements -> Seq(Nat)]
  BY <1>0, <1>2 DEF DriverInv, JobsInv
<1>4. /\ Len(tx) \in Nat /\ Len(rx) \in Nat /\ Len(clocked) \in Nat
      /\ Len(shift) \in Nat /\ f \in Nat
      /\ InModule \in Nat /\ InModule <= FifoSize /\ FifoSize \in Nat
      /\ S = f + Len(tx)
  BY <1>0, LengthsAre DEF DriverInv, Sent
<1>5. room = FifoSize - InModule /\ room \in Nat
  <2>1. symbolsInProgress = InModule
    BY <1>3 DEF Busy
  <2>2. Len(tx) <= InModule
    BY <1>4 DEF InModule
  <2>3. InTransit = InModule
    BY <1>4, <2>1, <2>2 DEF InTransit, AtLeast
  <2> QED BY <1>0, <1>4, <2>3
<1>6. Numbers(j, t, r, S, Answered) /\ j.status = "PROCESSING"
  BY <1>0, <1>1, <1>3 DEF Busy
<1>7. /\ k.dataTxed = j.dataTxed + data
      /\ k.dataLeftToTx = j.dataLeftToTx - data
      /\ k.dummyLeftToTx = j.dummyLeftToTx - dummy
      /\ k.dataRxed = j.dataRxed
      /\ k.dataLeftToRx = j.dataLeftToRx
      /\ k.dummyLeftToRx = j.dummyLeftToRx
      /\ k.status = j.status
      /\ \A d \in Elements \ {e} : job'[d] = job[d]
  BY <1>0, <1>1, <1>2, <1>3 DEF JobObject
<1>8. /\ data \in Nat /\ dummy \in Nat /\ data + dummy <= room
      /\ data > 0 => j.dataTxed = S /\ S + data <= t
      /\ dummy > 0 => S + data >= t
      /\ Numbers(k, t, r, S + data + dummy, Answered)
  <2>1. /\ Numbers(j, t, r, S, Answered) /\ room \in Nat
        /\ data = AtMost(j.dataLeftToTx, room)
        /\ dummy = AtMost(j.dummyLeftToTx, room - data)
        /\ k.dataTxed = j.dataTxed + data
        /\ k.dataLeftToTx = j.dataLeftToTx - data
        /\ k.dummyLeftToTx = j.dummyLeftToTx - dummy
        /\ k.dataRxed = j.dataRxed
        /\ k.dataLeftToRx = j.dataLeftToRx
        /\ k.dummyLeftToRx = j.dummyLeftToRx
    BY <1>0, <1>5, <1>6, <1>7
  <2>2. PICK R : R = Answered
    OBVIOUS
  <2>3. Numbers(j, t, r, S, R)
    BY <2>1, <2>2
  <2>4. Numbers(k, t, r, S + data + dummy, R)
    BY ONLY <2>1, <2>3, SendNumbers
  <2>5. /\ data \in Nat /\ dummy \in Nat /\ data + dummy <= room
        /\ data > 0 => j.dataTxed = S /\ S + data <= t
        /\ dummy > 0 => S + data >= t
    BY ONLY <2>1, <2>3, <2>4, SendNumbers
  <2> QED BY <2>2, <2>4, <2>5
<1>9. /\ tx' \in Seq(Nat) /\ Len(tx') = Len(tx) + data + dummy
      /\ Wire(tx', f, t)
  <2>1. tx \in Seq(Nat) /\ Wire(tx, f, t) /\ t \in Nat
    BY <1>0, <1>3, <1>6 DEF DriverInv, ModuleInv, Busy, Numbers
  <2>2. /\ data > 0 => j.dataTxed = f + Len(tx) /\ f + Len(tx) + data <= t
        /\ dummy > 0 => f + Len(tx) + data >= t
    BY <1>4, <1>8
  <2>3. PICK x, y, from : x = tx /\ y = tx' /\ from = j.dataTxed
    OBVIOUS
  <2>4. /\ x \in Seq(Nat) /\ Wire(x, f, t) /\ t \in Nat /\ f \in Nat
        /\ data \in Nat /\ dummy \in Nat
        /\ data > 0 => from = f + Len(x) /\ f + Len(x) + data <= t
        /\ dummy > 0 => f + Len(x) + data >= t
        /\ y = Behind(x, from, data, dummy)
    BY <2>1, <2>2, <2>3, <1>1, <1>4, <1>8
  <2>5. y \in Seq(Nat) /\ Len(y) = Len(x) + data + dummy /\ Wire(y, f, t)
    BY ONLY <2>4, SentOnWire
  <2> QED BY <2>3, <2>5
<1>10. /\ InModule' = InModule + data + dummy /\ InModule' <= FifoSize
       /\ InModule' \in Nat
       /\ Sent' = S + data + dummy /\ Answered' = Answered
  <2>1. /\ InModule = Len(tx) + Len(shift) + Len(rx)
        /\ InModule' = Len(tx) + data + dummy + Len(shift) + Len(rx)
        /\ S = Len(clocked) + Len(shift) + Len(tx)
        /\ Sent' = Len(clocked) + Len(shift) + (Len(tx) + data + dummy)
        /\ Answered' = Answered
    BY <1>0, <1>1, <1>9 DEF InModule, Sent, Answered
  <2>2. InModule' = InModule + data + dummy /\ Sent' = S + data + dummy
    BY <2>1, <1>4, <1>8
  <2> QED BY <2>1, <2>2, <1>4, <1>5, <1>8
<1>11. job' \in [Elements -> JobObject]
  <2>1. /\ j.dataLeftToTx - data \in Nat /\ j.dummyLeftToTx - dummy \in Nat
        /\ j.dataTxed + data \in Nat
    <3>1. /\ j.dataLeftToTx \in Nat /\ j.dummyLeftToTx \in Nat /\ j.dataTxed \in Nat
      BY <1>3 DEF JobObject
    <3>2. /\ data \in Nat /\ dummy \in Nat /\ room \in Nat /\ room - data \in Nat
      BY <1>5, <1>8
    <3>3. data <= j.dataLeftToTx
      BY <3>1, <3>2, <1>0 DEF AtMost
    <3>4. dummy <= j.dummyLeftToTx
      BY <3>1, <3>2, <1>0 DEF AtMost
    <3> QED BY <3>1, <3>2, <3>3, <3>4
  <2>2. k \in JobObject
    <3>1. k = [j EXCEPT !.dataLeftToTx = @ - data, !.dummyLeftToTx = @ - dummy,
                        !.dataTxed = @ + data]
      BY <1>0, <1>1, <1>2, <1>3
    <3> QED BY <3>1, <2>1, <1>3 DEF JobObject
  <2>3. job' = [job EXCEPT ![e] = k]
    BY <1>0, <1>1, <1>2, <1>3
  <2> QED BY <2>2, <2>3, <1>2, <1>3
<1>12. PoolInv' /\ Contents(mem, Q)' = Contents(mem, Q)
  BY <1>1, <1>2, QuietStep DEF DriverInv
<1>13. AllFresh(Contents(mem, Q), job', asked', received')
  <2>0. PICK c : c = Contents(mem, Q)
    OBVIOUS
  <2>1. c \in Seq(Elements) /\ ~On(e, c) /\ AllFresh(c, job, asked, received)
    BY <2>0, <1>0, <1>2, WaitingIs DEF DriverInv, JobsInv
  <2>2. Untouched(c, job, asked, received, job', asked', received')
    BY <2>1, <1>1, <1>7 DEF Untouched
  <2> QED BY <2>0, <2>1, <2>2, FreshStays
<1>14. ModuleInv'
  BY <1>1, <1>9, <1>10 DEF DriverInv, ModuleInv
<1>15. symbolsInProgress' = InModule'
  BY <1>0, <1>1, <1>3, <1>10 DEF Busy
<1>16. JobsInv'
  <2>1. symbolsInProgress' \in 0 .. FifoSize
    BY <1>4, <1>10, <1>15
  <2> QED BY <2>1, <1>1, <1>11, <1>12, <1>13 DEF DriverInv, JobsInv
<1>17. Busy(currentJob, asked[currentJob].tx, asked[currentJob].rx)'
  <2>1. Numbers(job'[e], t, r, Sent', Answered') /\ job'[e].status = "PROCESSING"
    BY <1>0, <1>6, <1>7, <1>8, <1>10
  <2>2. /\ Wire(clocked, 0, t) /\ Wire(shift, Len(clocked), t) /\ Wire(tx', f, t)
        /\ Count(received[e], 0) /\ Len(received[e]) = AtMost(Answered, r)
        /\ blocking = NoExchange
    BY <1>3, <1>9 DEF Busy
  <2>3. /\ currentJob' = e /\ asked' = asked /\ t = asked[e].tx /\ r = asked[e].rx
        /\ f = Len(clocked) + Len(shift)
    BY <1>0, <1>1
  <2> QED BY <2>1, <2>2, <2>3, <1>1, <1>10, <1>15 DEF Busy, Places
<1> QED BY <1>1, <1>2, <1>12, <1>14, <1>16, <1>17 DEF DriverInv

\* The first answers there are join those received already.
Received(g, x, data) == g \o SubSeq(x, 1, data)

LEMMA GotMore ==
    ASSUME NEW g \in Seq(Nat), Count(g, 0), NEW x \in Seq(Nat), NEW R \in Nat,
           Count(x, R), NEW data \in Nat, data <= Len(x),
           data > 0 => Len(g) = R
    PROVE  /\ Received(g, x, data) \in Seq(Nat)
           /\ Len(Received(g, x, data)) = Len(g) + data
           /\ Count(Received(g, x, data), 0)
<1>0. PICK u : u = SubSeq(x, 1, data)
  OBVIOUS
<1>1. u \in Seq(Nat) /\ Len(u) = data /\ \A i \in 1 .. data : u[i] = x[i]
  BY <1>0
<1>2. Count(u, 0 + Len(g))
  <2> SUFFICES ASSUME NEW i \in 1 .. data PROVE u[i] = 0 + Len(g) + i
    BY <1>1 DEF Count
  <2>1. Len(g) = R /\ i \in 1 .. Len(x)
    OBVIOUS
  <2>2. x[i] = R + i
    BY <2>1 DEF Count
  <2> QED BY <2>1, <2>2, <1>1
<1>3. PICK f : f = 0 /\ f \in Nat
  OBVIOUS
<1>4. g \in Seq(Nat) /\ u \in Seq(Nat) /\ Count(g, f) /\ Count(u, f + Len(g))
  BY <1>1, <1>2, <1>3
<1>5. /\ Count(g \o u, f) /\ g \o u \in Seq(Nat)
      /\ Len(g \o u) = Len(g) + Len(u)
  BY ONLY <1>3, <1>4, CountJoin
<1> QED BY ONLY <1>0, <1>1, <1>3, <1>5 DEF Received

\* Answers are taken from the module: all that are there.
LEMMA DriverReceive == ASSUME DriverInv, Tasks_Receive PROVE DriverInv'
<1>0. PICK e, j, k, t, r, S, R, n, data, dummy :
        /\ e = currentJob /\ j = job[e]
        /\ t = asked[e].tx /\ r = asked[e].rx /\ S = Sent /\ R = Answered
        /\ n = Len(rx)
        /\ data = AtMost(j.dataLeftToRx, n)
        /\ dummy = AtMost(j.dummyLeftToRx, n - data)
        /\ k = [j EXCEPT !.dataLeftToRx = @ - data,
                         !.dummyLeftToRx = @ - dummy,
                         !.dataRxed = @ + data]
  BY ZenonT(60)
<1>1. /\ pc = "receive"
      /\ received' = [received EXCEPT ![e] = @ \o SubSeq(rx, 1, data)]
      /\ rx' = SubSeq(rx, data + dummy + 1, Len(rx))
      /\ symbolsInProgress' = symbolsInProgress - (data + dummy)
      /\ job' = [job EXCEPT ![e] = IF LeftToReceive(k) = 0
                                   THEN [k EXCEPT !.status = "COMPLETE"] ELSE k]
      /\ pc' = IF LeftToReceive(k) = 0 THEN "callback" ELSE "client"
      /\ done' = IF LeftToReceive(k) = 0
                 THEN [id |-> e, sent |-> clocked, got |-> received'[e]] ELSE done
      /\ UNCHANGED <<mem, asked, other, currentJob, tx, shift, overflow,
                     blocking, clocked>>
  BY <1>0 DEF Tasks_Receive
<1>2. currentJob # NULL /\ e \in Elements
  BY <1>0, <1>1 DEF DriverInv, PoolInv
<1>3. /\ Busy(e, t, r)
      /\ job \in [Elements -> JobObject] /\ j \in JobObject
      /\ asked \in [Elements -> [tx : Nat, rx : Nat]]
      /\ received \in [Elements -> Seq(Nat)] /\ received[e] \in Seq(Nat)
      /\ done = NoneDone
      /\ rx \in Seq(Nat) /\ Count(rx, R)
  BY <1>0, <1>1, <1>2 DEF DriverInv, JobsInv, ModuleInv
<1>4. /\ Len(tx) \in Nat /\ n \in Nat /\ Len(clocked) \in Nat /\ Len(shift) \in Nat
      /\ InModule \in Nat /\ InModule <= FifoSize /\ FifoSize \in Nat
      /\ InModule = Len(tx) + Len(shift) + n
      /\ S = Len(clocked) + Len(shift) + Len(tx)
      /\ R = Len(clocked) - n
  BY <1>0, LengthsAre DEF DriverInv, Sent, Answered, InModule
<1>5. Numbers(j, t, r, S, R) /\ j.status = "PROCESSING"
  BY <1>0, <1>1, <1>3 DEF Busy
<1>6. R \in Nat /\ t \in Nat /\ r \in Nat /\ S <= AtLeast(t, r) /\ R + n <= S
      /\ R + n = Len(clocked) /\ AtLeast(t, r) \in Nat
  BY <1>4, <1>5 DEF Numbers, AtLeast
<1>7. /\ k.dataRxed = j.dataRxed + data
      /\ k.dataLeftToRx = j.dataLeftToRx - data
      /\ k.dummyLeftToRx = j.dummyLeftToRx - dummy
      /\ k.dataTxed = j.dataTxed
      /\ k.dataLeftToTx = j.dataLeftToTx
      /\ k.dummyLeftToTx = j.dummyLeftToTx
      /\ k.status = j.status
  BY <1>0, <1>3 DEF JobObject
<1>8. /\ Numbers(k, t, r, S, R + n)
      /\ data \in Nat /\ dummy \in Nat /\ data + dummy = n
      /\ data > 0 => AtMost(R, r) = R
      /\ AtMost(R + n, r) = AtMost(R, r) + data
      /\ LeftToReceive(k) = AtLeast(t, r) - (R + n)
  <2>1. /\ Numbers(j, t, r, S, R) /\ n \in Nat /\ R + n <= S
        /\ data = AtMost(j.dataLeftToRx, n)
        /\ dummy = AtMost(j.dummyLeftToRx, n - data)
    BY <1>0, <1>4, <1>5, <1>6
  <2>2. Numbers(k, t, r, S, R + n)
    BY ONLY <2>1, <1>7, ReceiveNumbers
  <2>3. /\ data \in Nat /\ dummy \in Nat /\ data + dummy = n
        /\ data > 0 => AtMost(R, r) = R
        /\ AtMost(R + n, r) = AtMost(R, r) + data
        /\ LeftToReceive(k) = AtLeast(t, r) - (R + n)
    BY ONLY <2>1, <2>2, <1>7, ReceiveNumbers
  <2> QED BY <2>2, <2>3
<1>9. rx' = <<>> /\ Len(rx') = 0
  <2>1. rx' = SubSeq(rx, n + 1, n)
    BY <1>0, <1>1, <1>8
  <2> QED BY <2>1, <1>3, <1>4, SMTT(30)
<1>10. /\ received'[e] \in Seq(Nat) /\ Count(received'[e], 0)
       /\ Len(received'[e]) = AtMost(R + n, r)
       /\ \A d \in Elements \ {e} : received'[d] = received[d]
  <2>1. PICK g, x, h : g = received[e] /\ x = rx /\ h = received'[e]
    OBVIOUS
  <2>2. /\ g \in Seq(Nat) /\ x \in Seq(Nat) /\ Count(x, R) /\ R \in Nat
        /\ data \in Nat /\ data <= Len(x)
        /\ Count(g, 0) /\ Len(g) = AtMost(R, r)
        /\ data > 0 => Len(g) = R
        /\ h = Received(g, x, data)
    <3>1. /\ Count(g, 0) /\ Len(g) = AtMost(R, r)
          /\ g \in Seq(Nat) /\ x \in Seq(Nat) /\ Count(x, R)
      BY <2>1, <1>0, <1>3 DEF Busy
    <3>2. data \in Nat /\ data <= Len(x) /\ (data > 0 => Len(g) = R)
      BY <3>1, <2>1, <1>0, <1>4, <1>8
    <3>3. h = Received(g, x, data)
      BY <2>1, <1>1, <1>2, <1>3 DEF Received
    <3> QED BY <3>1, <3>2, <3>3, <1>6
  <2>3. h \in Seq(Nat) /\ Len(h) = Len(g) + data /\ Count(h, 0)
    <3>1. /\ Received(g, x, data) \in Seq(Nat)
          /\ Len(Received(g, x, data)) = Len(g) + data
          /\ Count(Received(g, x, data), 0)
      BY ONLY <2>2, GotMore
    <3> QED BY <3>1, <2>2
  <2>4. \A d \in Elements \ {e} : received'[d] = received[d]
    BY <1>1, <1>2, <1>3
  <2> QED BY <2>1, <2>2, <2>3, <2>4, <1>8
<1>11. /\ InModule' = InModule - n /\ InModule' \in Nat /\ InModule' <= FifoSize
       /\ Sent' = S /\ Answered' = R + n
       /\ symbolsInProgress' = InModule'
  <2>1. /\ InModule' = Len(tx) + Len(shift) + 0
        /\ Sent' = S /\ Answered' = Len(clocked) - 0
    BY <1>0, <1>1, <1>9 DEF InModule, Sent, Answered
  <2>2. symbolsInProgress' = InModule - n
    BY <1>1, <1>0, <1>3, <1>8 DEF Busy
  <2>3. PICK a, b, c : a = Len(tx) /\ b = Len(shift) /\ c = Len(clocked)
    OBVIOUS
  <2>4. /\ a \in Nat /\ b \in Nat /\ c \in Nat /\ n \in Nat
        /\ InModule = a + b + n /\ InModule <= FifoSize
        /\ FifoSize \in Nat /\ S = c + b + a /\ R = c - n
        /\ InModule' = a + b /\ Sent' = c + b + a /\ Answered' = c
    BY <2>1, <2>3, <1>4
  <2> QED BY ONLY <2>2, <2>4
<1>12. PICK l : /\ l = job'[e]
                /\ l = IF LeftToReceive(k) = 0
                       THEN [k EXCEPT !.status = "COMPLETE"] ELSE k
  BY <1>1, <1>2, <1>3
<1>13. k \in JobObject
  <2>1. /\ j.dataLeftToRx \in Nat /\ j.dummyLeftToRx \in Nat /\ j.dataRxed \in Nat
    BY <1>3 DEF JobObject
  <2>2. /\ n - data \in Nat
    BY <1>4, <1>8
  <2>3. data <= j.dataLeftToRx
    BY <2>1, <1>4, <1>0 DEF AtMost
  <2>4. dummy <= j.dummyLeftToRx
    BY <2>1, <2>2, <1>0 DEF AtMost
  <2>5. /\ j.dataLeftToRx - data \in Nat /\ j.dummyLeftToRx - dummy \in Nat
        /\ j.dataRxed + data \in Nat
    BY <2>1, <2>3, <2>4, <1>8
  <2>6. k = [j EXCEPT !.dataLeftToRx = @ - data, !.dummyLeftToRx = @ - dummy,
                      !.dataRxed = @ + data]
    BY <1>0
  <2> QED BY <2>5, <2>6, <1>3 DEF JobObject
<1>14. /\ l \in JobObject /\ Numbers(l, t, r, S, R + n)
       /\ l.status = IF LeftToReceive(k) = 0 THEN "COMPLETE" ELSE "PROCESSING"
  <2>1. CASE LeftToReceive(k) = 0
    <3>1. l = [k EXCEPT !.status = "COMPLETE"]
      BY <2>1, <1>12
    <3>2. l \in JobObject /\ l.status = "COMPLETE"
      BY <3>1, <1>13 DEF JobObject, Statuses
    <3>3. /\ l.dataTxed = k.dataTxed /\ l.dataRxed = k.dataRxed
          /\ l.dataLeftToTx = k.dataLeftToTx /\ l.dummyLeftToTx = k.dummyLeftToTx
          /\ l.dataLeftToRx = k.dataLeftToRx /\ l.dummyLeftToRx = k.dummyLeftToRx
      BY <3>1, <1>13 DEF JobObject
    <3> QED BY <2>1, <3>2, <3>3, <1>8 DEF Numbers
  <2>2. CASE LeftToReceive(k) # 0
    BY <2>2, <1>12, <1>13, <1>5, <1>7, <1>8
  <2> QED BY <2>1, <2>2
<1>15. /\ job' \in [Elements -> JobObject]
       /\ received' \in [Elements -> Seq(Nat)]
       /\ \A d \in Elements \ {e} : job'[d] = job[d]
  BY <1>1, <1>2, <1>3, <1>10, <1>12, <1>14
<1>16. LeftToReceive(k) = 0 => /\ Len(clocked) = AtLeast(t, r) /\ InModule' = 0
  <2>1. PICK a, b, c, z : /\ a = Len(tx) /\ b = Len(shift) /\ c = Len(clocked)
                          /\ z = AtLeast(t, r)
    OBVIOUS
  <2>2. /\ a \in Nat /\ b \in Nat /\ c \in Nat /\ n \in Nat /\ z \in Nat
        /\ InModule = a + b + n /\ S = c + b + a /\ R = c - n
        /\ S <= z /\ LeftToReceive(k) = z - (R + n) /\ InModule' = InModule - n
    BY <2>1, <1>4, <1>6, <1>8, <1>11
  <2>3. LeftToReceive(k) = 0 => c = z /\ InModule' = 0
    BY ONLY <2>2
  <2> QED BY <2>1, <2>3
<1>17. PoolInv' /\ Contents(mem, Q)' = Contents(mem, Q)
  <2>1. pc' \in {"callback", "client"}
    BY <1>1
  <2> QED BY <2>1, <1>1, <1>2, QuietStep DEF DriverInv
<1>18. AllFresh(Contents(mem, Q), job', asked', received')
  <2>0. PICK c : c = Contents(mem, Q)
    OBVIOUS
  <2>1. c \in Seq(Elements) /\ ~On(e, c) /\ AllFresh(c, job, asked, received)
    BY <2>0, <1>0, <1>2, WaitingIs DEF DriverInv, JobsInv
  <2>2. Untouched(c, job, asked, received, job', asked', received')
    BY <2>1, <1>1, <1>10, <1>15 DEF Untouched
  <2> QED BY <2>0, <2>1, <2>2, FreshStays
<1>19. ModuleInv'
  <2>1. Count(rx', Answered') /\ rx' \in Seq(Nat)
    BY <1>9 DEF Count
  <2> QED BY <2>1, <1>1, <1>11 DEF DriverInv, ModuleInv
<1>20. JobsInv'
  <2>1. symbolsInProgress' \in 0 .. FifoSize
    BY <1>4, <1>11
  <2>2. done' = IF pc' = "callback"
                THEN [id |-> currentJob', sent |-> clocked', got |-> received'[currentJob']]
                ELSE NoneDone
    BY <1>0, <1>1, <1>3
  <2> QED BY <2>1, <2>2, <1>1, <1>15, <1>17, <1>18, <1>3 DEF DriverInv, JobsInv
<1>21. Busy(currentJob, asked[currentJob].tx, asked[currentJob].rx)'
  <2>1. /\ Numbers(job'[e], t, r, Sent', Answered')
        /\ job'[e].status = IF pc' \in {"callback", "free"} THEN "COMPLETE"
                            ELSE "PROCESSING"
    BY <1>1, <1>11, <1>12, <1>14
  <2>2. /\ Wire(clocked, 0, t) /\ Wire(shift, Len(clocked), t)
        /\ Wire(tx, Len(clocked) + Len(shift), t) /\ blocking = NoExchange
    BY <1>3 DEF Busy
  <2>3. /\ currentJob' = e /\ asked' = asked /\ t = asked[e].tx /\ r = asked[e].rx
    BY <1>0, <1>1
  <2>4. /\ pc' \in Places \ {"fill", "drain", "errorCallback", "errorFree", "stale"}
        /\ pc' \in {"callback", "free"} => Len(clocked) = AtLeast(t, r) /\ InModule' = 0
    BY <1>1, <1>16 DEF Places
  <2>5. Count(received'[e], 0) /\ Len(received'[e]) = AtMost(Answered', r)
    BY <1>10, <1>11
  <2> QED BY <2>1, <2>2, <2>3, <2>4, <2>5, <1>1, <1>11 DEF Busy
<1> QED BY <1>1, <1>2, <1>17, <1>19, <1>20, <1>21 DEF DriverInv

\* The job that is done goes back to the pool.
LEMMA DriverFree == ASSUME DriverInv, Tasks_Free PROVE DriverInv'
<1>0. PICK e, c : e = currentJob /\ c = Contents(mem, Q)
  OBVIOUS
<1>1. /\ pc = "free" /\ pc' = "client" /\ currentJob' = NULL
      /\ mem' = Freed(mem, Q, currentJob)
      /\ job' = [job EXCEPT ![e] = BlankJob]
      /\ asked' = [asked EXCEPT ![e] = NothingAsked]
      /\ received' = [received EXCEPT ![e] = <<>>]
      /\ clocked' = <<>>
      /\ UNCHANGED <<other, symbolsInProgress, tx, shift, rx, overflow, blocking, done>>
  BY <1>0, NoErrorPath DEF Tasks_Free
<1>2. currentJob # NULL /\ e \in Elements
  BY <1>0, <1>1 DEF DriverInv, PoolInv
<1>3. PoolInv' /\ Contents(mem, Q)' = c
  BY <1>0, <1>1, <1>2, FreeStep DEF DriverInv
<1>4. /\ job \in [Elements -> JobObject]
      /\ asked \in [Elements -> [tx : Nat, rx : Nat]]
      /\ received \in [Elements -> Seq(Nat)]
      /\ done = NoneDone
  BY <1>1 DEF DriverInv, JobsInv
<1>5. InModule = 0 /\ blocking = NoExchange
  BY <1>0, <1>1, <1>2 DEF DriverInv, Busy
<1>6. rx = <<>> /\ Len(rx) = 0 /\ FifoSize \in Nat /\ InModule' = 0 /\ Answered' = 0
      /\ Len(shift) <= 1
  <2>1. rx = <<>> /\ Len(rx) = 0 /\ FifoSize \in Nat /\ Len(shift) <= 1
    BY <1>5, LengthsAre DEF DriverInv
  <2>2. InModule' = 0
    BY <1>1, <1>5 DEF InModule
  <2>3. Answered' = 0
    BY <1>1, <2>1 DEF Answered
  <2> QED BY <2>1, <2>2, <2>3
<1>7. ModuleInv'
  <2>1. Count(rx', Answered')
    BY <1>1, <1>6 DEF Count
  <2> QED BY <2>1, <1>1, <1>6 DEF DriverInv, ModuleInv
<1>8. /\ job' \in [Elements -> JobObject]
      /\ asked' \in [Elements -> [tx : Nat, rx : Nat]]
      /\ received' \in [Elements -> Seq(Nat)]
      /\ \A d \in Elements \ {e} : /\ job'[d] = job[d]
                                   /\ asked'[d] = asked[d]
                                   /\ received'[d] = received[d]
  <2>1. BlankJob \in JobObject /\ NothingAsked \in [tx : Nat, rx : Nat]
        /\ <<>> \in Seq(Nat)
    BY DEF BlankJob, JobObject, Statuses, NothingAsked
  <2> QED BY <2>1, <1>1, <1>2, <1>4
<1>9. AllFresh(c, job', asked', received')
  <2>1. c \in Seq(Elements) /\ ~On(e, c) /\ AllFresh(c, job, asked, received)
    BY <1>0, <1>2, WaitingIs DEF DriverInv, JobsInv
  <2>2. Untouched(c, job, asked, received, job', asked', received')
    BY <2>1, <1>8 DEF Untouched
  <2> QED BY <2>1, <2>2, FreshStays
<1>10. JobsInv'
  BY <1>1, <1>3, <1>4, <1>8, <1>9 DEF DriverInv, JobsInv
<1>11. Idle'
  BY <1>1, <1>5, <1>6 DEF Idle, NoExchange
<1> QED BY <1>1, <1>3, <1>7, <1>10, <1>11 DEF DriverInv

\* The blocking exchange.
LEMMA DriverBlocks ==
    ASSUME DriverInv, NEW n \in BlockingSizes, Blocking_Start(n)
    PROVE  DriverInv'
<1>1. /\ pc = "client" /\ pc' = "fill" /\ currentJob = NULL
      /\ blocking' = [size |-> n, sent |-> 0, read |-> 0]
      /\ UNCHANGED <<mem, job, asked, other, currentJob, symbolsInProgress,
                     tx, shift, rx, overflow, received, clocked, done>>
  BY DEF Blocking_Start, poolVars, moduleVars
<1>2. n \in Nat
  BY SpiDriverAssumption
<1>3. PoolInv' /\ Contents(mem, Q)' = Contents(mem, Q)
  BY <1>1, QuietStep DEF DriverInv
<1>4. ModuleInv'
  BY <1>1 DEF DriverInv, ModuleInv, InModule, Answered
<1>5. JobsInv'
  BY <1>1, <1>2, <1>3 DEF DriverInv, JobsInv
<1>6. InModule = 0 /\ Answered = 0
  BY <1>1 DEF DriverInv, Idle, NoExchange
<1>7. Idle'
  BY <1>1, <1>2, <1>6 DEF Idle, InModule, Answered
<1> QED BY <1>1, <1>3, <1>4, <1>5, <1>7 DEF DriverInv

LEMMA DriverFills == ASSUME DriverInv, Blocking_Fill PROVE DriverInv'
<1>0. PICK sent, size, units, more :
        /\ sent = blocking.sent /\ size = blocking.size
        /\ units = IF tx = <<>> THEN AtMost(size - sent, FifoSize) ELSE 0
        /\ more = [n \in 1 .. units |-> sent + n]
  OBVIOUS
<1>1. /\ pc = "fill"
      /\ tx' = tx \o more
      /\ UNCHANGED <<mem, job, asked, other, currentJob, symbolsInProgress,
                     shift, rx, overflow, received, done>>
  BY <1>0 DEF Blocking_Fill, poolVars
<1>2. currentJob = NULL /\ Idle /\ sent = blocking.read /\ InModule = 0
      /\ Answered = blocking.read /\ sent <= size
      /\ blocking \in [size : Nat, sent : Nat, read : Nat]
      /\ sent \in Nat /\ size \in Nat /\ Answered = sent
  <2>1. currentJob = NULL /\ Idle
    BY <1>1, NullIsNone DEF DriverInv, PoolInv, Busy
  <2>2. /\ blocking \in [size : Nat, sent : Nat, read : Nat]
        /\ sent \in Nat /\ size \in Nat /\ blocking.read \in Nat
    BY <1>0 DEF DriverInv, JobsInv
  <2>3. /\ sent = blocking.read /\ InModule = sent - sent
        /\ Answered = blocking.read /\ sent <= size
    BY <1>0, <1>1, <2>1 DEF Idle
  <2> QED BY <2>1, <2>2, <2>3
<1>3. /\ blocking' = IF units = 0 THEN NoExchange ELSE [blocking EXCEPT !.sent = @ + units]
      /\ clocked' = IF units = 0 THEN <<>> ELSE clocked
      /\ pc' = IF units = 0 THEN "client" ELSE "drain"
  BY <1>0, <1>2 DEF Blocking_Fill
<1>4. /\ tx = <<>> /\ shift = <<>> /\ rx = <<>> /\ Len(rx) = 0 /\ Len(shift) = 0
      /\ FifoSize \in Nat /\ Len(clocked) \in Nat
  BY <1>2, LengthsAre DEF DriverInv
<1>5. units \in Nat /\ units <= FifoSize /\ sent + units <= size
  BY <1>0, <1>2, <1>4, SMTT(30) DEF AtMost
<1>6. more \in Seq(Nat) /\ Len(more) = units
  BY <1>0, <1>2, <1>5
<1>7. tx' \in Seq(Nat) /\ Len(tx') = units
  BY <1>1, <1>4, <1>6
<1>8. InModule' = units /\ Answered' = Len(clocked')
  BY <1>1, <1>4, <1>5, <1>7 DEF InModule, Answered
<1>9. /\ clocked' \in Seq(Nat) /\ Len(clocked') = IF units = 0 THEN 0 ELSE sent
  <2>1. Len(clocked) = sent
    BY <1>2, <1>4 DEF Answered
  <2> QED BY <2>1, <1>3 DEF DriverInv, ModuleInv
<1>10. PoolInv' /\ Contents(mem, Q)' = Contents(mem, Q)
  <2>1. pc' \in {"client", "drain"}
    BY <1>3
  <2> QED BY <1>1, <2>1, QuietStep DEF DriverInv
<1>11. ModuleInv'
  <2>1. Count(rx', Answered')
    BY <1>1, <1>4 DEF Count
  <2> QED BY <2>1, <1>1, <1>4, <1>5, <1>7, <1>8, <1>9 DEF DriverInv, ModuleInv
<1>12. /\ blocking' \in [size : Nat, sent : Nat, read : Nat]
       /\ units # 0 => /\ blocking'.size = size /\ blocking'.read = sent
                       /\ blocking'.sent = sent + units
  <2>1. CASE units = 0
    BY <2>1, <1>3 DEF NoExchange
  <2>2. CASE units # 0
    <3>1. blocking' = [blocking EXCEPT !.sent = @ + units]
      BY <2>2, <1>3
    <3>2. blocking.sent + units \in Nat
      BY <1>0, <1>2, <1>5
    <3> QED BY <3>1, <3>2, <2>2, <1>0, <1>2
  <2> QED BY <2>1, <2>2
<1>13. JobsInv'
  BY <1>1, <1>3, <1>10, <1>12 DEF DriverInv, JobsInv
<1>14. Idle'
  <2>1. CASE units = 0
    BY <2>1, <1>3, <1>8, <1>9 DEF Idle, NoExchange
  <2>2. CASE units # 0
    <3>1. blocking'.sent - blocking'.read = units
      BY <2>2, <1>12, <1>2, <1>5
    <3> QED BY <3>1, <2>2, <1>3, <1>5, <1>8, <1>9, <1>12 DEF Idle
  <2> QED BY <2>1, <2>2
<1> QED BY <1>1, <1>2, <1>10, <1>11, <1>13, <1>14 DEF DriverInv

LEMMA DriverDrains == ASSUME DriverInv, Blocking_Drain PROVE DriverInv'
<1>1. /\ pc = "drain"
      /\ UNCHANGED <<mem, job, asked, other, currentJob, symbolsInProgress,
                     tx, shift, overflow, received, clocked, done>>
      /\ pc' = "drain" \/ pc' = "fill"
  BY DEF Blocking_Drain, poolVars
<1>2. /\ currentJob = NULL /\ Idle
      /\ blocking \in [size : Nat, sent : Nat, read : Nat]
  BY <1>1, NullIsNone DEF DriverInv, PoolInv, Busy, JobsInv
<1>3. PoolInv' /\ Contents(mem, Q)' = Contents(mem, Q)
  BY <1>1, QuietStep DEF DriverInv
<1>4. CASE blocking.sent = blocking.read
  <2>1. pc' = "fill" /\ UNCHANGED <<blocking, rx>>
    BY <1>4 DEF Blocking_Drain
  <2>2. ModuleInv'
    BY <1>1, <2>1 DEF DriverInv, ModuleInv, InModule, Answered
  <2>3. JobsInv'
    BY <1>1, <1>3, <2>1 DEF DriverInv, JobsInv
  <2>4. Idle'
    BY <1>1, <1>2, <1>4, <2>1 DEF Idle, InModule, Answered
  <2> QED BY <1>1, <1>2, <1>3, <2>2, <2>3, <2>4 DEF DriverInv
<1>5. CASE blocking.sent # blocking.read
  <2>1. /\ pc' = "drain" /\ rx # <<>> /\ rx' = Tail(rx)
        /\ blocking' = [blocking EXCEPT !.read = @ + 1]
    BY <1>1, <1>5 DEF Blocking_Drain
  <2>2. /\ rx \in Seq(Nat) /\ Count(rx, Answered) /\ Answered = blocking.read
        /\ Answered \in Nat
    BY <1>2 DEF DriverInv, ModuleInv, Idle
  <2>3. /\ rx' \in Seq(Nat) /\ Len(rx') = Len(rx) - 1 /\ Len(rx) \in Nat
        /\ Count(rx', Answered + 1)
    BY <2>1, <2>2, CountTail
  <2>4. /\ Len(tx) \in Nat /\ Len(shift) \in Nat /\ Len(clocked) \in Nat
        /\ Len(shift) <= 1 /\ InModule \in Nat /\ InModule <= FifoSize /\ FifoSize \in Nat
    BY LengthsAre DEF DriverInv
  <2>5. InModule' = InModule - 1 /\ Answered' = Answered + 1
    BY <1>1, <2>3, <2>4 DEF InModule, Answered
  <2>6. ModuleInv'
    BY <1>1, <2>3, <2>4, <2>5 DEF DriverInv, ModuleInv
  <2>7. /\ blocking' \in [size : Nat, sent : Nat, read : Nat]
        /\ blocking'.sent = blocking.sent /\ blocking'.read = blocking.read + 1
        /\ blocking'.size = blocking.size
    BY <1>2, <2>1
  <2>8. JobsInv'
    BY <1>1, <1>3, <2>1, <2>7 DEF DriverInv, JobsInv
  <2>9. Idle'
    <3>1. InModule = blocking.sent - blocking.read /\ blocking.sent \in Nat
          /\ blocking.read \in Nat /\ blocking.sent <= blocking.size
      BY <1>2 DEF Idle
    <3> QED BY <3>1, <2>1, <2>2, <2>4, <2>5, <2>7 DEF Idle
  <2> QED BY <1>1, <1>2, <1>3, <2>6, <2>8, <2>9 DEF DriverInv
<1> QED BY <1>4, <1>5

\* The module takes the next symbol.
LEMMA DriverShifts == ASSUME DriverInv, Module_ShiftStarts PROVE DriverInv'
<1>1. /\ tx # <<>> /\ shift = <<>> /\ shift' = <<Head(tx)>> /\ tx' = Tail(tx)
      /\ UNCHANGED <<mem, job, asked, other, pc, currentJob, symbolsInProgress,
                     rx, overflow, blocking, received, clocked, done>>
  BY DEF Module_ShiftStarts, poolVars, driverVars
<1>2. /\ tx \in Seq(Nat) /\ Len(tx) \in Nat /\ Len(rx) \in Nat /\ Len(clocked) \in Nat
      /\ Len(shift) = 0
  BY <1>1, LengthsAre DEF DriverInv, ModuleInv
<1>3. /\ tx' \in Seq(Nat) /\ Len(tx') = Len(tx) - 1
      /\ shift' \in Seq(Nat) /\ Len(shift') = 1
  <2>1. Head(tx) \in Nat /\ Len(tx) > 0
    BY <1>1, <1>2, EmptySeq
  <2> QED BY <2>1, <1>1, <1>2
<1>4. InModule' = InModule /\ Sent' = Sent /\ Answered' = Answered
  BY <1>1, <1>2, <1>3 DEF InModule, Sent, Answered
<1>5. PoolInv' /\ Contents(mem, Q)' = Contents(mem, Q)
  BY <1>1, QuietStep DEF DriverInv
<1>6. ModuleInv'
  BY <1>1, <1>3, <1>4 DEF DriverInv, ModuleInv
<1>7. JobsInv'
  BY <1>1, <1>5 DEF DriverInv, JobsInv
<1>8. currentJob' = NULL => Idle'
  BY <1>1, <1>4 DEF DriverInv, Idle
<1>9. ASSUME currentJob' # NULL
      PROVE  Busy(currentJob, asked[currentJob].tx, asked[currentJob].rx)'
  <2>0. PICK e, t, r, f, x : /\ e = currentJob /\ t = asked[e].tx /\ r = asked[e].rx
                             /\ f = Len(clocked) /\ x = tx
    OBVIOUS
  <2>1. Busy(e, t, r)
    BY <1>1, <1>9, <2>0 DEF DriverInv
  <2>2. /\ x \in Seq(Nat) /\ x # <<>> /\ f \in Nat /\ t \in Nat /\ Wire(x, f, t)
    <3>1. Len(clocked) + Len(shift) = f
      BY <1>2, <2>0
    <3>2. Wire(tx, Len(clocked) + Len(shift), t) /\ t \in Nat
      BY <2>1 DEF Busy, Numbers
    <3> QED BY <3>1, <3>2, <1>1, <1>2, <2>0
  <2>3. Wire(<<Head(x)>>, f, t) /\ Wire(Tail(x), f + 1, t)
    BY ONLY <2>2, WireTail
  <2>4. Wire(shift', Len(clocked'), t) /\ Wire(tx', Len(clocked') + Len(shift'), t)
    BY <2>0, <2>3, <1>1, <1>3
  <2> QED BY <2>0, <2>1, <2>4, <1>1, <1>4 DEF Busy
<1> QED BY <1>5, <1>6, <1>7, <1>8, <1>9 DEF DriverInv

\* The module has sent a symbol and received the answer, for which there is
\* room.
LEMMA DriverAnswers == ASSUME DriverInv, Module_ShiftEnds PROVE DriverInv'
<1>1. /\ shift # <<>> /\ shift' = <<>> /\ clocked' = clocked \o shift
      /\ UNCHANGED <<mem, job, asked, other, pc, currentJob, symbolsInProgress,
                     tx, blocking, received, done>>
  BY DEF Module_ShiftEnds, poolVars, driverVars
<1>2. /\ tx \in Seq(Nat) /\ shift \in Seq(Nat) /\ clocked \in Seq(Nat)
      /\ rx \in Seq(Nat)
  BY DEF DriverInv, ModuleInv
<1>3. /\ Len(tx) \in Nat /\ Len(rx) \in Nat /\ Len(clocked) \in Nat
       /\ Len(shift) \in Nat /\ Len(shift) <= 1 /\ FifoSize \in Nat
       /\ Len(tx) + Len(shift) + Len(rx) <= FifoSize
  BY LengthsAre DEF DriverInv, InModule
<1>4. Len(shift) = 1
  <2>1. Len(shift) # 0
    BY <1>1, <1>2, EmptySeq
  <2>2. PICK n : n = Len(shift)
    OBVIOUS
  <2>3. n \in Nat /\ n <= 1 /\ n # 0
    BY <2>1, <2>2, <1>3
  <2>4. n = 1
    BY ONLY <2>3
  <2> QED BY <2>2, <2>4
<1>5. Len(rx) < FifoSize
  BY <1>3, <1>4
<1>6. /\ clocked' \in Seq(Nat) /\ Len(clocked') = Len(clocked) + 1
  <2>1. PICK x, y : x = clocked /\ y = shift
    OBVIOUS
  <2>2. x \in Seq(Nat) /\ y \in Seq(Nat) /\ Len(y) = 1
    BY <2>1, <1>2, <1>4
  <2>3. x \o y \in Seq(Nat) /\ Len(x \o y) = Len(x) + Len(y)
    <3>1. x \in Seq(Nat) /\ y \in Seq(Nat)
      BY <2>2
    <3> QED BY ONLY <3>1
  <2> QED BY <2>1, <2>2, <2>3, <1>1
<1>7. /\ rx' = Append(rx, Len(clocked')) /\ overflow' = overflow
  BY <1>5 DEF Module_ShiftEnds
<1>8. /\ rx' \in Seq(Nat) /\ Len(rx') = Len(rx) + 1 /\ Len(shift') = 0
  BY <1>1, <1>2, <1>3, <1>6, <1>7
<1>9. InModule' = InModule /\ Sent' = Sent /\ Answered' = Answered
  BY <1>1, <1>3, <1>4, <1>6, <1>8 DEF InModule, Sent, Answered
<1>10. Count(rx', Answered)
  <2> SUFFICES ASSUME NEW i \in 1 .. Len(rx) + 1 PROVE rx'[i] = Answered + i
    BY <1>8 DEF Count
  <2>1. CASE i <= Len(rx)
    <3>1. i \in 1 .. Len(rx) /\ rx'[i] = rx[i]
      BY <2>1, <1>2, <1>3, <1>6, <1>7
    <3> QED BY <3>1 DEF DriverInv, ModuleInv, Count
  <2>2. CASE i = Len(rx) + 1
    <3>1. rx'[i] = Len(clocked) + 1
      BY <2>2, <1>2, <1>3, <1>6, <1>7
    <3> QED BY <3>1, <2>2, <1>3 DEF Answered
  <2>3. i <= Len(rx) \/ i = Len(rx) + 1
    BY <1>3
  <2> QED BY <2>1, <2>2, <2>3
<1>11. PoolInv' /\ Contents(mem, Q)' = Contents(mem, Q)
  BY <1>1, QuietStep DEF DriverInv
<1>12. ModuleInv'
  BY <1>1, <1>2, <1>3, <1>6, <1>7, <1>8, <1>9, <1>10 DEF DriverInv, ModuleInv
<1>13. currentJob # NULL => pc \notin {"callback", "free"}
  <2>1. InModule # 0
    BY <1>3, <1>4 DEF InModule
  <2> QED BY <2>1 DEF DriverInv, Busy
<1>14. JobsInv'
  <2>1. pc # "callback"
    BY <1>13 DEF DriverInv, PoolInv
  <2> QED BY <2>1, <1>1, <1>11 DEF DriverInv, JobsInv
<1>15. currentJob' = NULL => Idle'
  BY <1>1, <1>9 DEF DriverInv, Idle
<1>16. ASSUME currentJob' # NULL
       PROVE  Busy(currentJob, asked[currentJob].tx, asked[currentJob].rx)'
  <2>0. PICK e, t, r, x, y : /\ e = currentJob /\ t = asked[e].tx /\ r = asked[e].rx
                             /\ x = clocked /\ y = shift
    OBVIOUS
  <2>1. Busy(e, t, r)
    BY <1>1, <1>16, <2>0 DEF DriverInv
  <2>2. /\ x \in Seq(Nat) /\ y \in Seq(Nat) /\ t \in Nat
        /\ Wire(x, 0, t) /\ Wire(y, 0 + Len(x), t)
        /\ Wire(tx, Len(clocked) + Len(shift), t)
    BY <2>0, <2>1, <1>2 DEF Busy, Numbers
  <2>3. Wire(x \o y, 0, t)
    BY ONLY <2>2, WireJoin
  <2>4. /\ Wire(clocked', 0, t) /\ Wire(shift', Len(clocked'), t)
        /\ Len(clocked') + Len(shift') = Len(clocked) + Len(shift)
    BY <2>0, <2>3, <1>1, <1>3, <1>4, <1>6, <1>8 DEF Wire
  <2> QED BY <2>0, <2>1, <2>2, <2>4, <1>1, <1>9, <1>13, <1>16 DEF Busy
<1> QED BY <1>11, <1>12, <1>14, <1>15, <1>16 DEF DriverInv

LEMMA DriverNext == DriverInv /\ [Next]_vars => DriverInv'
<1> SUFFICES ASSUME DriverInv, [Next]_vars PROVE DriverInv'
  OBVIOUS
<1>1. CASE Client
  BY <1>1, ClientCases, DriverAdd, DriverBlocks
<1>2. CASE OtherClient
  BY <1>2, DriverOther
<1>3. CASE DRV_SPI0_Tasks
  BY <1>3, DriverStart, DriverContinue, DriverSend, DriverError, DriverReceive,
     DriverReturn, DriverFree DEF DRV_SPI0_Tasks
<1>4. CASE BufferAddWriteRead
  BY <1>4, DriverFills, DriverDrains DEF BufferAddWriteRead
<1>5. CASE Module
  BY <1>5, DriverShifts, DriverAnswers DEF Module
<1>6. CASE UNCHANGED vars
  BY <1>6, DriverStutters
<1> QED BY <1>1, <1>2, <1>3, <1>4, <1>5, <1>6 DEF Next, DRV_SPI_Tasks

LEMMA DriverInvAlways == Spec => []DriverInv
<1> QED BY DriverInit, DriverNext, PTL DEF Spec

\* The areas of memory, the objects and the FIFOs have the sizes and the values
\* they are declared with (drv_spi_static_local.h, drv_spi_sys_queue_local.h).
THEOREM TypeCorrect == Spec => []TypeOK
<1>1. DriverInv => TypeOK
  <2> SUFFICES ASSUME DriverInv PROVE TypeOK
    OBVIOUS
  <2>1. mem \in Area
    <3>1. PICK F, C : Layout(mem, F, C, Held)
      BY DEF DriverInv, PoolInv, Pool, Laid
    <3> QED BY <3>1 DEF Layout
  <2>2. /\ pc \in Places /\ currentJob \in Elements \cup {NULL}
        /\ other \in [open : BOOLEAN, held : SUBSET Elements]
    BY DEF DriverInv, PoolInv
  <2> QED BY <2>1, <2>2 DEF TypeOK, DriverInv, ModuleInv, JobsInv
<1> QED BY <1>1, DriverInvAlways, PTL

\* The driver never has more symbols in the module than its FIFO holds, so that
\* no answer is lost and the error path, which goes on with a job it has
\* freed, is not entered; symbolsInProgress is exact; a job has an answer to
\* come for every symbol still to be sent or in the module; and a blocking
\* exchange finds and leaves the module empty (drv_spi_static_ebm_tasks.c,
\* DRV_SPI0_MasterEBMSend8BitPolled and DRV_SPI0_MasterEBMReceive8BitPolled).
THEOREM NothingLostCorrect == Spec => []NothingLost
<1>1. DriverInv => NothingLost
  <2> SUFFICES ASSUME DriverInv PROVE NothingLost
    OBVIOUS
  <2>1. ~overflow /\ InModule <= FifoSize
    BY DEF DriverInv, ModuleInv
  <2>2. pc \notin {"errorCallback", "errorFree", "stale"}
    BY NoErrorPath
  <2>3. ASSUME currentJob # NULL
        PROVE  /\ symbolsInProgress = InModule
               /\ BufferStatus(currentJob) = IF pc \in {"callback", "free"} THEN "COMPLETE"
                                             ELSE "PROCESSING"
    BY <2>3 DEF DriverInv, Busy, BufferStatus
  <2>4. ASSUME currentJob # NULL
        PROVE  job[currentJob].dataLeftToTx + job[currentJob].dummyLeftToTx + InModule
                 = LeftToReceive(job[currentJob])
    <3>1. PICK j, t, r, S, R, n : /\ j = job[currentJob] /\ t = asked[currentJob].tx
                                  /\ r = asked[currentJob].rx
                                  /\ S = Sent /\ R = Answered /\ n = InModule
      OBVIOUS
    <3>2. Numbers(j, t, r, S, R)
      BY <2>4, <3>1 DEF DriverInv, Busy
    <3>3. n = S - R /\ n \in Nat
      BY <3>1, LengthsAre DEF DriverInv, InModule, Sent, Answered
    <3>4. /\ t \in Nat /\ r \in Nat /\ S \in Nat /\ R \in Nat
          /\ j.dataLeftToTx + j.dummyLeftToTx
               = (t - AtMost(S, t)) + (AtLeast(t, r) - AtLeast(S, t))
          /\ LeftToReceive(j) = (r - AtMost(R, r)) + (AtLeast(t, r) - AtLeast(R, r))
      BY <3>2 DEF Numbers, LeftToReceive
    <3>5. AtMost(S, t) + AtLeast(S, t) = S + t /\ AtMost(R, r) + AtLeast(R, r) = R + r
      BY <3>4 DEF AtMost, AtLeast
    <3>6. /\ AtMost(S, t) \in Nat /\ AtLeast(S, t) \in Nat /\ AtMost(R, r) \in Nat
          /\ AtLeast(R, r) \in Nat /\ AtLeast(t, r) \in Nat
      BY <3>4 DEF AtMost, AtLeast
    <3>7. j.dataLeftToTx + j.dummyLeftToTx + n = LeftToReceive(j)
      BY <3>3, <3>4, <3>5, <3>6
    <3> QED BY <3>1, <3>7
  <2>5. LET waiting == Contents(mem, Q)
        IN /\ \A n \in DOMAIN waiting : BufferStatus(waiting[n]) = "PENDING"
           /\ Peek(mem, Q) = IF waiting = <<>> THEN NoElement ELSE waiting[1]
    <3>1. PICK c : c = Contents(mem, Q)
      OBVIOUS
    <3>2. /\ c \in Seq(Elements) /\ (IsEmpty(mem, Q) <=> c = <<>>)
          /\ c # <<>> => mem.queue[Q].pHead = c[1]
          /\ AllFresh(c, job, asked, received)
      BY <3>1, WaitingIs DEF DriverInv, JobsInv
    <3>3. \A n \in DOMAIN c : BufferStatus(c[n]) = "PENDING"
      BY <3>2 DEF AllFresh, Fresh, BufferStatus
    <3>4. Peek(mem, Q) = IF c = <<>> THEN NoElement ELSE c[1]
      BY <3>2 DEF Peek
    <3> QED BY <3>1, <3>3, <3>4
  <2>6. ASSUME currentJob = NULL
        PROVE  /\ InModule = blocking.sent - blocking.read
               /\ rx = [n \in DOMAIN rx |-> blocking.read + n]
    <3>1. InModule = blocking.sent - blocking.read /\ Answered = blocking.read
      BY <2>6 DEF DriverInv, Idle
    <3>2. rx \in Seq(Nat) /\ Count(rx, Answered)
      BY DEF DriverInv, ModuleInv
    <3>3. DOMAIN rx = 1 .. Len(rx) /\ rx = [n \in DOMAIN rx |-> rx[n]]
      BY <3>2
    <3>4. \A n \in DOMAIN rx : rx[n] = blocking.read + n
      BY <3>1, <3>2, <3>3 DEF Count
    <3> QED BY <3>1, <3>3, <3>4
  <2> QED BY <2>1, <2>2, <2>3, <2>4, <2>5, <2>6 DEF NothingLost
<1> QED BY <1>1, DriverInvAlways, PTL
----------------------------------------------------------------------------
\* The jobs of SpiJobs: the rows of the elements c, for what a says was asked,
\* behind the one in progress.
Row(e, a)     == [id |-> e, tx |-> a[e].tx, rx |-> a[e].rx]
Rows(c, a)    == [n \in 1 .. Len(c) |-> Row(c[n], a)]
Front(e, p, a) == IF e # NULL /\ p \notin {"callback", "free"} THEN <<Row(e, a)>>
                  ELSE <<>>
JobRows == [id : Elements, tx : Nat, rx : Nat]
Sizings == [Elements -> [tx : Nat, rx : Nat]]

LEMMA RowsType ==
    ASSUME NEW c \in Seq(Elements), NEW a \in Sizings
    PROVE  /\ Rows(c, a) \in Seq(JobRows) /\ Len(Rows(c, a)) = Len(c)
           /\ \A n \in 1 .. Len(c) : Rows(c, a)[n] = Row(c[n], a)
<1>1. \A e \in Elements : Row(e, a) \in JobRows
  BY DEF Row, JobRows, Sizings
<1>2. \A n \in 1 .. Len(c) : Row(c[n], a) \in JobRows
  BY <1>1
<1> HIDE DEF JobRows, Row
<1> QED BY <1>2 DEF Rows

LEMMA FrontType ==
    ASSUME NEW e \in Elements \cup {NULL}, NEW p, NEW a \in Sizings
    PROVE  Front(e, p, a) \in Seq(JobRows)
<1>1. \A d \in Elements : Row(d, a) \in JobRows
  BY DEF Row, JobRows, Sizings
<1> QED BY <1>1 DEF Front

\* The rows of elements for which the same was asked.
LEMMA RowsStay ==
    ASSUME NEW c \in Seq(Elements), NEW a, NEW b,
           \A d \in Elements : On(d, c) => b[d] = a[d]
    PROVE  Rows(c, b) = Rows(c, a)
<1>1. \A n \in 1 .. Len(c) : Row(c[n], b) = Row(c[n], a)
  <2> SUFFICES ASSUME NEW n \in 1 .. Len(c) PROVE Row(c[n], b) = Row(c[n], a)
    OBVIOUS
  <2>1. c[n] \in Elements /\ On(c[n], c)
    BY DEF On
  <2> QED BY <2>1 DEF Row
<1> QED BY <1>1 DEF Rows

LEMMA RowsAdd ==
    ASSUME NEW c \in Seq(Elements), NEW e \in Elements, NEW a \in Sizings
    PROVE  Rows(Append(c, e), a) = Append(Rows(c, a), Row(e, a))
<1>1. /\ Append(c, e) \in Seq(Elements) /\ Len(Append(c, e)) = Len(c) + 1
      /\ Len(c) \in Nat
      /\ \A n \in 1 .. Len(c) : Append(c, e)[n] = c[n]
      /\ Append(c, e)[Len(c) + 1] = e
  OBVIOUS
<1>2. PICK s, t, d : /\ s = Rows(Append(c, e), a) /\ t = Append(Rows(c, a), d)
                     /\ d = Row(e, a)
  OBVIOUS
<1>3. d \in JobRows
  BY <1>2 DEF Row, JobRows, Sizings
<1>4. /\ s \in Seq(JobRows) /\ Len(s) = Len(c) + 1
      /\ \A n \in 1 .. Len(c) + 1 : s[n] = Row(Append(c, e)[n], a)
  BY <1>1, <1>2, RowsType
<1>5. /\ Rows(c, a) \in Seq(JobRows) /\ Len(Rows(c, a)) = Len(c)
      /\ \A n \in 1 .. Len(c) : Rows(c, a)[n] = Row(c[n], a)
  BY RowsType
<1>6. /\ t \in Seq(JobRows) /\ Len(t) = Len(c) + 1
      /\ \A n \in 1 .. Len(c) : t[n] = Rows(c, a)[n]
      /\ t[Len(c) + 1] = d
  <2> HIDE DEF JobRows
  <2> QED BY <1>2, <1>3, <1>5
<1>7. \A n \in 1 .. Len(c) + 1 : s[n] = t[n]
  <2> SUFFICES ASSUME NEW n \in 1 .. Len(c) + 1 PROVE s[n] = t[n]
    OBVIOUS
  <2>1. CASE n \in 1 .. Len(c)
    BY <2>1, <1>1, <1>4, <1>5, <1>6
  <2>2. CASE n = Len(c) + 1
    BY <2>2, <1>1, <1>2, <1>4, <1>6
  <2>3. n \in 1 .. Len(c) \/ n = Len(c) + 1
    BY <1>1
  <2> QED BY <2>1, <2>2, <2>3
<1>8. s = t
  BY ONLY <1>4, <1>6, <1>7, SeqEqual
<1> QED BY <1>2, <1>8

\* The first of some jobs and the others.
LEMMA RowsFirst ==
    ASSUME NEW c \in Seq(Elements), c # <<>>, NEW a \in Sizings
    PROVE  Rows(c, a) = <<Row(c[1], a)>> \o Rows(Tail(c), a)
<1>1. /\ Tail(c) \in Seq(Elements) /\ Len(Tail(c)) = Len(c) - 1
      /\ Len(c) \in Nat /\ Len(c) > 0 /\ c[1] \in Elements
      /\ \A n \in 1 .. Len(c) - 1 : Tail(c)[n] = c[n + 1]
  BY EmptySeq
<1>2. PICK s, d, v, t : /\ s = Rows(c, a) /\ d = Row(c[1], a)
                        /\ v = Rows(Tail(c), a) /\ t = <<d>> \o v
  OBVIOUS
<1>3. d \in JobRows
  BY <1>1, <1>2 DEF Row, JobRows, Sizings
<1>4. /\ s \in Seq(JobRows) /\ Len(s) = Len(c)
      /\ \A n \in 1 .. Len(c) : s[n] = Row(c[n], a)
  BY <1>2, RowsType
<1>5. /\ v \in Seq(JobRows) /\ Len(v) = Len(c) - 1
      /\ \A n \in 1 .. Len(c) - 1 : v[n] = Row(c[n + 1], a)
  <2>1. PICK w : w = Tail(c)
    OBVIOUS
  <2>2. w \in Seq(Elements) /\ v = Rows(w, a)
    BY <2>1, <1>1, <1>2
  <2>3. /\ v \in Seq(JobRows) /\ Len(v) = Len(w)
        /\ \A n \in 1 .. Len(w) : v[n] = Row(w[n], a)
    BY <2>2, RowsType
  <2>4. Len(w) = Len(c) - 1 /\ \A n \in 1 .. Len(c) - 1 : w[n] = c[n + 1]
    BY <2>1, <1>1
  <2> QED BY <2>3, <2>4
<1> HIDE DEF JobRows
<1>6. /\ t \in Seq(JobRows) /\ Len(t) = 1 + Len(v)
      /\ \A n \in 1 .. 1 + Len(v) : t[n] = IF n <= 1 THEN <<d>>[n] ELSE v[n - 1]
  <2>1. <<d>> \in Seq(JobRows) /\ Len(<<d>>) = 1
    BY <1>3
  <2> QED BY <2>1, <1>2, <1>5, ConcatProperties
<1>7. \A n \in 1 .. Len(s) : s[n] = t[n]
  <2> SUFFICES ASSUME NEW n \in 1 .. Len(c) PROVE s[n] = t[n]
    BY <1>4
  <2>1. CASE n = 1
    BY <2>1, <1>1, <1>2, <1>4, <1>5, <1>6
  <2>2. CASE n # 1
    <3>1. n - 1 \in 1 .. Len(c) - 1 /\ n - 1 + 1 = n /\ n \in 1 .. 1 + Len(v) /\ ~(n <= 1)
      BY <2>2, <1>1, <1>5
    <3>2. t[n] = v[n - 1]
      BY <3>1, <1>6
    <3>3. v[n - 1] = Row(c[n - 1 + 1], a)
      BY <3>1, <1>5
    <3> QED BY <3>1, <3>2, <3>3, <1>4
  <2> QED BY <2>1, <2>2
<1>8. s = t
  <2>1. Len(s) = Len(t)
    BY <1>1, <1>4, <1>5, <1>6
  <2> QED BY ONLY <2>1, <1>4, <1>6, <1>7, SeqEqual
<1> QED BY <1>2, <1>8

\* A job behind others, and the first of them taken away.
LEMMA RowsBehind ==
    ASSUME NEW u \in Seq(JobRows), NEW v \in Seq(JobRows), NEW d \in JobRows
    PROVE  u \o Append(v, d) = Append(u \o v, d)
<1> HIDE DEF JobRows
<1>1. Append(v, d) = v \o <<d>> /\ Append(u \o v, d) = (u \o v) \o <<d>>
  BY AppendIsConcat, ConcatProperties
<1>2. <<d>> \in Seq(JobRows)
  OBVIOUS
<1>3. (u \o v) \o <<d>> = u \o (v \o <<d>>)
  BY ONLY <1>2, u \in Seq(JobRows), v \in Seq(JobRows), ConcatAssociative
<1> QED BY <1>1, <1>3

LEMMA RowsTail ==
    ASSUME NEW v \in Seq(JobRows), NEW d \in JobRows
    PROVE  /\ <<d>> \o v # <<>>
           /\ Head(<<d>> \o v) = d
           /\ Tail(<<d>> \o v) = v
<1> HIDE DEF JobRows
<1>1. PICK t : t = <<d>> \o v
  OBVIOUS
<1>2. /\ t \in Seq(JobRows) /\ Len(t) = 1 + Len(v)
      /\ \A n \in 1 .. 1 + Len(v) : t[n] = IF n <= 1 THEN <<d>>[n] ELSE v[n - 1]
  <2>1. <<d>> \in Seq(JobRows) /\ Len(<<d>>) = 1
    OBVIOUS
  <2> QED BY <2>1, <1>1, ConcatProperties
<1>3. Len(v) \in Nat
  OBVIOUS
<1>4. t # <<>> /\ Head(t) = d
  <2>1. Len(t) # 0 /\ 1 \in 1 .. 1 + Len(v)
    BY <1>2, <1>3
  <2>2. t # <<>>
    BY <2>1, EmptySeq
  <2>3. t[1] = d
    BY <1>2, <2>1
  <2> QED BY <2>2, <2>3, <1>2
<1>5. Tail(t) = v
  <2>1. /\ Tail(t) \in Seq(JobRows) /\ Len(Tail(t)) = Len(t) - 1
        /\ \A n \in 1 .. Len(Tail(t)) : Tail(t)[n] = t[n + 1]
    BY ONLY <1>2, <1>4, HeadTailProperties
  <2>2. Len(Tail(t)) = Len(v)
    BY <2>1, <1>2, <1>3
  <2>3. \A n \in 1 .. Len(Tail(t)) : Tail(t)[n] = v[n]
    <3> SUFFICES ASSUME NEW n \in 1 .. Len(v) PROVE Tail(t)[n] = v[n]
      BY <2>2
    <3>1. n + 1 \in 1 .. 1 + Len(v) /\ ~(n + 1 <= 1) /\ n + 1 - 1 = n
      BY <1>3
    <3>2. t[n + 1] = v[n + 1 - 1]
      BY <3>1, <1>2
    <3> QED BY <3>1, <3>2, <2>1, <2>2
  <2> QED BY ONLY <2>1, <2>2, <2>3, v \in Seq(JobRows), SeqEqual
<1> QED BY <1>1, <1>4, <1>5
----------------------------------------------------------------------------
\* The steps of the driver, as steps of SpiJobs.
JobsLeft == Front(currentJob, pc, asked) \o Rows(Contents(mem, Q), asked)

LEMMA JobsAre == DriverInv => InProgress \o Waiting = JobsLeft
<1> SUFFICES ASSUME DriverInv PROVE InProgress \o Waiting = JobsLeft
  OBVIOUS
<1>1. InProgress = Front(currentJob, pc, asked)
  BY DEF InProgress, AsAsked, Front, Row
<1>2. PICK c : c = Contents(mem, Q)
  OBVIOUS
<1>3. c \in Seq(Elements)
  BY <1>2, WaitingIs DEF DriverInv
<1>4. DOMAIN c = 1 .. Len(c)
  BY <1>3
<1>5. Waiting = Rows(c, asked)
  BY <1>2, <1>4 DEF Waiting, AsAsked, Rows, Row
<1> QED BY <1>1, <1>2, <1>5 DEF JobsLeft

LEMMA JobsWillBe == DriverInv' => (InProgress \o Waiting)' = JobsLeft'
<1>1. (DriverInv => InProgress \o Waiting = JobsLeft)'
  BY JobsAre, PTL
<1> QED BY <1>1

\* Most steps leave the jobs alone.
LEMMA JobsQuiet ==
    ASSUME Contents(mem, Q)' = Contents(mem, Q),
           UNCHANGED <<asked, currentJob, done>>,
           \/ pc' = pc
           \/ currentJob = NULL
           \/ pc \notin {"callback", "free"} /\ pc' \notin {"callback", "free"}
    PROVE  UNCHANGED <<JobsLeft, done>>
<1>1. Front(currentJob', pc', asked') = Front(currentJob, pc, asked)
  BY DEF Front
<1> QED BY <1>1 DEF JobsLeft

AddsJob(s) ==
    \E h \in Elements :
       /\ \A n \in DOMAIN JobsLeft : JobsLeft[n].id # h
       /\ JobsLeft' = Append(JobsLeft, [id |-> h, tx |-> s[1], rx |-> s[2]])
       /\ UNCHANGED done

EndsJob == /\ JobsLeft # <<>>
           /\ done = Jobs!NoJob
           /\ JobsLeft' = Tail(JobsLeft)
           /\ done' = Jobs!Outcome(Head(JobsLeft))

TellsJob == done # Jobs!NoJob /\ done' = Jobs!NoJob /\ UNCHANGED JobsLeft

LEMMA JobsAdd ==
    ASSUME DriverInv, DriverInv', NEW s \in Asks, AddAsked(s)
    PROVE  AddsJob(s)
<1>1. PICK e, t, r, c, a, b, f, g :
        /\ e = mem.pFreeHead /\ t = s[1] /\ r = s[2] /\ c = Contents(mem, Q)
        /\ a = asked /\ b = asked'
        /\ f = Front(currentJob, pc, a) /\ g = Rows(c, a)
  OBVIOUS
<1>2. t \in Nat /\ r \in Nat /\ Add(WriteReadJob(t, r), t, r)
  BY <1>1, AsksAre DEF AddAsked
<1>3. /\ e \in Elements /\ e # currentJob /\ ~On(e, c)
      /\ Contents(mem, Q)' = Append(c, e)
  BY <1>1, <1>2, AddStep DEF DriverInv
<1>4. /\ b = [a EXCEPT ![e] = [tx |-> t, rx |-> r]]
      /\ UNCHANGED <<pc, currentJob, done>>
  BY <1>1, <1>2 DEF Add, driverVars
<1>5. /\ a \in Sizings /\ b \in Sizings /\ c \in Seq(Elements)
      /\ currentJob \in Elements \cup {NULL}
  BY <1>1, WaitingIs DEF DriverInv, JobsInv, Sizings, PoolInv
<1>6. /\ b[e].tx = t /\ b[e].rx = r
      /\ \A d \in Elements \ {e} : b[d] = a[d]
  BY <1>2, <1>3, <1>4, <1>5 DEF Sizings
<1>7. Rows(c, b) = g
  <2>1. \A d \in Elements : On(d, c) => b[d] = a[d]
    BY <1>3, <1>6
  <2> QED BY <2>1, <1>1, <1>5, RowsStay
<1>8. Front(currentJob', pc', b) = f
  <2>1. currentJob # NULL => b[currentJob] = a[currentJob]
    BY <1>3, <1>5, <1>6
  <2> QED BY <2>1, <1>1, <1>4 DEF Front, Row
<1>9. PICK d : d = [id |-> e, tx |-> t, rx |-> r]
  OBVIOUS
<1>10. Row(e, b) = d /\ d \in JobRows
  BY <1>2, <1>3, <1>6, <1>9 DEF Row, JobRows
<1>11. f \in Seq(JobRows) /\ g \in Seq(JobRows)
  <2>1. f \in Seq(JobRows)
    BY <1>1, <1>5, FrontType
  <2>2. g \in Seq(JobRows)
    BY <1>1, <1>5, RowsType
  <2> QED BY <2>1, <2>2
<1>12. JobsLeft = f \o g
  BY <1>1 DEF JobsLeft
<1>13. JobsLeft' = Append(JobsLeft, d)
  <2>1. JobsLeft' = f \o Rows(Append(c, e), b)
    BY <1>1, <1>3, <1>8 DEF JobsLeft
  <2>2. Rows(Append(c, e), b) = Append(g, d)
    BY <1>3, <1>5, <1>7, <1>10, RowsAdd
  <2> QED BY <2>1, <2>2, <1>10, <1>11, <1>12, RowsBehind
<1>14. \A n \in DOMAIN JobsLeft : JobsLeft[n].id # e
  <2> SUFFICES ASSUME NEW n \in DOMAIN (f \o g) PROVE (f \o g)[n].id # e
    BY <1>12
  <2>1. /\ Len(f) \in Nat /\ Len(g) \in Nat /\ n \in 1 .. Len(f) + Len(g)
        /\ (f \o g)[n] = IF n <= Len(f) THEN f[n] ELSE g[n - Len(f)]
    BY <1>11 DEF JobRows
  <2>2. CASE n <= Len(f)
    <3>1. f # <<>> /\ n \in 1 .. Len(f)
      BY <2>1, <2>2
    <3>2. f = <<Row(currentJob, a)>> /\ currentJob # NULL
      BY <3>1, <1>1 DEF Front
    <3>3. f[n].id = currentJob
      BY <3>1, <3>2 DEF Row
    <3> QED BY <2>1, <2>2, <3>3, <1>3
  <2>3. CASE n > Len(f)
    <3>1. n - Len(f) \in 1 .. Len(g) /\ ~(n <= Len(f))
      BY <2>1, <2>3
    <3>2. Len(g) = Len(c) /\ \A i \in 1 .. Len(c) : g[i] = Row(c[i], a)
      BY <1>1, <1>5, RowsType
    <3>3. PICK i \in 1 .. Len(c) : (f \o g)[n] = Row(c[i], a)
      BY <2>1, <3>1, <3>2
    <3>4. c[i] # e
      BY <1>3 DEF On
    <3> QED BY <3>3, <3>4 DEF Row
  <2> QED BY <2>1, <2>2, <2>3
<1> QED BY <1>1, <1>3, <1>4, <1>9, <1>13, <1>14 DEF AddsJob

LEMMA JobsStart ==
    ASSUME DriverInv, DriverInv', Tasks_Start
    PROVE  UNCHANGED <<JobsLeft, done>>
<1>1. PICK c, a : c = Contents(mem, Q) /\ a = asked
  OBVIOUS
<1>2. /\ c # <<>> /\ currentJob' = c[1] /\ c[1] \in Elements
      /\ Contents(mem, Q)' = Tail(c)
  BY <1>1, StartStep DEF DriverInv
<1>3. currentJob = NULL /\ pc' = "send" /\ UNCHANGED <<asked, done>>
  BY DEF Tasks_Start
<1>4. c \in Seq(Elements) /\ a \in Sizings
  BY <1>1, WaitingIs DEF DriverInv, JobsInv, Sizings
<1>5. Front(currentJob, pc, asked) = <<>> /\ JobsLeft = <<>> \o Rows(c, a)
  BY <1>1, <1>3 DEF Front, JobsLeft
<1>6. JobsLeft' = <<Row(c[1], a)>> \o Rows(Tail(c), a)
  BY <1>1, <1>2, <1>3, NullIsNone DEF Front, JobsLeft
<1>7. Rows(c, a) = <<Row(c[1], a)>> \o Rows(Tail(c), a)
  BY <1>2, <1>4, RowsFirst
<1>8. <<>> \o Rows(c, a) = Rows(c, a)
  <2>1. Rows(c, a) \in Seq(JobRows)
    BY <1>4, RowsType
  <2> QED BY <2>1, ConcatEmptySeq
<1> QED BY <1>3, <1>5, <1>6, <1>7, <1>8

\* The last answer has come.
LEMMA JobsEnd ==
    ASSUME DriverInv, DriverInv', Tasks_Receive, pc' = "callback"
    PROVE  EndsJob
<1>1. PICK e, c, a, t, r, d, g :
        /\ e = currentJob /\ c = Contents(mem, Q) /\ a = asked
        /\ t = a[e].tx /\ r = a[e].rx /\ d = Row(e, a) /\ g = Rows(c, a)
  OBVIOUS
<1>2. pc = "receive" /\ UNCHANGED <<mem, asked, currentJob, clocked>>
  BY DEF Tasks_Receive
<1>3. /\ currentJob # NULL /\ e \in Elements
      /\ c \in Seq(Elements) /\ a \in Sizings /\ done = NoneDone
  BY <1>1, <1>2, WaitingIs DEF DriverInv, JobsInv, Sizings, PoolInv
<1>4. g \in Seq(JobRows) /\ d \in JobRows /\ d = [id |-> e, tx |-> t, rx |-> r]
      /\ t \in Nat /\ r \in Nat
  <2>1. g \in Seq(JobRows)
    BY <1>1, <1>3, RowsType
  <2> QED BY <2>1, <1>1, <1>3 DEF Row, JobRows, Sizings
<1>5. JobsLeft = <<d>> \o g /\ JobsLeft' = <<>> \o g
  BY <1>1, <1>2, <1>3 DEF JobsLeft, Front
<1>6. <<>> \o g = g
  BY <1>4, ConcatEmptySeq
<1>7. JobsLeft # <<>> /\ JobsLeft' = Tail(JobsLeft) /\ Head(JobsLeft) = d
  BY <1>4, <1>5, <1>6, RowsTail
<1>8. done' = [id |-> e, sent |-> clocked', got |-> received'[e]]
  BY <1>1, <1>2 DEF DriverInv, JobsInv
<1>9. /\ clocked' \in Seq(Nat) /\ Wire(clocked', 0, t)
      /\ Len(clocked') = AtLeast(t, r)
      /\ received'[e] \in Seq(Nat) /\ Count(received'[e], 0)
      /\ Len(received'[e]) = AtMost(Answered', r) /\ InModule' = 0
  <2>1. (Busy(currentJob, asked[currentJob].tx, asked[currentJob].rx))'
    BY <1>2, <1>3 DEF DriverInv
  <2>2. /\ Wire(clocked', 0, t) /\ Len(clocked') = AtLeast(t, r)
        /\ Count(received'[e], 0)
        /\ Len(received'[e]) = AtMost(Answered', r) /\ InModule' = 0
    BY <2>1, <1>1, <1>2 DEF Busy
  <2>3. clocked' \in Seq(Nat) /\ received'[e] \in Seq(Nat)
    BY <1>3 DEF DriverInv, ModuleInv, JobsInv
  <2> QED BY <2>2, <2>3
<1>10. Len(received'[e]) = r
  <2>1. /\ tx' \in Seq(Nat) /\ shift' \in Seq(Nat) /\ rx' \in Seq(Nat)
    BY DEF DriverInv, ModuleInv
  <2>2. Len(tx') \in Nat /\ Len(shift') \in Nat /\ Len(rx') \in Nat
    BY <2>1
  <2>3. Len(rx') = 0
    BY <2>2, <1>9 DEF InModule
  <2>4. Answered' = AtLeast(t, r)
    BY <2>3, <1>4, <1>9 DEF Answered, AtLeast
  <2> QED BY <2>4, <1>4, <1>9 DEF AtMost, AtLeast
<1>11. received'[e] = [n \in 1 .. r |-> n]
  <2>1. PICK x : x = received'[e]
    OBVIOUS
  <2>2. x = [n \in 1 .. r |-> x[n]]
    BY <2>1, <1>9, <1>10
  <2>3. \A n \in 1 .. r : x[n] = n
    <3> SUFFICES ASSUME NEW n \in 1 .. r PROVE x[n] = n
      OBVIOUS
    <3>1. x[n] = 0 + n
      BY <2>1, <1>9, <1>10 DEF Count
    <3> QED BY <3>1, <1>4
  <2> QED BY <2>1, <2>2, <2>3
<1>12. clocked' = [n \in 1 .. Jobs!Symbols(d) |-> IF n <= t THEN n ELSE 0]
  <2>1. PICK x, m : x = clocked' /\ m = AtLeast(t, r)
    OBVIOUS
  <2>2. m = Jobs!Symbols(d) /\ m \in Nat
    BY <2>1, <1>4 DEF Jobs!Symbols, AtLeast
  <2>3. x = [n \in 1 .. m |-> x[n]]
    BY <2>1, <1>9
  <2>4. \A n \in 1 .. m : x[n] = IF n <= t THEN n ELSE 0
    <3> SUFFICES ASSUME NEW n \in 1 .. m PROVE x[n] = IF n <= t THEN n ELSE 0
      OBVIOUS
    <3>1. x[n] = IF 0 + n <= t THEN 0 + n ELSE 0
      BY <2>1, <1>9 DEF Wire
    <3> QED BY <3>1, <2>2
  <2> QED BY <2>1, <2>2, <2>3, <2>4
<1>13. done' = Jobs!Outcome(d)
  BY <1>4, <1>8, <1>11, <1>12 DEF Jobs!Outcome
<1>14. done = Jobs!NoJob
  BY <1>3 DEF NoneDone, Jobs!NoJob
<1> QED BY <1>7, <1>13, <1>14 DEF EndsJob

LEMMA JobsTell ==
    ASSUME DriverInv, DriverInv', Tasks_Return
    PROVE  TellsJob
<1>1. /\ pc = "callback" /\ pc' = "free" /\ done' = NoneDone
      /\ UNCHANGED <<mem, asked, currentJob>>
  BY NoErrorPath DEF Tasks_Return, poolVars
<1>2. done.id = currentJob /\ currentJob # NULL
  BY <1>1 DEF DriverInv, JobsInv, PoolInv
<1>3. done # NoneDone
  BY <1>2 DEF NoneDone, NULL
<1>4. JobsLeft' = JobsLeft
  BY <1>1 DEF JobsLeft, Front
<1> QED BY <1>1, <1>3, <1>4 DEF TellsJob, NoneDone, Jobs!NoJob

LEMMA JobsFree ==
    ASSUME DriverInv, DriverInv', Tasks_Free
    PROVE  UNCHANGED <<JobsLeft, done>>
<1>1. PICK e, c, a, b : e = currentJob /\ c = Contents(mem, Q) /\ a = asked /\ b = asked'
  OBVIOUS
<1>2. /\ pc = "free" /\ pc' = "client" /\ currentJob' = NULL
      /\ mem' = Freed(mem, Q, currentJob) /\ other' = other
      /\ b = [a EXCEPT ![e] = NothingAsked] /\ done' = done
  BY <1>1, NoErrorPath DEF Tasks_Free
<1>3. currentJob # NULL /\ e \in Elements /\ ~On(e, c) /\ c \in Seq(Elements)
      /\ a \in Sizings
  BY <1>1, <1>2, WaitingIs DEF DriverInv, PoolInv, JobsInv, Sizings
<1>4. Contents(mem, Q)' = c
  BY <1>1, <1>2, <1>3, FreeStep DEF DriverInv
<1>5. Rows(c, b) = Rows(c, a)
  <2>1. \A d \in Elements : On(d, c) => b[d] = a[d]
    BY <1>2, <1>3 DEF Sizings
  <2> QED BY <2>1, <1>3, RowsStay
<1> QED BY <1>1, <1>2, <1>4, <1>5 DEF JobsLeft, Front

\* Every step of the driver is a step of SpiJobs or changes nothing there.
LEMMA JobsStep ==
    ASSUME DriverInv, DriverInv', [Next]_vars
    PROVE  \/ UNCHANGED <<JobsLeft, done>>
           \/ \E s \in Asks : AddsJob(s)
           \/ EndsJob
           \/ TellsJob
<1>1. CASE Client
  <2>1. CASE \E s \in Asks : AddAsked(s)
    BY <2>1, JobsAdd
  <2>2. CASE \E n \in BlockingSizes : Blocking_Start(n)
    <3>1. /\ pc = "client" /\ pc' = "fill" /\ UNCHANGED <<mem, asked, currentJob, done>>
      BY <2>2 DEF Blocking_Start, poolVars
    <3> QED BY <3>1, JobsQuiet
  <2> QED BY <1>1, <2>1, <2>2, ClientCases
<1>2. CASE OtherClient
  <2>1. /\ Contents(mem, Q)' = Contents(mem, Q)
        /\ UNCHANGED <<asked, currentJob, done>>
        /\ pc = "client" \/ pc = "destroy"
        /\ pc' = "client" \/ pc' = "destroy"
    BY <1>2, OtherClientPool DEF DriverInv
  <2> QED BY <2>1, JobsQuiet
<1>3. CASE DRV_SPI0_Tasks
  <2>1. CASE Tasks_Start
    BY <2>1, JobsStart
  <2>2. CASE Tasks_Continue
    <3>1. /\ pc = "client" /\ pc' = "send" /\ UNCHANGED <<mem, asked, currentJob, done>>
      BY <2>2 DEF Tasks_Continue, poolVars
    <3> QED BY <3>1, JobsQuiet
  <2>3. CASE Tasks_Send
    <3>1. /\ pc = "send" /\ pc' = "error" /\ UNCHANGED <<mem, asked, currentJob, done>>
      BY <2>3 DEF Tasks_Send
    <3> QED BY <3>1, JobsQuiet, SMTT(30)
  <2>4. CASE Tasks_Error
    <3>1. /\ pc = "error" /\ pc' = "receive" /\ UNCHANGED <<mem, asked, currentJob, done>>
      BY <2>4 DEF Tasks_Error, DriverInv, ModuleInv
    <3> QED BY <3>1, JobsQuiet
  <2>5. CASE Tasks_Receive
    <3>1. CASE pc' = "callback"
      BY <2>5, <3>1, JobsEnd
    <3>2. CASE pc' # "callback"
      <4>1. /\ pc = "receive" /\ pc' = "client" /\ UNCHANGED <<mem, asked, currentJob, done>>
        BY <2>5, <3>2 DEF Tasks_Receive
      <4> QED BY <4>1, JobsQuiet
    <3> QED BY <3>1, <3>2
  <2>6. CASE Tasks_Return
    BY <2>6, JobsTell
  <2>7. CASE Tasks_Free
    BY <2>7, JobsFree
  <2> QED BY <1>3, <2>1, <2>2, <2>3, <2>4, <2>5, <2>6, <2>7 DEF DRV_SPI0_Tasks
<1>4. CASE BufferAddWriteRead
  <2>1. CASE Blocking_Fill
    <3>1. /\ pc = "fill" /\ pc' \in {"client", "drain"}
          /\ UNCHANGED <<mem, asked, currentJob, done>>
      BY <2>1 DEF Blocking_Fill, poolVars
    <3> QED BY <3>1, JobsQuiet
  <2>2. CASE Blocking_Drain
    <3>1. /\ pc = "drain" /\ pc' \in {"drain", "fill"}
          /\ UNCHANGED <<mem, asked, currentJob, done>>
      BY <2>2 DEF Blocking_Drain, poolVars
    <3> QED BY <3>1, JobsQuiet
  <2> QED BY <1>4, <2>1, <2>2 DEF BufferAddWriteRead
<1>5. CASE Module
  <2>1. UNCHANGED <<mem, asked, currentJob, pc, done>>
    BY <1>5 DEF Module, Module_ShiftStarts, Module_ShiftEnds, poolVars, driverVars
  <2> QED BY <2>1, JobsQuiet
<1>6. CASE UNCHANGED vars
  <2>1. UNCHANGED <<mem, asked, currentJob, pc, done>>
    BY <1>6 DEF vars, poolVars, driverVars
  <2> QED BY <2>1, JobsQuiet
<1> QED BY <1>1, <1>2, <1>3, <1>4, <1>5, <1>6 DEF Next, DRV_SPI_Tasks

\* The driver implements SpiJobs, but for its promise that every job is done at
\* last: the jobs are done one at a time, in the order they were added, each
\* exactly once, and a job puts its own symbols on the wire, then the dummies
\* its reception needs, and receives the answers to its own first symbols,
\* whatever the callbacks, the second client and the module do meanwhile
\* (drv_spi_static_tasks.c, drv_spi_static_ebm_tasks.c).
THEOREM Refinement == Spec => Jobs!SafeSpec
<1>1. Init => Jobs!Init
  <2> SUFFICES ASSUME Init PROVE Jobs!Init
    OBVIOUS
  <2>1. Contents(mem, Q) = <<>> /\ currentJob = NULL /\ done = NoneDone
    BY PoolInit DEF Init
  <2>2. InProgress \o Waiting = JobsLeft
    BY DriverInit, JobsAre
  <2>3. JobsLeft = <<>>
    <3>1. asked \in Sizings /\ <<>> \in Seq(Elements)
      BY DriverInit DEF DriverInv, JobsInv, Sizings
    <3>2. Rows(<<>>, asked) \in Seq(JobRows) /\ Len(Rows(<<>>, asked)) = 0
      BY <3>1, RowsType
    <3>3. Rows(<<>>, asked) = <<>>
      BY <3>2, EmptySeq
    <3>4. Front(currentJob, pc, asked) = <<>>
      BY <2>1 DEF Front
    <3> QED BY <2>1, <3>3, <3>4 DEF JobsLeft
  <2> QED BY <2>1, <2>2, <2>3 DEF Jobs!Init, NoneDone, Jobs!NoJob
<1>2. DriverInv /\ DriverInv' /\ [Next]_vars =>
        [Jobs!Next]_<<InProgress \o Waiting, done>>
  <2> SUFFICES ASSUME DriverInv, DriverInv', [Next]_vars
               PROVE  [Jobs!Next]_<<InProgress \o Waiting, done>>
    OBVIOUS
  <2>1. InProgress \o Waiting = JobsLeft /\ (InProgress \o Waiting)' = JobsLeft'
    BY JobsAre, JobsWillBe
  <2>2. CASE UNCHANGED <<JobsLeft, done>>
    BY <2>1, <2>2
  <2>3. CASE \E s \in Asks : AddsJob(s)
    <3>1. PICK s \in Asks : AddsJob(s)
      BY <2>3
    <3>2. PICK h \in Elements :
            /\ \A n \in DOMAIN JobsLeft : JobsLeft[n].id # h
            /\ JobsLeft' = Append(JobsLeft, [id |-> h, tx |-> s[1], rx |-> s[2]])
            /\ UNCHANGED done
      BY <3>1 DEF AddsJob
    <3>3. Jobs!Add(h, s)
      BY <2>1, <3>2 DEF Jobs!Add
    <3>4. Jobs!Next
      BY <3>3 DEF Jobs!Next, Asks
    <3> QED BY <3>4
  <2>4. CASE EndsJob
    <3>1. Jobs!Finish
      BY <2>1, <2>4 DEF EndsJob, Jobs!Finish
    <3> QED BY <3>1 DEF Jobs!Next
  <2>5. CASE TellsJob
    <3>1. Jobs!Told
      BY <2>1, <2>5 DEF TellsJob, Jobs!Told
    <3> QED BY <3>1 DEF Jobs!Next
  <2> QED BY <2>2, <2>3, <2>4, <2>5, JobsStep
<1> QED BY <1>1, <1>2, DriverInvAlways, PTL DEF Spec, Jobs!SafeSpec
=============================================================================

-------------------------- MODULE UringAsyncProofs --------------------------
(***************************************************************************)
(* Proofs about UringAsync, for every number of waits and whatever the     *)
(* rest of the program does to the object, its context and its tasks.      *)
(***************************************************************************)
EXTENDS UringAsync, FiniteSetTheorems, SequenceTheorems,
        WellFoundedInduction, TLAPS

-----------------------------------------------------------------------------
(* The inductive invariant *)

FutStates == {"none", "pending", "result", "exception", "cancelled"}
CoStates == {"none", "await", "returned", "failed", "cancelled"}

TypeInv ==
    /\ closed \in BOOLEAN /\ ctxOpen \in BOOLEAN /\ active \in BOOLEAN
    /\ registered \in BOOLEAN /\ blocked \in BOOLEAN
    /\ started \in 0 .. MaxWaits
    /\ waiters \in Seq(Waits) /\ ready \in Seq(0 .. MaxWaits)
    /\ fut \in [Waits -> FutStates] /\ co \in [Waits -> CoStates]
    /\ val \in [Waits -> 0 .. MaxWaits] /\ mustCancel \in [Waits -> BOOLEAN]
    /\ kernel \subseteq Waits /\ cq \in Seq(Waits) /\ arrived \in Seq(Waits)

\* The callback is queued at most once.
ReaderOnce ==
    \A i, j \in 1 .. Len(ready) : ready[i] = Reader /\ ready[j] = Reader => i = j

\* The deque holds waits in the order they started, without a result; a wait
\* that is pending is among them.
Rising == \A i, j \in 1 .. Len(waiters) : i < j => waiters[i] < waiters[j]
Queued ==
    \A i \in 1 .. Len(waiters) :
        /\ waiters[i] <= started
        /\ fut[waiters[i]] \in {"pending", "cancelled"}
Futures ==
    \A k \in Waits :
        /\ Live(k) => co[k] = "await" /\ \E i \in 1 .. Len(waiters) : waiters[i] = k
        /\ k > started => fut[k] = "none" /\ co[k] = "none" /\ ~mustCancel[k]
        /\ co[k] = "await" => fut[k] # "none"
        /\ mustCancel[k] => fut[k] \in {"result", "exception"}
        /\ val[k] # NoOp => fut[k] = "result"
        /\ (val[k] # NoOp /\ co[k] = "cancelled") => mustCancel[k]
DequeInv == Rising /\ Queued /\ Futures

\* The CQEs in the ring are the last to have arrived; those before were taken.
Taken == Len(arrived) - Len(cq)
ArrivedOnce == \A i, j \in 1 .. Len(arrived) : arrived[i] = arrived[j] => i = j
ArrivalInv ==
    /\ ArrivedOnce
    /\ \A i \in 1 .. Len(arrived) : arrived[i] <= started /\ arrived[i] \notin kernel
    /\ \A o \in kernel : o <= started
    /\ Len(cq) <= Len(arrived)
    /\ \A i \in 1 .. Len(cq) : cq[i] = arrived[Taken + i]

\* Completions handed out: taken from the ring, in the order of the waits,
\* all of them ahead of the waits in the deque.
ServedInv ==
    /\ \A k \in Waits : val[k] # NoOp => \E p \in 1 .. Taken : arrived[p] = val[k]
    /\ \A k \in Waits : \A i \in 1 .. Len(waiters) : val[k] # NoOp => k < waiters[i]
    /\ \A j, k \in Waits : (j < k /\ val[j] # NoOp /\ val[k] # NoOp) =>
          \A p, q \in 1 .. Len(arrived) :
              arrived[p] = val[j] /\ arrived[q] = val[k] => p < q

AsyncInv ==
    /\ TypeInv /\ ReaderOnce /\ DequeInv /\ ArrivalInv /\ ServedInv
    /\ ReaderIffWaiters /\ LoopNeverBlocks

\* Each completion taken went to a wait, or was swallowed by a cancelled one
\* that is out of the deque.
Accounted ==
    {k \in Waits :
        \/ val[k] # NoOp
        \/ fut[k] = "cancelled" /\ \A i \in 1 .. Len(waiters) : waiters[i] # k}
LossInv ==
    upset \cap {"steal", "close_ctx"} = {} => Taken <= Cardinality(Accounted)

-----------------------------------------------------------------------------
(* Sequences *)

\* Waits are positive numbers, Reader is not one.
LEMMA WaitsAre ==
    /\ MaxWaits \in Nat /\ Waits \subseteq Nat \ {0} /\ Waits \subseteq 0 .. MaxWaits
    /\ \A k : k \in Waits <=> k \in Nat /\ 1 <= k /\ k <= MaxWaits
    /\ Reader = 0 /\ NoOp = 0
  BY UringAsyncAssumption DEF Waits, Reader, NoOp

\* A set of naturals has a least element.
LEMMA LeastIs ==
    ASSUME NEW S \in SUBSET Nat, S # {}
    PROVE  Min(S) \in S /\ \A y \in S : Min(S) <= y
<1>1. PICK x \in S : \A y \in S : ~(<<y, x>> \in OpToRel(<, Nat))
  BY NatLessThanWellFounded, WFMin
<1>2. \A y \in S : ~(y < x)
  <2> TAKE y \in S
  <2>1. <<y, x>> \in Nat \X Nat /\ <<y, x>>[1] = y /\ <<y, x>>[2] = x
    OBVIOUS
  <2>2. <<y, x>> \notin {ss \in Nat \X Nat : ss[1] < ss[2]}
    BY <1>1, Zenon DEF OpToRel
  <2> QED BY <2>1, <2>2
<1>3. \A y \in S : x <= y
  BY <1>2
<1> QED BY <1>3 DEF Min

\* What is left of a sequence without its first n members.
LEMMA SuffixIs ==
    ASSUME NEW S, NEW s \in Seq(S), NEW n \in 0 .. Len(s)
    PROVE  /\ SubSeq(s, n + 1, Len(s)) \in Seq(S)
           /\ Len(SubSeq(s, n + 1, Len(s))) = Len(s) - n
           /\ \A i \in 1 .. Len(s) - n :
                 n + i \in 1 .. Len(s) /\ SubSeq(s, n + 1, Len(s))[i] = s[n + i]
<1>1. Len(s) \in Nat /\ n \in Nat /\ n <= Len(s)
  OBVIOUS
<1>2. \A i \in 1 .. Len(s) - n : n + i \in 1 .. Len(s) /\ (n + 1) + i - 1 = n + i
  BY <1>1
<1>3. \A i \in n + 1 .. Len(s) : s[i] \in S
  BY <1>1
<1>4. SubSeq(s, n + 1, Len(s)) \in Seq(S) /\ Len(SubSeq(s, n + 1, Len(s))) = Len(s) - n
  BY <1>1, <1>3
<1>5. \A i \in 1 .. Len(s) - n : SubSeq(s, n + 1, Len(s))[i] = s[(n + 1) + i - 1]
  BY <1>1
<1> QED BY <1>2, <1>4, <1>5

\* The rest of a non-empty sequence.
LEMMA TailIs ==
    ASSUME NEW S, NEW s \in Seq(S), s # <<>>
    PROVE  /\ Tail(s) \in Seq(S) /\ Len(s) \in Nat \ {0}
           /\ Len(Tail(s)) = Len(s) - 1
           /\ Head(s) = s[1] /\ 1 \in 1 .. Len(s)
           /\ \A i \in 1 .. Len(s) - 1 :
                 i + 1 \in 1 .. Len(s) /\ Tail(s)[i] = s[i + 1]
<1>1. Len(s) \in Nat \ {0}
  BY EmptySeq
<1>2. Tail(s) \in Seq(S) /\ Len(Tail(s)) = Len(s) - 1 /\ Head(s) = s[1]
  BY <1>1
<1>3. \A i \in 1 .. Len(s) - 1 : i + 1 \in 1 .. Len(s)
  BY <1>1
<1>4. \A i \in 1 .. Len(s) - 1 : Tail(s)[i] = s[i + 1]
  BY <1>1
<1> QED BY <1>1, <1>2, <1>3, <1>4

\* RemoveFirst takes out one member e, if there is one.
LEMMA RemoveFirstIs ==
    ASSUME NEW S, NEW s \in Seq(S), NEW e
    PROVE  \/ RemoveFirst(s, e) = s /\ \A i \in 1 .. Len(s) : s[i] # e
           \/ \E m \in 1 .. Len(s) :
                 /\ s[m] = e
                 /\ RemoveFirst(s, e) \in Seq(S)
                 /\ Len(RemoveFirst(s, e)) = Len(s) - 1
                 /\ \A i \in 1 .. Len(s) - 1 :
                       RemoveFirst(s, e)[i] = IF i < m THEN s[i] ELSE s[i + 1]
<1>1. Len(s) \in Nat /\ \A i \in 1 .. Len(s) : s[i] \in S
  OBVIOUS
<1>2. CASE ~ \E i \in 1 .. Len(s) : s[i] = e
  BY <1>2 DEF RemoveFirst
<1>3. CASE \E i \in 1 .. Len(s) : s[i] = e
  <2> DEFINE I == {i \in 1 .. Len(s) : s[i] = e}
  <2>1. I \in SUBSET Nat /\ I # {}
    BY <1>1, <1>3
  <2>2. PICK m \in I : m = Min(I)
    BY <2>1, LeastIs
  <2>3. RemoveFirst(s, e) = SubSeq(s, 1, m - 1) \o SubSeq(s, m + 1, Len(s))
    BY <1>3, <2>1, <2>2 DEF RemoveFirst, RemoveAt, SelectInSeq
  <2>4. m \in 1 .. Len(s) /\ s[m] = e
    BY <2>2
  <2> HIDE DEF I
  <2>5. /\ SubSeq(s, 1, m - 1) \in Seq(S) /\ Len(SubSeq(s, 1, m - 1)) = m - 1
        /\ \A i \in 1 .. m - 1 : SubSeq(s, 1, m - 1)[i] = s[i]
    <3>1. m - 1 \in Nat /\ m - 1 <= Len(s)
      BY <1>1, <2>4
    <3>2. \A i \in 1 .. m - 1 : s[i] \in S
      BY <1>1, <2>4
    <3> QED BY <3>1, <3>2, <1>1
  <2>6. /\ SubSeq(s, m + 1, Len(s)) \in Seq(S)
        /\ Len(SubSeq(s, m + 1, Len(s))) = Len(s) - m
        /\ \A i \in 1 .. Len(s) - m : SubSeq(s, m + 1, Len(s))[i] = s[m + i]
    <3>1. m \in 0 .. Len(s)
      BY <1>1, <2>4
    <3> QED BY <3>1, SuffixIs
  <2>7. PICK a \in Seq(S), b \in Seq(S) :
           a = SubSeq(s, 1, m - 1) /\ b = SubSeq(s, m + 1, Len(s))
    BY <2>5, <2>6
  <2>8. /\ Len(a) = m - 1 /\ \A i \in 1 .. m - 1 : a[i] = s[i]
        /\ Len(b) = Len(s) - m /\ \A i \in 1 .. Len(s) - m : b[i] = s[m + i]
        /\ RemoveFirst(s, e) = a \o b
    BY <2>3, <2>5, <2>6, <2>7
  <2>9. a \o b \in Seq(S) /\ Len(a \o b) = Len(s) - 1
    <3>1. a \o b \in Seq(S) /\ Len(a \o b) = Len(a) + Len(b)
      OBVIOUS
    <3>2. Len(a) + Len(b) = Len(s) - 1
      BY <1>1, <2>4, <2>8
    <3> QED BY <3>1, <3>2
  <2>10. ASSUME NEW i \in 1 .. Len(s) - 1
         PROVE  (a \o b)[i] = IF i < m THEN s[i] ELSE s[i + 1]
    <3>1. CASE i < m
      <4>1. i \in 1 .. Len(a) /\ i \in 1 .. m - 1
        BY <3>1, <1>1, <2>4, <2>8
      <4>2. (a \o b)[i] = a[i]
        BY <4>1
      <4> QED BY <4>1, <4>2, <3>1, <2>8
    <3>2. CASE ~(i < m)
      <4>1. PICK j \in 1 .. Len(s) - m : j = i - Len(a)
        BY <3>2, <1>1, <2>4, <2>8
      <4>2. i = Len(a) + j /\ m + j = i + 1 /\ j \in 1 .. Len(b)
        BY <4>1, <1>1, <2>4, <2>8
      <4>3. (a \o b)[Len(a) + j] = b[j]
        BY <4>2
      <4> QED BY <4>1, <4>2, <4>3, <3>2, <2>8
    <3> QED BY <3>1, <3>2
  <2> QED BY <2>4, <2>8, <2>9, <2>10
<1> QED BY <1>2, <1>3

\* LiveAmong lists waits: each rank belongs to a live member.
LEMMA LiveAmongIn ==
    ASSUME waiters \in Seq(Waits), NEW n \in 0 .. Len(waiters)
    PROVE  LiveAmong(n) \in Seq(Waits)
<1> DEFINE I == {i \in 1 .. n : Live(waiters[i])}
           Below(i) == {h \in I : h <= i}
           Rank == [i \in I |-> Cardinality(Below(i))]
<1>1. Len(waiters) \in Nat /\ n \in Nat /\ n \in Int /\ 1 \in Int
  OBVIOUS
<1>2. IsFiniteSet(I) /\ Cardinality(I) \in Nat
  <2>1. IsFiniteSet(1 .. n)
    BY <1>1, FS_Interval
  <2>2. I \in SUBSET (1 .. n)
    OBVIOUS
  <2>3. IsFiniteSet(I)
    BY <2>1, <2>2, FS_Subset
  <2> QED BY <2>3, FS_CardinalityType
<1>3. \A i \in I : i \in Nat /\ i \in 1 .. Len(waiters) /\ waiters[i] \in Waits
  BY <1>1
<1>4. ASSUME NEW i \in I
      PROVE  /\ Below(i) \in SUBSET I /\ i \in Below(i)
             /\ IsFiniteSet(Below(i)) /\ Cardinality(Below(i)) \in 1 .. Cardinality(I)
  <2> HIDE DEF I
  <2>1. Below(i) \in SUBSET I /\ i \in Below(i)
    BY <1>3
  <2>2. PICK B \in SUBSET I : B = Below(i)
    BY <2>1
  <2>3. IsFiniteSet(B) /\ Cardinality(B) <= Cardinality(I)
    BY <1>2, FS_Subset
  <2>4. Cardinality(B) \in Nat /\ (Cardinality(B) = 0 <=> B = {})
    BY <2>3, FS_CardinalityType, FS_EmptySet
  <2>5. Cardinality(B) \in 1 .. Cardinality(I)
    BY <2>1, <2>2, <2>3, <2>4, <1>2
  <2> QED BY <2>1, <2>2, <2>3, <2>5
<1>5. ASSUME NEW i \in I, NEW j \in I, Cardinality(Below(i)) = Cardinality(Below(j)), i < j
      PROVE  FALSE
  <2> HIDE DEF I
  <2>1. Below(i) \in SUBSET Below(j) /\ j \notin Below(i) /\ j \in Below(j)
    BY <1>3, <1>5
  <2>2. IsFiniteSet(Below(j))
    BY <1>4
  <2>3. PICK A, B : A = Below(i) /\ B = Below(j)
    OBVIOUS
  <2>4. A \in SUBSET B /\ IsFiniteSet(B) /\ Cardinality(B) = Cardinality(A)
    BY <2>1, <2>2, <2>3, <1>5
  <2>5. A = B
    BY <2>4, FS_Subset
  <2> QED BY <2>1, <2>3, <2>5
<1>6. Rank \in Injection(I, 1 .. Cardinality(I))
  <2>1. Rank \in [I -> 1 .. Cardinality(I)]
    BY <1>4
  <2>2. \A i, j \in I : Cardinality(Below(i)) = Cardinality(Below(j)) => i = j
    BY <1>3, <1>5
  <2>3. \A i, j \in I : Rank[i] = Rank[j] => i = j
    BY <2>2
  <2> HIDE DEF Rank, I
  <2> QED BY <2>1, <2>3 DEF Injection, IsInjective
<1>7. /\ IsFiniteSet(1 .. Cardinality(I))
      /\ Cardinality(1 .. Cardinality(I)) = Cardinality(I)
  <2>1. PICK c \in Nat : c = Cardinality(I)
    BY <1>2
  <2>2. IsFiniteSet(1 .. c) /\ Cardinality(1 .. c) = IF 1 > c THEN 0 ELSE c - 1 + 1
    BY FS_Interval
  <2> QED BY <2>1, <2>2
<1>8. Rank \in Surjection(I, 1 .. Cardinality(I))
  <2> HIDE DEF Rank, I
  <2> QED BY <1>6, <1>7, FS_Injection
<1>9. \A j \in 1 .. Cardinality(I) : \E i \in I : Cardinality(Below(i)) = j
  BY <1>8 DEF Surjection
<1>10. \A j \in 1 .. Cardinality(I) :
          waiters[CHOOSE i \in I : Cardinality(Below(i)) = j] \in Waits
  <2> TAKE j \in 1 .. Cardinality(I)
  <2>1. PICK x : x = CHOOSE i \in I : Cardinality(Below(i)) = j
    OBVIOUS
  <2>2. x \in I
    BY <2>1, <1>9
  <2> QED BY <2>1, <2>2, <1>3
<1>11. LiveAmong(n) = [j \in 1 .. Cardinality(I) |->
                          waiters[CHOOSE i \in I : Cardinality(Below(i)) = j]]
  BY DEF LiveAmong
<1>12. LiveAmong(n) \in [1 .. Cardinality(I) -> Waits]
  <2> HIDE DEF I, Below
  <2> QED BY <1>10, <1>11
<1> QED BY <1>2, <1>12, SeqDef

-----------------------------------------------------------------------------
(* The ready queue *)

Queues == Seq(0 .. MaxWaits)
NoReader(q) == \A i \in 1 .. Len(q) : q[i] # Reader
OneReader(q) == \A i, j \in 1 .. Len(q) : q[i] = Reader /\ q[j] = Reader => i = j

\* Wake-ups behind a queue add no callback to it.
LEMMA WokenIs ==
    ASSUME NEW q \in Queues, NEW ks \in Seq(Waits)
    PROVE  /\ Woken(q, ks) \in Queues
           /\ NoReader(q) => NoReader(Woken(q, ks))
           /\ OneReader(q) => OneReader(Woken(q, ks))
<1>1. ks \in Queues
  <2>1. Len(ks) \in Nat /\ ks \in [1 .. Len(ks) -> Waits]
    OBVIOUS
  <2>2. ks \in [1 .. Len(ks) -> 0 .. MaxWaits]
    BY <2>1, WaitsAre
  <2>3. Seq(0 .. MaxWaits) = UNION {[1 .. n -> 0 .. MaxWaits] : n \in Nat}
    BY SeqDef, Zenon
  <2> QED BY <2>1, <2>2, <2>3, Zenon DEF Queues
<1>2. /\ q \o ks \in Queues /\ Len(q) \in Nat /\ Len(ks) \in Nat
      /\ Len(q \o ks) = Len(q) + Len(ks)
  BY <1>1 DEF Queues
<1>3. \A i \in 1 .. Len(q) : (q \o ks)[i] = q[i]
  BY DEF Queues
<1>4. \A i \in 1 .. Len(q \o ks) : i \in 1 .. Len(q) \/ (q \o ks)[i] # Reader
  <2> TAKE i \in 1 .. Len(q \o ks)
  <2>1. CASE i \in 1 .. Len(q)
    BY <2>1
  <2>2. CASE i \notin 1 .. Len(q)
    <3>0. Len(q) \in Nat /\ Len(ks) \in Nat /\ i \in 1 .. Len(q) + Len(ks)
      BY <1>2
    <3>1. PICK j \in 1 .. Len(ks) : j = i - Len(q)
      BY <2>2, <3>0
    <3>2. i = Len(q) + j
      BY <3>1, <1>2
    <3>3. (q \o ks)[Len(q) + j] = ks[j]
      BY <1>1 DEF Queues
    <3>4. ks[j] \in Waits
      OBVIOUS
    <3> QED BY <3>2, <3>3, <3>4, WaitsAre
  <2> QED BY <2>1, <2>2
<1>5. NoReader(q) => NoReader(q \o ks)
  BY <1>3, <1>4 DEF NoReader
<1>6. OneReader(q) => OneReader(q \o ks)
  BY <1>3, <1>4 DEF OneReader
<1> QED BY <1>2, <1>5, <1>6 DEF Woken

\* A turn of the loop takes the head off the queue.
LEMMA PoppedIs ==
    ASSUME NEW q \in Queues, q # <<>>, OneReader(q)
    PROVE  /\ Tail(q) \in Queues /\ OneReader(Tail(q))
           /\ Head(q) = Reader => NoReader(Tail(q))
           /\ NoReader(q) => NoReader(Tail(q))
<1>1. /\ Tail(q) \in Queues /\ Len(q) \in Nat \ {0} /\ Len(Tail(q)) = Len(q) - 1
      /\ Head(q) = q[1] /\ 1 \in 1 .. Len(q)
      /\ \A i \in 1 .. Len(q) - 1 : i + 1 \in 1 .. Len(q) /\ Tail(q)[i] = q[i + 1]
  BY TailIs DEF Queues
<1>2. \A i, j \in 1 .. Len(q) - 1 : (i + 1 = j + 1 => i = j) /\ i + 1 # 1
  BY <1>1
<1>3. OneReader(Tail(q))
  BY <1>1, <1>2 DEF OneReader
<1>4. Head(q) = Reader => NoReader(Tail(q))
  BY <1>1, <1>2 DEF OneReader, NoReader
<1>5. NoReader(q) => NoReader(Tail(q))
  BY <1>1 DEF NoReader
<1> QED BY <1>1, <1>3, <1>4, <1>5

\* remove_reader takes the callback out.
LEMMA UnqueuedIs ==
    ASSUME NEW q \in Queues, OneReader(q)
    PROVE  Unqueued(q) \in Queues /\ NoReader(Unqueued(q)) /\ OneReader(Unqueued(q))
<1>1. PICK u : u = Unqueued(q)
  OBVIOUS
<1>2. CASE u = q /\ \A i \in 1 .. Len(q) : q[i] # Reader
  BY <1>1, <1>2 DEF NoReader, OneReader
<1>3. CASE \E m \in 1 .. Len(q) :
              /\ q[m] = Reader
              /\ u \in Seq(0 .. MaxWaits) /\ Len(u) = Len(q) - 1
              /\ \A i \in 1 .. Len(q) - 1 : u[i] = IF i < m THEN q[i] ELSE q[i + 1]
  <2>1. PICK m \in 1 .. Len(q) :
              /\ q[m] = Reader
              /\ u \in Seq(0 .. MaxWaits) /\ Len(u) = Len(q) - 1
              /\ \A i \in 1 .. Len(q) - 1 : u[i] = IF i < m THEN q[i] ELSE q[i + 1]
    BY <1>3
  <2>2. Len(q) \in Nat
    BY DEF Queues
  <2>3. \A i \in 1 .. Len(q) - 1 :
           /\ i < m => i \in 1 .. Len(q) /\ i # m
           /\ ~(i < m) => i + 1 \in 1 .. Len(q) /\ i + 1 # m
    BY <2>2
  <2>4. NoReader(u)
    BY <2>1, <2>3 DEF NoReader, OneReader
  <2> QED BY <1>1, <2>1, <2>4 DEF NoReader, OneReader, Queues
<1> QED BY <1>1, <1>2, <1>3, RemoveFirstIs DEF Unqueued, Queues

\* The callback enters the queue in Poll only, once, and leaves it when it
\* runs; nothing else in the queue is one.
LEMMA ReadyStep ==
    ASSUME TypeInv, ReaderOnce, [Next]_vars
    PROVE  /\ ready' \in Queues /\ OneReader(ready')
           /\ NoReader(ready) => Poll \/ NoReader(ready')
           /\ OnReadable \/ OnReadablePeekRaises \/ OnReadableFails => NoReader(ready')
<1>1. ready \in Queues /\ OneReader(ready) /\ waiters \in Seq(Waits)
  BY DEF TypeInv, ReaderOnce, OneReader, Queues
<1>2. \A n \in 0 .. Len(waiters) : LiveAmong(n) \in Seq(Waits)
  BY <1>1, LiveAmongIn
<1>3. Len(waiters) \in 0 .. Len(waiters) /\ Len(waiters) \in Nat /\ Len(cq) \in Nat
  BY <1>1 DEF TypeInv
<1>4. ASSUME ready # <<>>
      PROVE  /\ Tail(ready) \in Queues /\ OneReader(Tail(ready))
             /\ Head(ready) = Reader => NoReader(Tail(ready))
             /\ NoReader(ready) => NoReader(Tail(ready))
  BY <1>1, <1>4, PoppedIs
<1>5. ASSUME NEW q \in Queues, OneReader(q), RemoveReader(q)
      PROVE  /\ ready' \in Queues /\ OneReader(ready')
             /\ NoReader(q) => NoReader(ready')
  BY <1>5, UnqueuedIs DEF RemoveReader
<1>6. ASSUME NEW n \in 0 .. Len(waiters), ReaderRuns, Resolve(n)
      PROVE  ready' \in Queues /\ NoReader(ready') /\ OneReader(ready')
  <2>1. PICK q \in Queues : q = Unqueued(Tail(ready)) /\ NoReader(q) /\ OneReader(q)
    BY <1>4, <1>6, UnqueuedIs DEF ReaderRuns
  <2>2. PICK ks \in Seq(Waits) : ks = LiveAmong(n)
    BY <1>2
  <2>3. ready' = Woken(q, ks)
    BY <2>1, <2>2, <1>6 DEF Resolve
  <2> QED BY <2>1, <2>3, WokenIs
<1>7. CASE OnReadable
  <2>1. PICK n \in 0 .. Len(waiters) :
           n = IF Len(waiters) < Len(cq) THEN Len(waiters) ELSE Len(cq)
    BY <1>3
  <2>2. ReaderRuns /\ Resolve(n)
    BY <1>7, <2>1 DEF OnReadable
  <2> QED BY <1>6, <2>2
<1>8. CASE OnReadablePeekRaises
  <2>1. PICK n \in 1 .. Len(cq) : n < Len(waiters) /\ Resolve(n)
    BY <1>8 DEF OnReadablePeekRaises
  <2>2. n \in 0 .. Len(waiters) /\ ReaderRuns
    BY <2>1, <1>3, <1>8 DEF OnReadablePeekRaises
  <2> QED BY <1>6, <2>1, <2>2
<1>9. CASE OnReadableFails
  <2>1. PICK ks \in Seq(Waits) : ks = LiveAmong(Len(waiters))
    BY <1>2, <1>3
  <2>2. Tail(ready) \in Queues /\ NoReader(Tail(ready)) /\ OneReader(Tail(ready))
    BY <1>4, <1>9 DEF OnReadableFails, ReaderRuns
  <2>3. PICK q \in Queues : q = Woken(Tail(ready), ks) /\ NoReader(q) /\ OneReader(q)
    BY <2>2, WokenIs
  <2>4. RemoveReader(q)
    BY <1>9, <2>1, <2>3 DEF OnReadableFails
  <2> QED BY <1>5, <2>3, <2>4
<1>10. CASE Close
  <2>1. PICK ks \in Seq(Waits) : ks = LiveAmong(Len(waiters))
    BY <1>2, <1>3
  <2>2. PICK q \in Queues : /\ q = Woken(ready, ks) /\ OneReader(q)
                            /\ NoReader(ready) => NoReader(q)
    BY <1>1, WokenIs
  <2>3. RemoveReader(q)
    BY <1>10, <2>1, <2>2 DEF Close
  <2>4. /\ ready' \in Queues /\ OneReader(ready')
        /\ NoReader(q) => NoReader(ready')
    BY <1>5, <2>2, <2>3
  <2> QED BY <2>2, <2>4, <1>7, <1>8, <1>9
<1>11. ASSUME NEW k \in Waits, ResumeDone(k) \/ ResumeCancelled(k)
       PROVE  /\ ready' \in Queues /\ OneReader(ready')
              /\ NoReader(ready) => NoReader(ready')
  <2>1. ready # <<>>
    BY <1>11 DEF ResumeDone, ResumeCancelled, Wakes
  <2>2. PICK q \in Queues : /\ q = Tail(ready) /\ OneReader(q)
                            /\ NoReader(ready) => NoReader(q)
    BY <2>1, <1>4
  <2>3. ready' = q \/ RemoveReader(q)
    BY <2>2, <1>11 DEF ResumeDone, ResumeCancelled
  <2> QED BY <1>5, <2>2, <2>3
<1>12. ASSUME NEW k \in Waits, Cancel(k)
       PROVE  /\ ready' \in Queues /\ OneReader(ready')
              /\ NoReader(ready) => NoReader(ready')
  <2>1. PICK ks : ks = <<k>>
    OBVIOUS
  <2>2. ks \in Seq(Waits) /\ Append(ready, k) = ready \o ks
    BY <2>1, <1>1 DEF Queues
  <2>3. ready' = ready \/ ready' = Woken(ready, ks)
    BY <2>2, <1>12 DEF Cancel, Woken
  <2> QED BY <1>1, <2>2, <2>3, WokenIs
<1>13. CASE Poll
  <2>1. ready' = Append(ready, Reader) /\ Reader \notin ToSet(ready)
    BY <1>13 DEF Poll
  <2>2. NoReader(ready)
    BY <2>1, <1>1 DEF NoReader, ToSet, Queues
  <2>3. Reader \in 0 .. MaxWaits
    BY WaitsAre
  <2>4. /\ ready' \in Queues /\ Len(ready) \in Nat /\ Len(ready') = Len(ready) + 1
        /\ \A i \in 1 .. Len(ready) : ready'[i] = ready[i]
    BY <1>1, <2>1, <2>3 DEF Queues
  <2>5. \A i \in 1 .. Len(ready') : i = Len(ready') \/ i \in 1 .. Len(ready)
    BY <2>4
  <2>6. OneReader(ready')
    BY <2>2, <2>4, <2>5 DEF OneReader, NoReader
  <2> QED BY <2>4, <2>6, <1>7, <1>8, <1>9, <1>13
<1>14. CASE \/ StartWait \/ OnReadableBlocks \/ CtxClose \/ Steal \/ UNCHANGED vars
            \/ \E o \in kernel : Complete(o)
  <2>1. ready' = ready
    BY <1>14 DEF StartWait, OnReadableBlocks, CtxClose, Steal, vars, Complete, loopVars
  <2> QED BY <2>1, <1>1, <1>7, <1>8, <1>9
<1> QED
  BY <1>7, <1>8, <1>9, <1>10, <1>11, <1>12, <1>13, <1>14 DEF Next, Loop

-----------------------------------------------------------------------------
(* Delivery *)

\* The flags stay flags.
LEMMA FlagsStep ==
    ASSUME TypeInv, [Next]_vars
    PROVE  /\ closed' \in BOOLEAN /\ ctxOpen' \in BOOLEAN /\ active' \in BOOLEAN
           /\ registered' \in BOOLEAN /\ blocked' \in BOOLEAN
<1>1. /\ closed \in BOOLEAN /\ ctxOpen \in BOOLEAN /\ active \in BOOLEAN
      /\ registered \in BOOLEAN /\ blocked \in BOOLEAN
  BY DEF TypeInv
<1>2. ASSUME NEW ws, NEW a \in BOOLEAN, NEW r \in BOOLEAN, ArmReader(ws, a, r)
      PROVE  active' \in BOOLEAN /\ registered' \in BOOLEAN
  BY <1>2 DEF ArmReader
<1>3. ASSUME NEW q, RemoveReader(q)
      PROVE  active' \in BOOLEAN /\ registered' \in BOOLEAN
  BY <1>1, <1>3 DEF RemoveReader
<1>4. CASE StartWait
  <2>1. UNCHANGED <<closed, ctxOpen, blocked>>
        /\ (UNCHANGED <<active, registered>> \/ ArmReader(waiters', active, registered))
    BY <1>4 DEF StartWait
  <2>2. ASSUME ArmReader(waiters', active, registered)
        PROVE  active' \in BOOLEAN /\ registered' \in BOOLEAN
    BY <1>1, <2>2 DEF ArmReader
  <2> QED BY <1>1, <2>1, <2>2
<1>5. CASE OnReadable
  <2>1. UNCHANGED <<closed, ctxOpen>> /\ blocked' = FALSE
        /\ ArmReader(waiters', FALSE, FALSE)
    BY <1>5 DEF OnReadable
  <2>2. active' \in BOOLEAN /\ registered' \in BOOLEAN
    BY <2>1 DEF ArmReader
  <2> QED BY <1>1, <2>1, <2>2
<1>6. CASE OnReadablePeekRaises
  BY <1>1, <1>6 DEF OnReadablePeekRaises
<1>7. CASE OnReadableFails \/ Close
  <2>1. PICK q : RemoveReader(q)
    BY <1>7 DEF OnReadableFails, Close
  <2>2. closed' \in BOOLEAN /\ ctxOpen' \in BOOLEAN /\ blocked' \in BOOLEAN
    BY <1>1, <1>7 DEF OnReadableFails, Close
  <2> QED BY <1>3, <2>1, <2>2
<1>8. ASSUME NEW k \in Waits, ResumeDone(k) \/ ResumeCancelled(k) \/ Cancel(k)
      PROVE  /\ closed' \in BOOLEAN /\ ctxOpen' \in BOOLEAN /\ active' \in BOOLEAN
             /\ registered' \in BOOLEAN /\ blocked' \in BOOLEAN
  <2>1. UNCHANGED <<closed, ctxOpen, blocked>>
        /\ (UNCHANGED <<active, registered>> \/ \E q : RemoveReader(q))
    BY <1>8 DEF ResumeDone, ResumeCancelled, Cancel
  <2> QED BY <1>1, <1>3, <2>1
<1>9. CASE \/ Poll \/ OnReadableBlocks \/ CtxClose \/ Steal \/ UNCHANGED vars
           \/ \E o \in kernel : Complete(o)
  <2>1. UNCHANGED <<closed, active, registered>> /\ ctxOpen' \in BOOLEAN
        /\ blocked' \in BOOLEAN
    BY <1>1, <1>9 DEF Poll, OnReadableBlocks, CtxClose, Steal, vars, Complete, loopVars
  <2> QED BY <1>1, <2>1
<1> QED BY <1>4, <1>5, <1>6, <1>7, <1>8, <1>9 DEF Next, Loop

\* The first n completions go to the first n futures, to those still pending.
LEMMA ResolveIs ==
    ASSUME TypeInv, Rising, NEW n \in Nat, n <= Len(waiters), n <= Len(cq), Resolve(n)
    PROVE  /\ waiters' \in Seq(Waits) /\ Len(waiters') = Len(waiters) - n
           /\ \A i \in 1 .. Len(waiters) - n :
                 n + i \in 1 .. Len(waiters) /\ waiters'[i] = waiters[n + i]
           /\ cq' \in Seq(Waits) /\ Len(cq') = Len(cq) - n
           /\ \A i \in 1 .. Len(cq) - n :
                 n + i \in 1 .. Len(cq) /\ cq'[i] = cq[n + i]
           /\ fut' \in [Waits -> FutStates] /\ val' \in [Waits -> 0 .. MaxWaits]
           /\ \A i \in 1 .. n :
                 /\ i \in 1 .. Len(waiters) /\ i \in 1 .. Len(cq)
                 /\ Live(waiters[i]) => /\ fut'[waiters[i]] = "result"
                                        /\ val'[waiters[i]] = cq[i]
           /\ \A k \in Waits : (~ \E i \in 1 .. n : waiters[i] = k /\ Live(k)) =>
                 fut'[k] = fut[k] /\ val'[k] = val[k]
<1> DEFINE to(k) == {i \in {j \in 1 .. n : Live(waiters[j])} : waiters[i] = k}
<1>1. /\ waiters \in Seq(Waits) /\ cq \in Seq(Waits) /\ Len(waiters) \in Nat
      /\ Len(cq) \in Nat
      /\ fut \in [Waits -> FutStates] /\ val \in [Waits -> 0 .. MaxWaits]
  BY DEF TypeInv
<1>2. n \in 0 .. Len(waiters) /\ n \in 0 .. Len(cq)
  BY <1>1
<1>3. /\ waiters' = SubSeq(waiters, n + 1, Len(waiters))
      /\ cq' = SubSeq(cq, n + 1, Len(cq))
      /\ fut' = [k \in Waits |-> IF to(k) # {} THEN "result" ELSE fut[k]]
      /\ val' = [k \in Waits |-> IF to(k) # {} THEN cq[CHOOSE i \in to(k) : TRUE]
                                 ELSE val[k]]
  BY DEF Resolve, Unseen
<1>4. \A i \in 1 .. n : i \in 1 .. Len(waiters) /\ i \in 1 .. Len(cq)
                        /\ waiters[i] \in Waits /\ cq[i] \in Waits
  BY <1>1
<1>5. \A i, j \in 1 .. n : waiters[i] = waiters[j] => i = j
  <2> TAKE i, j \in 1 .. n
  <2>1. i < j \/ j < i \/ i = j
    OBVIOUS
  <2>2. waiters[i] \in Nat /\ waiters[j] \in Nat
    BY <1>4, WaitsAre
  <2> QED BY <2>1, <2>2, <1>4 DEF Rising
<1>6. ASSUME NEW k \in Waits, to(k) # {}
      PROVE  /\ (CHOOSE i \in to(k) : TRUE) \in to(k)
             /\ cq[CHOOSE i \in to(k) : TRUE] \in Waits
  <2>1. PICK x : x = CHOOSE i \in to(k) : TRUE
    OBVIOUS
  <2>2. x \in to(k)
    BY <1>6, <2>1
  <2> QED BY <2>1, <2>2, <1>4
<1>7. fut' \in [Waits -> FutStates]
  BY <1>1, <1>3 DEF FutStates
<1>8. val' \in [Waits -> 0 .. MaxWaits]
  <2>1. \A k \in Waits : (IF to(k) # {} THEN cq[CHOOSE i \in to(k) : TRUE] ELSE val[k])
                            \in 0 .. MaxWaits
    BY <1>1, <1>6, WaitsAre
  <2> HIDE DEF to
  <2> QED BY <2>1, <1>3
<1>9. ASSUME NEW i \in 1 .. n, Live(waiters[i])
      PROVE  fut'[waiters[i]] = "result" /\ val'[waiters[i]] = cq[i]
  <2>1. PICK k \in Waits : k = waiters[i]
    BY <1>4
  <2>2. to(k) = {i}
    BY <1>5, <1>9, <2>1
  <2>3. (CHOOSE j \in to(k) : TRUE) = i
    BY <2>2
  <2> HIDE DEF to
  <2>4. fut'[k] = "result" /\ val'[k] = cq[i]
    BY <2>2, <2>3, <1>3
  <2> QED BY <2>1, <2>4
<1>10. ASSUME NEW k \in Waits, ~ \E i \in 1 .. n : waiters[i] = k /\ Live(k)
       PROVE  fut'[k] = fut[k] /\ val'[k] = val[k]
  <2>1. to(k) = {}
    BY <1>10
  <2> HIDE DEF to
  <2> QED BY <2>1, <1>3
<1>11. /\ waiters' \in Seq(Waits) /\ Len(waiters') = Len(waiters) - n
       /\ \A i \in 1 .. Len(waiters) - n :
             n + i \in 1 .. Len(waiters) /\ waiters'[i] = waiters[n + i]
  BY <1>1, <1>2, <1>3, SuffixIs
<1>12. /\ cq' \in Seq(Waits) /\ Len(cq') = Len(cq) - n
       /\ \A i \in 1 .. Len(cq) - n :
             n + i \in 1 .. Len(cq) /\ cq'[i] = cq[n + i]
  BY <1>1, <1>2, <1>3, SuffixIs
<1> QED BY <1>4, <1>7, <1>8, <1>9, <1>10, <1>11, <1>12

Core == DequeInv /\ ArrivalInv /\ ServedInv

\* The lengths behind Taken.
LEMMA TakenIs ==
    ASSUME TypeInv, ArrivalInv
    PROVE  /\ Len(waiters) \in Nat /\ Len(cq) \in Nat /\ Len(arrived) \in Nat
           /\ Taken \in Nat /\ Taken = Len(arrived) - Len(cq)
           /\ \A i \in 1 .. Len(cq) :
                 Taken + i \in 1 .. Len(arrived) /\ cq[i] = arrived[Taken + i]
           /\ \A i \in 1 .. Taken : i \in 1 .. Len(arrived)
           /\ \A k \in Waits : k \in Nat \ {0}
           /\ \A i \in 1 .. Len(waiters) : waiters[i] \in Waits
<1>1. Len(waiters) \in Nat /\ Len(cq) \in Nat /\ Len(arrived) \in Nat
      /\ Len(cq) <= Len(arrived)
  BY DEF TypeInv, ArrivalInv
<1>2. Taken = Len(arrived) - Len(cq) /\ Taken \in Nat
  BY <1>1 DEF Taken
<1>3. \A i \in 1 .. Len(cq) : Taken + i \in 1 .. Len(arrived)
  BY <1>1, <1>2
<1>4. \A i \in 1 .. Taken : i \in 1 .. Len(arrived)
  BY <1>1, <1>2
<1>5. \A i \in 1 .. Len(cq) : cq[i] = arrived[Taken + i]
  BY DEF ArrivalInv
<1>6. \A i \in 1 .. Len(waiters) : waiters[i] \in Waits
  BY DEF TypeInv
<1>7. \A k \in Waits : k \in Nat \ {0}
  BY WaitsAre
<1> QED BY <1>1, <1>2, <1>3, <1>4, <1>5, <1>6, <1>7

\* Delivering n completions keeps order and places.
LEMMA ResolveKeeps ==
    ASSUME TypeInv, Core, NEW n \in Nat, n <= Len(waiters), n <= Len(cq), Resolve(n),
           UNCHANGED <<started, co, mustCancel, kernel, arrived>>
    PROVE  Core' /\ Taken' = Taken + n
<1>1. DequeInv /\ ArrivalInv /\ ServedInv /\ Rising
  BY DEF Core, DequeInv
<1>2. /\ Len(waiters) \in Nat /\ Len(cq) \in Nat /\ Len(arrived) \in Nat
      /\ Taken \in Nat /\ Taken = Len(arrived) - Len(cq)
      /\ \A i \in 1 .. Len(cq) :
            Taken + i \in 1 .. Len(arrived) /\ cq[i] = arrived[Taken + i]
      /\ \A i \in 1 .. Taken : i \in 1 .. Len(arrived)
      /\ \A k \in Waits : k \in Nat \ {0}
      /\ \A i \in 1 .. Len(waiters) : waiters[i] \in Waits
  BY <1>1, TakenIs
<1>3. /\ Len(waiters') = Len(waiters) - n
      /\ \A i \in 1 .. Len(waiters) - n :
            n + i \in 1 .. Len(waiters) /\ waiters'[i] = waiters[n + i]
      /\ Len(cq') = Len(cq) - n
      /\ \A i \in 1 .. Len(cq) - n : n + i \in 1 .. Len(cq) /\ cq'[i] = cq[n + i]
  BY <1>1, ResolveIs
<1>4. /\ \A i \in 1 .. n :
            /\ i \in 1 .. Len(waiters) /\ i \in 1 .. Len(cq)
            /\ Live(waiters[i]) => /\ fut'[waiters[i]] = "result"
                                   /\ val'[waiters[i]] = cq[i]
      /\ \A k \in Waits : (~ \E i \in 1 .. n : waiters[i] = k /\ Live(k)) =>
            fut'[k] = fut[k] /\ val'[k] = val[k]
  BY <1>1, ResolveIs
<1>5. Taken' = Taken + n
  BY <1>2, <1>3 DEF Taken
<1>6. \A i, j \in 1 .. Len(waiters) : (waiters[i] = waiters[j] => i = j)
                                      /\ (waiters[i] < waiters[j] => i < j)
  <2> TAKE i, j \in 1 .. Len(waiters)
  <2>1. i < j \/ j < i \/ i = j
    BY <1>2
  <2>2. waiters[i] \in Nat /\ waiters[j] \in Nat
    BY <1>2
  <2> QED BY <2>1, <2>2, <1>1, <1>2 DEF Rising
<1>7. Rising'
  <2>1. \A i, j \in 1 .. Len(waiters) - n : i < j => n + i < n + j
    BY <1>2
  <2> QED BY <2>1, <1>1, <1>3 DEF Rising
<1>8. Queued'
  <2> SUFFICES ASSUME NEW i \in 1 .. Len(waiters) - n
               PROVE  /\ waiters[n + i] <= started
                      /\ fut'[waiters[n + i]] \in {"pending", "cancelled"}
    BY <1>3 DEF Queued
  <2>1. n + i \in 1 .. Len(waiters) /\ n + i \notin 1 .. n
    BY <1>2, <1>3
  <2>2. ~ \E j \in 1 .. n : waiters[j] = waiters[n + i] /\ Live(waiters[n + i])
    BY <2>1, <1>4, <1>6
  <2>3. fut'[waiters[n + i]] = fut[waiters[n + i]]
    BY <2>1, <2>2, <1>2, <1>4
  <2> QED BY <2>1, <2>3, <1>1 DEF DequeInv, Queued
<1>9. ASSUME NEW k \in Waits
      PROVE  \/ /\ fut'[k] = fut[k] /\ val'[k] = val[k]
                /\ ~ \E i \in 1 .. n : waiters[i] = k /\ Live(k)
             \/ \E i \in 1 .. n :
                   /\ i \in 1 .. Len(waiters) /\ i \in 1 .. Len(cq)
                   /\ waiters[i] = k /\ Live(k) /\ fut'[k] = "result"
                   /\ val'[k] = cq[i] /\ cq[i] = arrived[Taken + i]
                   /\ Taken + i \in 1 .. Len(arrived)
  BY <1>2, <1>4
<1>10. Futures'
  <2> SUFFICES ASSUME NEW k \in Waits
        PROVE  /\ fut'[k] = "pending" => co[k] = "await"
                                  /\ \E i \in 1 .. Len(waiters') : waiters'[i] = k
               /\ k > started => fut'[k] = "none" /\ co[k] = "none" /\ ~mustCancel[k]
               /\ co[k] = "await" => fut'[k] # "none"
               /\ mustCancel[k] => fut'[k] \in {"result", "exception"}
               /\ val'[k] # NoOp => fut'[k] = "result"
               /\ (val'[k] # NoOp /\ co[k] = "cancelled") => mustCancel[k]
    BY DEF Futures, Live, Waits
  <2>1. /\ Live(k) => co[k] = "await" /\ \E i \in 1 .. Len(waiters) : waiters[i] = k
        /\ k > started => fut[k] = "none" /\ co[k] = "none" /\ ~mustCancel[k]
        /\ co[k] = "await" => fut[k] # "none"
        /\ mustCancel[k] => fut[k] \in {"result", "exception"}
        /\ val[k] # NoOp => fut[k] = "result"
        /\ (val[k] # NoOp /\ co[k] = "cancelled") => mustCancel[k]
    BY <1>1 DEF DequeInv, Futures
  <2>2. CASE \E i \in 1 .. n : waiters[i] = k /\ Live(k) /\ fut'[k] = "result"
    <3>1. fut[k] = "pending" /\ co[k] = "await" /\ fut'[k] = "result"
      BY <2>1, <2>2 DEF Live
    <3> QED BY <2>1, <3>1
  <2>3. CASE /\ fut'[k] = fut[k] /\ val'[k] = val[k]
             /\ ~ \E i \in 1 .. n : waiters[i] = k /\ Live(k)
    <3>1. ASSUME fut'[k] = "pending" PROVE \E i \in 1 .. Len(waiters') : waiters'[i] = k
      <4>1. PICK j \in 1 .. Len(waiters) : waiters[j] = k
        BY <2>1, <2>3, <3>1 DEF Live
      <4>2. j \notin 1 .. n
        BY <2>3, <3>1, <4>1 DEF Live
      <4>3. PICK i \in 1 .. Len(waiters) - n : n + i = j
        <5>1. j - n \in 1 .. Len(waiters) - n /\ n + (j - n) = j
          BY <4>2, <1>2
        <5> QED BY <5>1
      <4> QED BY <4>1, <4>3, <1>3
    <3> QED BY <2>1, <2>3, <3>1 DEF Live
  <2> QED BY <1>9, <2>2, <2>3
<1>11. ArrivalInv'
  <2>1. Len(cq') <= Len(arrived)
    BY <1>2, <1>3 DEF ArrivalInv
  <2>2. \A i \in 1 .. Len(cq') : cq'[i] = arrived[Taken' + i]
    <3> TAKE i \in 1 .. Len(cq')
    <3>1. i \in 1 .. Len(cq) - n
      BY <1>3
    <3>2. n + i \in 1 .. Len(cq) /\ cq'[i] = cq[n + i]
      BY <3>1, <1>3
    <3>3. cq[n + i] = arrived[Taken + (n + i)]
      BY <3>2, <1>2
    <3>4. Taken + (n + i) = Taken' + i
      BY <3>1, <1>2, <1>5
    <3> QED BY <3>2, <3>3, <3>4
  <2> QED BY <2>1, <2>2, <1>1 DEF ArrivalInv, ArrivedOnce
<1>12. ASSUME NEW k \in Waits, val'[k] # NoOp
       PROVE  \/ /\ val[k] # NoOp /\ val'[k] = val[k]
                 /\ \E p \in 1 .. Taken : arrived[p] = val'[k]
                 /\ \A i \in 1 .. Len(waiters) : k < waiters[i]
              \/ \E i \in 1 .. n :
                    /\ i \in 1 .. Len(waiters) /\ waiters[i] = k
                    /\ Taken + i \in 1 .. Len(arrived) /\ arrived[Taken + i] = val'[k]
  BY <1>1, <1>9, <1>12 DEF ServedInv
<1>13. ServedInv'
  <2>1. \A k \in Waits : val'[k] # NoOp => \E p \in 1 .. Taken' : arrived[p] = val'[k]
    <3> SUFFICES ASSUME NEW k \in Waits, val'[k] # NoOp
                 PROVE  \E p \in 1 .. Taken + n : arrived[p] = val'[k]
      BY <1>5
    <3>1. \A p \in 1 .. Taken : p \in 1 .. Taken + n
      BY <1>2
    <3>2. \A i \in 1 .. n : Taken + i \in 1 .. Taken + n
      BY <1>2
    <3> QED BY <3>1, <3>2, <1>12
  <2>2. \A k \in Waits : \A i \in 1 .. Len(waiters') : val'[k] # NoOp => k < waiters'[i]
    <3> SUFFICES ASSUME NEW k \in Waits, NEW i \in 1 .. Len(waiters) - n, val'[k] # NoOp
                 PROVE  k < waiters[n + i]
      BY <1>3
    <3>1. n + i \in 1 .. Len(waiters) /\ \A j \in 1 .. n : j < n + i
      BY <1>2, <1>3
    <3> QED BY <3>1, <1>1, <1>12 DEF Rising
  <2>3. ASSUME NEW j \in Waits, NEW k \in Waits, j < k, val'[j] # NoOp, val'[k] # NoOp,
               NEW p \in 1 .. Len(arrived), NEW q \in 1 .. Len(arrived),
               arrived[p] = val'[j], arrived[q] = val'[k]
        PROVE  p < q
    <3>1. \A x \in 1 .. Len(arrived) : (arrived[x] = val'[j] => x = p)
                                       /\ (arrived[x] = val'[k] => x = q)
      BY <2>3, <1>1 DEF ArrivalInv, ArrivedOnce
    <3>2. CASE val[j] # NoOp /\ val'[j] = val[j] /\ val[k] # NoOp /\ val'[k] = val[k]
      BY <2>3, <3>2, <1>1 DEF ServedInv
    <3>3. CASE /\ \E x \in 1 .. Taken : arrived[x] = val'[j]
               /\ \E i \in 1 .. n : Taken + i \in 1 .. Len(arrived)
                                    /\ arrived[Taken + i] = val'[k]
      <4>1. PICK i \in 1 .. n : Taken + i \in 1 .. Len(arrived)
                                /\ arrived[Taken + i] = val'[k]
        BY <3>3
      <4>2. q = Taken + i /\ p \in 1 .. Taken
        BY <3>1, <3>3, <4>1, <1>2
      <4> QED BY <4>2, <1>2
    <3>4. CASE /\ \E i \in 1 .. n : i \in 1 .. Len(waiters) /\ waiters[i] = j
               /\ \A i \in 1 .. Len(waiters) : k < waiters[i]
      <4>1. k < j
        BY <3>4
      <4> QED BY <4>1, <2>3, <1>2
    <3>5. ASSUME NEW a \in 1 .. n, a \in 1 .. Len(waiters), waiters[a] = j,
                 Taken + a \in 1 .. Len(arrived), arrived[Taken + a] = val'[j],
                 NEW b \in 1 .. n, b \in 1 .. Len(waiters), waiters[b] = k,
                 Taken + b \in 1 .. Len(arrived), arrived[Taken + b] = val'[k]
          PROVE  p < q
      <4>1. a < b
        BY <3>5, <2>3, <1>6
      <4>2. p = Taken + a /\ q = Taken + b
        BY <3>1, <3>5
      <4> QED BY <4>1, <4>2, <1>2
    <3>6. CASE /\ val[j] # NoOp /\ val'[j] = val[j]
               /\ \E x \in 1 .. Taken : arrived[x] = val'[j]
               /\ \A i \in 1 .. Len(waiters) : j < waiters[i]
      <4>1. CASE val[k] # NoOp /\ val'[k] = val[k]
        BY <3>2, <3>6, <4>1
      <4>2. CASE \E i \in 1 .. n : Taken + i \in 1 .. Len(arrived)
                                   /\ arrived[Taken + i] = val'[k]
        BY <3>3, <3>6, <4>2
      <4> QED BY <4>1, <4>2, <2>3, <1>12
    <3>7. ASSUME NEW a \in 1 .. n, a \in 1 .. Len(waiters), waiters[a] = j,
                 Taken + a \in 1 .. Len(arrived), arrived[Taken + a] = val'[j]
          PROVE  p < q
      <4>1. CASE \A i \in 1 .. Len(waiters) : k < waiters[i]
        BY <3>4, <3>7, <4>1
      <4>2. CASE \E i \in 1 .. n :
                    /\ i \in 1 .. Len(waiters) /\ waiters[i] = k
                    /\ Taken + i \in 1 .. Len(arrived) /\ arrived[Taken + i] = val'[k]
        BY <3>5, <3>7, <4>2
      <4> QED BY <4>1, <4>2, <2>3, <1>12
    <3> QED BY <3>6, <3>7, <2>3, <1>12
  <2> QED BY <2>1, <2>2, <2>3 DEF ServedInv, Waits
<1> QED BY <1>5, <1>7, <1>8, <1>10, <1>11, <1>13 DEF Core, DequeInv

-----------------------------------------------------------------------------
(* The steps of the tasks, the ring and the loop *)

DataType ==
    /\ started \in 0 .. MaxWaits /\ waiters \in Seq(Waits)
    /\ fut \in [Waits -> FutStates] /\ co \in [Waits -> CoStates]
    /\ val \in [Waits -> 0 .. MaxWaits] /\ mustCancel \in [Waits -> BOOLEAN]
    /\ kernel \subseteq Waits /\ cq \in Seq(Waits) /\ arrived \in Seq(Waits)

\* Served stays true when no completion moves and the deque only loses waits.
LEMMA ServedSame ==
    ASSUME ServedInv, Taken' = Taken, UNCHANGED <<val, arrived>>,
           \A i \in 1 .. Len(waiters') : \E j \in 1 .. Len(waiters) : waiters'[i] = waiters[j]
    PROVE  ServedInv'
<1>1. \A k \in Waits : val'[k] # NoOp => \E p \in 1 .. Taken' : arrived'[p] = val'[k]
  BY DEF ServedInv
<1>2. \A k \in Waits : \A i \in 1 .. Len(waiters') : val'[k] # NoOp => k < waiters'[i]
  BY DEF ServedInv
<1>3. \A j, k \in Waits : (j < k /\ val'[j] # NoOp /\ val'[k] # NoOp) =>
          \A p, q \in 1 .. Len(arrived') :
              arrived'[p] = val'[j] /\ arrived'[q] = val'[k] => p < q
  BY DEF ServedInv
<1> QED BY <1>1, <1>2, <1>3 DEF ServedInv, Waits

\* _fail_all and close: the deque is emptied, its pending futures end as x.
LEMMA EmptyKeeps ==
    ASSUME TypeInv, Core, NEW x \in {"exception", "cancelled"}, waiters' = <<>>,
           fut' = [k \in Waits |-> IF k \in LiveWaits THEN x ELSE fut[k]],
           UNCHANGED <<started, val, co, mustCancel, kernel, cq, arrived>>
    PROVE  Core' /\ DataType'
<1>1. Len(waiters') = 0 /\ 1 .. Len(waiters') = {} /\ waiters' \in Seq(Waits)
  OBVIOUS
<1>2. \A k \in Waits : Live(k) => k \in LiveWaits
  BY DEF Core, DequeInv, Futures, LiveWaits, ToSet, TypeInv
<1>3. \A k \in Waits : k \in LiveWaits => Live(k)
  BY DEF LiveWaits
<1>4. \A k \in Waits : fut'[k] = IF fut[k] = "pending" THEN x ELSE fut[k]
  BY <1>2, <1>3 DEF Live
<1>5. fut' \in [Waits -> FutStates]
  BY DEF TypeInv, FutStates
<1>6. Rising' /\ Queued'
  BY <1>1 DEF Rising, Queued
<1>7. Futures'
  BY <1>4 DEF Core, DequeInv, Futures, Live, Waits
<1>8. ArrivalInv' /\ Taken' = Taken
  BY DEF Core, ArrivalInv, ArrivedOnce, Taken
<1>9. ServedInv'
  BY <1>1, <1>8, ServedSame DEF Core
<1> QED BY <1>1, <1>5, <1>6, <1>7, <1>8, <1>9 DEF Core, DequeInv, DataType, TypeInv

\* Cancellation of a task that awaits.
LEMMA CancelKeeps ==
    ASSUME TypeInv, Core, NEW k \in Waits, Cancel(k)
    PROVE  Core' /\ DataType'
<1>1. /\ co[k] = "await" /\ ~mustCancel[k] /\ fut[k] # "cancelled"
      /\ UNCHANGED <<waiters, started, val, co, kernel, cq, arrived>>
  BY DEF Cancel, ringVars
<1>2. /\ fut \in [Waits -> FutStates] /\ mustCancel \in [Waits -> BOOLEAN]
  BY DEF TypeInv
<1>3. fut[k] # "none" /\ val[k] # NoOp => fut[k] = "result"
  BY <1>1 DEF Core, DequeInv, Futures
<1>4. \/ /\ Live(k) /\ mustCancel' = mustCancel
         /\ fut' = [fut EXCEPT ![k] = "cancelled"]
      \/ /\ ~Live(k) /\ fut' = fut
         /\ mustCancel' = [mustCancel EXCEPT ![k] = TRUE]
  BY DEF Cancel
<1>5. fut' \in [Waits -> FutStates] /\ mustCancel' \in [Waits -> BOOLEAN]
  BY <1>2, <1>4 DEF FutStates
<1>6. Rising'
  BY <1>1 DEF Core, DequeInv, Rising
<1>7. Queued'
  <2>1. \A j \in Waits : fut'[j] = fut[j] \/ (j = k /\ fut'[j] = "cancelled")
    BY <1>2, <1>4
  <2>2. \A i \in 1 .. Len(waiters) : waiters[i] \in Waits
    BY DEF TypeInv
  <2> QED BY <2>1, <2>2, <1>1 DEF Core, DequeInv, Queued
<1>8. Futures'
  <2>1. CASE Live(k) /\ mustCancel' = mustCancel /\ fut' = [fut EXCEPT ![k] = "cancelled"]
    <3>1. \A j \in Waits : fut'[j] = IF j = k THEN "cancelled" ELSE fut[j]
      BY <1>2, <2>1
    <3>2. k <= started /\ val[k] = NoOp
      BY <1>1, <2>1, WaitsAre DEF Core, DequeInv, Futures, Live, TypeInv
    <3> QED BY <1>1, <2>1, <3>1, <3>2 DEF Core, DequeInv, Futures, Live, Waits
  <2>2. CASE ~Live(k) /\ fut' = fut /\ mustCancel' = [mustCancel EXCEPT ![k] = TRUE]
    <3>1. \A j \in Waits : mustCancel'[j] = IF j = k THEN TRUE ELSE mustCancel[j]
      BY <1>2, <2>2
    <3>2. fut[k] \in FutStates
      BY <1>2
    <3>3. fut[k] \in {"result", "exception"}
      BY <1>1, <2>2, <3>2 DEF FutStates, Live, Core, DequeInv, Futures
    <3> QED BY <1>1, <2>2, <3>1, <3>3 DEF Core, DequeInv, Futures, Live, Waits
  <2> QED BY <1>4, <2>1, <2>2
<1>9. ArrivalInv' /\ Taken' = Taken
  BY <1>1 DEF Core, ArrivalInv, ArrivedOnce, Taken
<1>10. ServedInv'
  BY <1>1, <1>9, ServedSame DEF Core
<1> QED BY <1>1, <1>5, <1>6, <1>7, <1>8, <1>9, <1>10 DEF Core, DequeInv, DataType, TypeInv

\* An awaiting coroutine ends; a cancelled one leaves the deque.
LEMMA ResumeKeeps ==
    ASSUME TypeInv, Core, NEW k \in Waits, ResumeDone(k) \/ ResumeCancelled(k)
    PROVE  Core' /\ DataType'
<1>1. /\ UNCHANGED <<started, fut, val, mustCancel, kernel, cq, arrived>>
      /\ mustCancel[k] \/ fut[k] \in {"result", "exception", "cancelled"}
  BY DEF ResumeDone, ResumeCancelled, ringVars
<1>2. PICK c \in {"returned", "failed", "cancelled"} :
         /\ co' = [co EXCEPT ![k] = c]
         /\ c = "cancelled" => mustCancel[k] \/ fut[k] = "cancelled"
  <2>1. CASE ResumeDone(k)
    BY <2>1 DEF ResumeDone
  <2>2. CASE ResumeCancelled(k)
    BY <2>2 DEF ResumeCancelled
  <2> QED BY <2>1, <2>2
<1>3. co' \in [Waits -> CoStates] /\ \A j \in Waits : co'[j] = IF j = k THEN c ELSE co[j]
  BY <1>2 DEF TypeInv, CoStates
<1>4. ~Live(k) /\ ~(k > started)
  BY <1>1 DEF Core, DequeInv, Futures, Live
<1>5. /\ waiters' \in Seq(Waits) /\ Rising'
      /\ \A i \in 1 .. Len(waiters') : \E j \in 1 .. Len(waiters) : waiters'[i] = waiters[j]
      /\ \A j \in 1 .. Len(waiters) :
            waiters[j] # k => \E i \in 1 .. Len(waiters') : waiters'[i] = waiters[j]
  <2>1. CASE waiters' = waiters
    BY <2>1 DEF TypeInv, Core, DequeInv, Rising
  <2>2. CASE waiters' = Dequeue(k)
    <3>1. waiters \in Seq(Waits) /\ Len(waiters) \in Nat
      BY DEF TypeInv
    <3>2. PICK w : w = waiters' /\ w = RemoveFirst(waiters, k)
      BY <2>2 DEF Dequeue
    <3>3. CASE w = waiters
      BY <3>2, <3>3, <2>1
    <3>4. ASSUME NEW m \in 1 .. Len(waiters), waiters[m] = k,
                 w \in Seq(Waits), Len(w) = Len(waiters) - 1,
                 \A i \in 1 .. Len(waiters) - 1 :
                    w[i] = IF i < m THEN waiters[i] ELSE waiters[i + 1]
          PROVE  /\ waiters' \in Seq(Waits) /\ Rising'
                 /\ \A i \in 1 .. Len(waiters') :
                       \E j \in 1 .. Len(waiters) : waiters'[i] = waiters[j]
                 /\ \A j \in 1 .. Len(waiters) :
                       waiters[j] # k =>
                          \E i \in 1 .. Len(waiters') : waiters'[i] = waiters[j]
      <4>1. \A i \in 1 .. Len(waiters) - 1 : i \in 1 .. Len(waiters)
                                             /\ i + 1 \in 1 .. Len(waiters)
        BY <3>1
      <4>2. \A i \in 1 .. Len(w) : \E j \in 1 .. Len(waiters) : w[i] = waiters[j]
        BY <3>4, <4>1
      <4>3. \A i, j \in 1 .. Len(w) : i < j => w[i] < w[j]
        <5> TAKE i, j \in 1 .. Len(w)
        <5> HAVE i < j
        <5>0. i \in 1 .. Len(waiters) - 1 /\ j \in 1 .. Len(waiters) - 1
          BY <3>4
        <5>1. PICK a \in 1 .. Len(waiters) : a = (IF i < m THEN i ELSE i + 1)
          BY <4>1, <5>0
        <5>2. PICK b \in 1 .. Len(waiters) : b = (IF j < m THEN j ELSE j + 1)
          BY <4>1, <5>0
        <5>3. a < b
          BY <5>0, <5>1, <5>2, <3>1
        <5>4. w[i] = waiters[a] /\ w[j] = waiters[b]
          BY <5>0, <5>1, <5>2, <3>4
        <5> QED BY <5>3, <5>4 DEF Core, DequeInv, Rising
      <4>4. ASSUME NEW j \in 1 .. Len(waiters), waiters[j] # k
            PROVE  \E i \in 1 .. Len(w) : w[i] = waiters[j]
        <5>1. j # m
          BY <3>4, <4>4
        <5>2. CASE j < m
          <6>1. j \in 1 .. Len(waiters) - 1
            BY <5>2, <3>1
          <6> QED BY <6>1, <5>2, <3>4
        <5>3. CASE j > m
          <6>1. PICK i \in 1 .. Len(waiters) - 1 : i = j - 1
            BY <5>3, <3>1
          <6>2. i + 1 = j /\ ~(i < m)
            BY <6>1, <5>3, <3>1
          <6> QED BY <6>1, <6>2, <3>4
        <5> QED BY <5>1, <5>2, <5>3, <3>1
      <4> QED BY <3>2, <3>4, <4>2, <4>3, <4>4 DEF Rising
    <3> QED BY <3>1, <3>2, <3>3, <3>4, RemoveFirstIs
  <2> QED BY <2>1, <2>2 DEF ResumeDone, ResumeCancelled
<1>6. Queued'
  BY <1>1, <1>5 DEF Core, DequeInv, Queued
<1>7. Futures'
  <2> SUFFICES ASSUME NEW j \in Waits
        PROVE  /\ fut[j] = "pending" => co'[j] = "await"
                                  /\ \E i \in 1 .. Len(waiters') : waiters'[i] = j
               /\ j > started => fut[j] = "none" /\ co'[j] = "none" /\ ~mustCancel[j]
               /\ co'[j] = "await" => fut[j] # "none"
               /\ mustCancel[j] => fut[j] \in {"result", "exception"}
               /\ val[j] # NoOp => fut[j] = "result"
               /\ (val[j] # NoOp /\ co'[j] = "cancelled") => mustCancel[j]
    BY <1>1 DEF Futures, Live, Waits
  <2>1. /\ Live(j) => co[j] = "await" /\ \E i \in 1 .. Len(waiters) : waiters[i] = j
        /\ j > started => fut[j] = "none" /\ co[j] = "none" /\ ~mustCancel[j]
        /\ co[j] = "await" => fut[j] # "none"
        /\ mustCancel[j] => fut[j] \in {"result", "exception"}
        /\ val[j] # NoOp => fut[j] = "result"
        /\ (val[j] # NoOp /\ co[j] = "cancelled") => mustCancel[j]
    BY DEF Core, DequeInv, Futures
  <2>2. CASE j = k
    BY <1>2, <1>3, <1>4, <2>1, <2>2 DEF Live
  <2>3. CASE j # k
    BY <1>3, <1>5, <2>1, <2>3 DEF Live
  <2> QED BY <2>2, <2>3
<1>8. ArrivalInv' /\ Taken' = Taken
  BY <1>1 DEF Core, ArrivalInv, ArrivedOnce, Taken
<1>9. ServedInv'
  BY <1>1, <1>5, <1>8, ServedSame DEF Core
<1> QED BY <1>1, <1>3, <1>5, <1>6, <1>7, <1>8, <1>9 DEF Core, DequeInv, DataType, TypeInv

\* A wait starts: its number is above all others, or the call raises.
LEMMA StartKeeps ==
    ASSUME TypeInv, Core, StartWait
    PROVE  Core' /\ DataType'
<1>1. PICK k \in Waits : k = started + 1
  BY DEF StartWait
<1>2. /\ started' = k /\ started \in 0 .. MaxWaits /\ k \in Nat
      /\ UNCHANGED <<val, mustCancel, cq, arrived>>
  BY <1>1, WaitsAre DEF StartWait, TypeInv
<1>3. \A j \in Waits : j \in Nat /\ (j > k => j > started) /\ (j <= started => j < k)
                       /\ (j > started => j = k \/ j > k)
  BY <1>1, <1>2, WaitsAre DEF TypeInv
<1>4. k > started
  BY <1>1, <1>2
<1>5. /\ fut[k] = "none" /\ co[k] = "none" /\ ~mustCancel[k] /\ val[k] = NoOp
      /\ \A j \in Waits : val[j] # NoOp => j <= started
  <2>1. /\ \A j \in Waits : j > started => fut[j] = "none" /\ co[j] = "none" /\ ~mustCancel[j]
        /\ \A j \in Waits : val[j] # NoOp => fut[j] = "result"
    BY DEF Core, DequeInv, Futures
  <2>2. \A j \in Waits : j > started \/ j <= started
    BY <1>2, <1>3
  <2> QED BY <2>1, <2>2, <1>4
<1>6. /\ waiters \in Seq(Waits) /\ Len(waiters) \in Nat
      /\ \A i \in 1 .. Len(waiters) : waiters[i] \in Waits /\ waiters[i] <= started
                                      /\ waiters[i] < k
  BY <1>3 DEF TypeInv, Core, DequeInv, Queued
<1>7. /\ \A i \in 1 .. Len(arrived) : arrived[i] \in Waits /\ arrived[i] < k
      /\ \A o \in kernel : o \in Waits /\ o < k
  BY <1>3 DEF TypeInv, Core, ArrivalInv
<1>8. PICK c \in {"failed", "await"} : co' = [co EXCEPT ![k] = c]
        /\ (c = "failed" => UNCHANGED <<fut, waiters, kernel>>)
        /\ (c = "await" => /\ fut' = [fut EXCEPT ![k] = "pending"]
                           /\ waiters' = Append(waiters, k)
                           /\ kernel' = kernel \cup {k})
  BY <1>1 DEF StartWait, Enqueue
<1>9. co' \in [Waits -> CoStates] /\ \A j \in Waits : co'[j] = IF j = k THEN c ELSE co[j]
  BY <1>8 DEF TypeInv, CoStates
<1>10. Taken' = Taken
  BY <1>2 DEF Taken
<1>11. ArrivalInv'
  <2>1. /\ \A i \in 1 .. Len(arrived) : arrived[i] <= k /\ arrived[i] \notin kernel'
        /\ \A o \in kernel' : o <= k
    <3>1. kernel' \subseteq kernel \cup {k}
      BY <1>8
    <3>2. \A j \in Waits : j < k => j <= k /\ j # k
      BY <1>2, <1>3
    <3>3. k <= k
      BY <1>2
    <3> QED BY <3>1, <3>2, <3>3, <1>7 DEF Core, ArrivalInv
  <2> QED BY <2>1, <1>2, <1>10 DEF Core, ArrivalInv, ArrivedOnce
<1>12. CASE c = "failed"
  <2>1. UNCHANGED <<fut, waiters, kernel>>
    BY <1>8, <1>12
  <2>2. Rising' /\ Queued'
    <3>1. \A i \in 1 .. Len(waiters) : waiters[i] <= k
      <4>1. \A j \in Waits : j < k => j <= k
        BY <1>2, <1>3
      <4> QED BY <4>1, <1>6, Zenon
    <3> QED BY <2>1, <3>1, <1>2 DEF Core, DequeInv, Rising, Queued
  <2>3. Futures'
    <3> SUFFICES ASSUME NEW j \in Waits
          PROVE  /\ Live(j) => co'[j] = "await"
                                 /\ \E i \in 1 .. Len(waiters) : waiters[i] = j
                 /\ j > k => fut[j] = "none" /\ co'[j] = "none" /\ ~mustCancel[j]
                 /\ co'[j] = "await" => fut[j] # "none"
                 /\ mustCancel[j] => fut[j] \in {"result", "exception"}
                 /\ val[j] # NoOp => fut[j] = "result"
                 /\ (val[j] # NoOp /\ co'[j] = "cancelled") => mustCancel[j]
      BY <1>2, <2>1 DEF Futures, Live, Waits
    <3>1. CASE j = k
      <4>1. ~(j > k)
        BY <3>1, <1>2
      <4> QED BY <4>1, <3>1, <1>5, <1>9, <1>12 DEF Live
    <3>2. CASE j # k
      BY <3>2, <1>3, <1>9 DEF Core, DequeInv, Futures
    <3> QED BY <3>1, <3>2
  <2>4. ServedInv'
    BY <2>1, <1>2, <1>10, ServedSame DEF Core
  <2> QED BY <2>1, <2>2, <2>3, <2>4, <1>2, <1>9, <1>11, WaitsAre
      DEF Core, DequeInv, DataType, TypeInv
<1>13. CASE c = "await"
  <2>1. /\ fut' = [fut EXCEPT ![k] = "pending"] /\ waiters' = Append(waiters, k)
        /\ kernel' = kernel \cup {k}
    BY <1>8, <1>13
  <2>2. /\ fut' \in [Waits -> FutStates]
        /\ \A j \in Waits : fut'[j] = IF j = k THEN "pending" ELSE fut[j]
    BY <2>1 DEF TypeInv, FutStates
  <2>3. /\ waiters' \in Seq(Waits) /\ Len(waiters') = Len(waiters) + 1
        /\ \A i \in 1 .. Len(waiters) : waiters'[i] = waiters[i]
        /\ waiters'[Len(waiters) + 1] = k
    BY <2>1, <1>6
  <2>4. /\ \A i \in 1 .. Len(waiters) + 1 : i \in 1 .. Len(waiters) \/ i = Len(waiters) + 1
        /\ \A i, j \in 1 .. Len(waiters) + 1 : i < j => i \in 1 .. Len(waiters)
        /\ Len(waiters) + 1 \in 1 .. Len(waiters) + 1
        /\ \A i \in 1 .. Len(waiters) : i \in 1 .. Len(waiters) + 1
    BY <1>6
  <2>5. Rising'
    BY <2>3, <2>4, <1>6 DEF Core, DequeInv, Rising
  <2>6. Queued'
    <3>1. \A i \in 1 .. Len(waiters) : waiters[i] <= k /\ waiters[i] # k
      <4>1. \A j \in Waits : j < k => j <= k /\ j # k
        BY <1>2, <1>3
      <4> QED BY <4>1, <1>6, Zenon
    <3>2. k <= k
      BY <1>2
    <3> QED BY <3>1, <3>2, <2>2, <2>3, <2>4, <1>2, <1>6 DEF Core, DequeInv, Queued
  <2>7. Futures'
    <3> SUFFICES ASSUME NEW j \in Waits
          PROVE  /\ fut'[j] = "pending" => co'[j] = "await"
                                 /\ \E i \in 1 .. Len(waiters') : waiters'[i] = j
                 /\ j > k => fut'[j] = "none" /\ co'[j] = "none" /\ ~mustCancel[j]
                 /\ co'[j] = "await" => fut'[j] # "none"
                 /\ mustCancel[j] => fut'[j] \in {"result", "exception"}
                 /\ val[j] # NoOp => fut'[j] = "result"
                 /\ (val[j] # NoOp /\ co'[j] = "cancelled") => mustCancel[j]
      BY <1>2 DEF Futures, Live, Waits
    <3>1. CASE j = k
      <4>1. ~(j > k)
        BY <3>1, <1>2
      <4>2. \E i \in 1 .. Len(waiters') : waiters'[i] = j
        BY <3>1, <2>3, <2>4
      <4> QED BY <4>1, <4>2, <3>1, <1>5, <1>9, <1>13, <2>2
    <3>2. CASE j # k
      <4>1. /\ Live(j) => co[j] = "await" /\ \E i \in 1 .. Len(waiters) : waiters[i] = j
            /\ j > started => fut[j] = "none" /\ co[j] = "none" /\ ~mustCancel[j]
            /\ co[j] = "await" => fut[j] # "none"
            /\ mustCancel[j] => fut[j] \in {"result", "exception"}
            /\ val[j] # NoOp => fut[j] = "result"
            /\ (val[j] # NoOp /\ co[j] = "cancelled") => mustCancel[j]
        BY DEF Core, DequeInv, Futures
      <4>2. fut'[j] = fut[j] /\ co'[j] = co[j] /\ (j > k => j > started)
        BY <3>2, <1>3, <1>9, <2>2
      <4>3. fut[j] = "pending" => \E i \in 1 .. Len(waiters') : waiters'[i] = j
        BY <4>1, <2>3, <2>4 DEF Live
      <4> QED BY <4>1, <4>2, <4>3 DEF Live
    <3> QED BY <3>1, <3>2
  <2>8. ServedInv'
    <3>1. \A j \in Waits : \A i \in 1 .. Len(waiters') : val[j] # NoOp => j < waiters'[i]
      <4> TAKE j \in Waits
      <4> TAKE i \in 1 .. Len(waiters')
      <4> HAVE val[j] # NoOp
      <4>1. j < k
        BY <1>3, <1>5
      <4>2. i \in 1 .. Len(waiters) \/ i = Len(waiters) + 1
        BY <2>3, <2>4
      <4> QED BY <4>1, <4>2, <2>3 DEF Core, ServedInv
    <3>2. \A j \in Waits : val[j] # NoOp => \E p \in 1 .. Taken : arrived[p] = val[j]
      BY DEF Core, ServedInv
    <3>3. \A j, m \in Waits : (j < m /\ val[j] # NoOp /\ val[m] # NoOp) =>
             \A p, q \in 1 .. Len(arrived) :
                arrived[p] = val[j] /\ arrived[q] = val[m] => p < q
      BY DEF Core, ServedInv
    <3> QED BY <3>1, <3>2, <3>3, <1>2, <1>10 DEF ServedInv, Waits
  <2>9. kernel' \subseteq Waits
    BY <2>1 DEF TypeInv
  <2> QED BY <2>2, <2>3, <2>5, <2>6, <2>7, <2>8, <2>9, <1>2, <1>9, <1>11, WaitsAre
      DEF Core, DequeInv, DataType, TypeInv
<1> QED BY <1>12, <1>13

\* Completions arrive, are taken by others, or vanish with the context.
LEMMA RingKeeps ==
    ASSUME TypeInv, Core,
           CtxClose \/ Steal \/ \E o \in kernel : Complete(o)
    PROVE  /\ Core' /\ DataType' /\ UNCHANGED <<waiters, fut, val, co, mustCancel>>
           /\ (\E o \in kernel : Complete(o)) => Taken' = Taken
<1>1. UNCHANGED <<waiters, started, fut, val, co, mustCancel>>
  BY DEF CtxClose, Steal, Complete, loopVars, taskVars
<1>2. DequeInv'
  BY <1>1 DEF Core, DequeInv, Rising, Queued, Futures, Live, Waits
<1>3. /\ Len(waiters) \in Nat /\ Len(cq) \in Nat /\ Len(arrived) \in Nat
      /\ Taken \in Nat /\ Taken = Len(arrived) - Len(cq)
      /\ \A i \in 1 .. Len(cq) :
            Taken + i \in 1 .. Len(arrived) /\ cq[i] = arrived[Taken + i]
      /\ \A i \in 1 .. Taken : i \in 1 .. Len(arrived)
      /\ cq \in Seq(Waits) /\ arrived \in Seq(Waits) /\ kernel \subseteq Waits
  BY TakenIs DEF Core, TypeInv
<1>4. ASSUME NEW o \in kernel, Complete(o)
      PROVE  ArrivalInv' /\ ServedInv' /\ DataType' /\ Taken' = Taken
  <2>1. kernel' = kernel \ {o} /\ cq' = Append(cq, o) /\ arrived' = Append(arrived, o)
    BY <1>4 DEF Complete
  <2>2. /\ o \in Waits /\ o <= started
        /\ \A i \in 1 .. Len(arrived) : arrived[i] # o
    BY <1>3 DEF Core, ArrivalInv
  <2>3. /\ cq' \in Seq(Waits) /\ Len(cq') = Len(cq) + 1
        /\ \A i \in 1 .. Len(cq) : cq'[i] = cq[i]
        /\ cq'[Len(cq) + 1] = o
    BY <2>1, <2>2, <1>3
  <2>4. /\ arrived' \in Seq(Waits) /\ Len(arrived') = Len(arrived) + 1
        /\ \A i \in 1 .. Len(arrived) : arrived'[i] = arrived[i]
        /\ arrived'[Len(arrived) + 1] = o
    BY <2>1, <2>2, <1>3
  <2>5. Taken' = Taken
    BY <2>3, <2>4, <1>3 DEF Taken
  <2>6. \A n \in Nat : \A i \in 1 .. n + 1 : i \in 1 .. n \/ i = n + 1
    OBVIOUS
  <2>7. \A i \in 1 .. Len(arrived') : i \in 1 .. Len(arrived) \/ i = Len(arrived) + 1
    BY <2>4, <2>6, <1>3, Zenon
  <2>8. \A i \in 1 .. Len(cq') : i \in 1 .. Len(cq) \/ i = Len(cq) + 1
    BY <2>3, <2>6, <1>3, Zenon
  <2>9. \A i \in 1 .. Len(cq') : cq'[i] = arrived'[Taken' + i]
    <3>1. Taken + (Len(cq) + 1) = Len(arrived) + 1
      BY <1>3
    <3> QED BY <3>1, <2>3, <2>4, <2>5, <2>8, <1>3
  <2>10. Len(cq') <= Len(arrived')
    BY <2>3, <2>4, <1>3 DEF Core, ArrivalInv
  <2>11. ArrivedOnce'
    BY <2>2, <2>4, <2>7 DEF Core, ArrivalInv, ArrivedOnce
  <2>12. \A i \in 1 .. Len(arrived') : arrived'[i] <= started /\ arrived'[i] \notin kernel'
    BY <2>1, <2>2, <2>4, <2>7 DEF Core, ArrivalInv
  <2>13. \A x \in kernel' : x <= started
    BY <2>1 DEF Core, ArrivalInv
  <2>14. ArrivalInv'
    BY <2>9, <2>10, <2>11, <2>12, <2>13, <1>1 DEF ArrivalInv
  <2>15. \A j \in Waits : val[j] # NoOp => \E p \in 1 .. Taken : arrived[p] = val[j]
    BY DEF Core, ServedInv
  <2>16. \A j \in Waits : val[j] # NoOp => val[j] # o
    BY <2>2, <2>15, <1>3
  <2>17. \A j, m \in Waits : (j < m /\ val[j] # NoOp /\ val[m] # NoOp) =>
            \A p, q \in 1 .. Len(arrived') :
               arrived'[p] = val[j] /\ arrived'[q] = val[m] => p < q
    BY <2>4, <2>7, <2>16 DEF Core, ServedInv
  <2>18. \A j \in Waits : \A i \in 1 .. Len(waiters) : val[j] # NoOp => j < waiters[i]
    BY DEF Core, ServedInv
  <2>19. \A j \in Waits : val[j] # NoOp => \E p \in 1 .. Taken' : arrived'[p] = val[j]
    BY <2>4, <2>5, <2>15, <1>3
  <2>20. ServedInv'
    BY <2>17, <2>18, <2>19, <1>1 DEF ServedInv, Waits
  <2>21. DataType'
    BY <2>1, <2>3, <2>4, <1>1, <1>3 DEF DataType, TypeInv
  <2> QED BY <2>5, <2>14, <2>20, <2>21
<1>5. ASSUME CtxClose \/ Steal
      PROVE  ArrivalInv' /\ ServedInv' /\ DataType'
  <2>1. /\ arrived' = arrived /\ kernel' \subseteq kernel
        /\ cq' \in Seq(Waits) /\ Len(cq') \in Nat /\ Len(cq') <= Len(cq)
        /\ \A i \in 1 .. Len(cq') : /\ i + (Len(cq) - Len(cq')) \in 1 .. Len(cq)
                                    /\ cq'[i] = cq[i + (Len(cq) - Len(cq'))]
    <3>1. CASE CtxClose
      <4>1. arrived' = arrived /\ kernel' \subseteq kernel /\ cq' = <<>>
        BY <3>1 DEF CtxClose
      <4>2. Len(cq') = 0 /\ cq' \in Seq(Waits) /\ 1 .. Len(cq') = {}
        BY <4>1
      <4> QED BY <4>1, <4>2, <1>3
    <3>2. CASE Steal
      <4>1. arrived' = arrived /\ kernel' \subseteq kernel /\ cq' = Tail(cq) /\ cq # <<>>
        BY <3>2 DEF Steal
      <4>2. /\ cq' \in Seq(Waits) /\ Len(cq) \in Nat \ {0} /\ Len(cq') = Len(cq) - 1
            /\ \A i \in 1 .. Len(cq) - 1 : i + 1 \in 1 .. Len(cq) /\ cq'[i] = cq[i + 1]
        BY <4>1, <1>3, TailIs
      <4>3. Len(cq) - Len(cq') = 1 /\ Len(cq') \in Nat /\ Len(cq') <= Len(cq)
        BY <4>2
      <4> QED BY <4>1, <4>2, <4>3
    <3> QED BY <1>5, <3>1, <3>2
  <2>2. Taken' = Taken + (Len(cq) - Len(cq')) /\ Taken' \in Nat /\ Taken <= Taken'
    BY <2>1, <1>3 DEF Taken
  <2>3. \A i \in 1 .. Len(cq') : cq'[i] = arrived'[Taken' + i]
    <3> TAKE i \in 1 .. Len(cq')
    <3>1. PICK j \in 1 .. Len(cq) : j = i + (Len(cq) - Len(cq')) /\ cq'[i] = cq[j]
      BY <2>1
    <3>2. Taken + j = Taken' + i
      BY <3>1, <2>1, <2>2, <1>3
    <3>3. cq[j] = arrived[Taken + j]
      BY <1>3
    <3> QED BY <3>1, <3>2, <3>3, <2>1
  <2>4. Len(cq') <= Len(arrived')
    BY <2>1, <1>3 DEF Core, ArrivalInv
  <2>5. ArrivalInv'
    BY <2>1, <2>3, <2>4, <1>1 DEF Core, ArrivalInv, ArrivedOnce
  <2>6. \A p \in 1 .. Taken : p \in 1 .. Taken'
    BY <2>2, <1>3
  <2>7. \A j \in Waits : val[j] # NoOp => \E p \in 1 .. Taken' : arrived[p] = val[j]
    BY <2>6 DEF Core, ServedInv
  <2>8. /\ \A j \in Waits : \A i \in 1 .. Len(waiters) : val[j] # NoOp => j < waiters[i]
        /\ \A j, m \in Waits : (j < m /\ val[j] # NoOp /\ val[m] # NoOp) =>
             \A p, q \in 1 .. Len(arrived) :
                arrived[p] = val[j] /\ arrived[q] = val[m] => p < q
    BY DEF Core, ServedInv
  <2>9. ServedInv'
    BY <2>1, <2>7, <2>8, <1>1 DEF ServedInv, Waits
  <2>10. DataType'
    BY <2>1, <1>1, <1>3 DEF DataType, TypeInv
  <2> QED BY <2>5, <2>9, <2>10
<1>6. ASSUME \E o \in kernel : Complete(o)
      PROVE  ArrivalInv' /\ ServedInv' /\ DataType' /\ Taken' = Taken
  BY <1>4, <1>6
<1> QED BY <1>1, <1>2, <1>5, <1>6 DEF Core

\* A callback that delivers hands out some number of completions.
LEMMA DeliversSome ==
    ASSUME TypeInv, OnReadable \/ OnReadablePeekRaises
    PROVE  \E n \in Nat : n <= Len(waiters) /\ n <= Len(cq) /\ Resolve(n)
<1>1. Len(waiters) \in Nat /\ Len(cq) \in Nat
  BY DEF TypeInv
<1>2. CASE OnReadable
  <2>1. PICK n : n = IF Len(waiters) < Len(cq) THEN Len(waiters) ELSE Len(cq)
    OBVIOUS
  <2>2. Resolve(n)
    BY <1>2, <2>1 DEF OnReadable
  <2>3. n \in Nat /\ n <= Len(waiters) /\ n <= Len(cq)
    BY <1>1, <2>1
  <2> QED BY <2>2, <2>3
<1>3. CASE OnReadablePeekRaises
  <2>1. PICK n \in 1 .. Len(cq) : n < Len(waiters) /\ Resolve(n)
    BY <1>3 DEF OnReadablePeekRaises
  <2>2. n \in Nat /\ n <= Len(waiters) /\ n <= Len(cq)
    BY <1>1, <2>1
  <2> QED BY <2>1, <2>2
<1> QED BY <1>2, <1>3

\* Delivery keeps the order.
LEMMA DeliverKeeps ==
    ASSUME TypeInv, Core, OnReadable \/ OnReadablePeekRaises
    PROVE  Core' /\ DataType'
<1>1. PICK n \in Nat : n <= Len(waiters) /\ n <= Len(cq) /\ Resolve(n)
  BY DeliversSome
<1>2. UNCHANGED <<started, co, mustCancel, kernel, arrived>>
  BY DEF OnReadable, OnReadablePeekRaises
<1>3. Core'
  BY <1>1, <1>2, ResolveKeeps
<1>4. /\ waiters' \in Seq(Waits) /\ cq' \in Seq(Waits)
      /\ fut' \in [Waits -> FutStates] /\ val' \in [Waits -> 0 .. MaxWaits]
  BY <1>1, ResolveIs DEF Core, DequeInv
<1> QED BY <1>2, <1>3, <1>4 DEF DataType, TypeInv

\* Every step keeps the waits, their futures and the completions in order.
LEMMA CoreStep ==
    ASSUME TypeInv, Core, [Next]_vars
    PROVE  Core' /\ DataType'
<1>1. CASE OnReadable \/ OnReadablePeekRaises
  BY <1>1, DeliverKeeps
<1>2. CASE OnReadableFails
  BY <1>2, EmptyKeeps DEF OnReadableFails, ringVars
<1>3. CASE Close
  BY <1>3, EmptyKeeps DEF Close, ringVars
<1>4. ASSUME NEW k \in Waits, ResumeDone(k) \/ ResumeCancelled(k)
      PROVE  Core' /\ DataType'
  BY <1>4, ResumeKeeps
<1>5. ASSUME NEW k \in Waits, Cancel(k)
      PROVE  Core' /\ DataType'
  BY <1>5, CancelKeeps
<1>6. CASE StartWait
  BY <1>6, StartKeeps
<1>7. CASE CtxClose \/ Steal \/ \E o \in kernel : Complete(o)
  BY <1>7, RingKeeps
<1>8. CASE Poll \/ OnReadableBlocks \/ UNCHANGED vars
  <2>1. UNCHANGED <<waiters, started, fut, val, co, mustCancel, kernel, cq, arrived>>
    BY <1>8 DEF Poll, OnReadableBlocks, vars, loopVars, taskVars, ringVars
  <2>2. DequeInv' /\ ArrivalInv' /\ Taken' = Taken
    BY <2>1 DEF Core, DequeInv, Rising, Queued, Futures, Live, Waits, ArrivalInv,
                ArrivedOnce, Taken
  <2>3. ServedInv'
    BY <2>1, <2>2, ServedSame DEF Core
  <2> QED BY <2>1, <2>2, <2>3 DEF Core, DataType, TypeInv
<1> QED
  BY <1>1, <1>2, <1>3, <1>4, <1>5, <1>6, <1>7, <1>8 DEF Next, Loop

-----------------------------------------------------------------------------
(* The reader and the loop *)

\* Closing is for good, and nothing that upset the object is forgotten.
LEMMA OneWay ==
    ASSUME [Next]_vars
    PROVE  upset \subseteq upset' /\ (closed => closed') /\ (ctxOpen' => ctxOpen)
<1>1. CASE Poll \/ OnReadable \/ OnReadableBlocks \/ OnReadableFails \/ StartWait
  <2>1. UNCHANGED <<closed, ctxOpen, upset>>
    BY <1>1 DEF Poll, OnReadable, OnReadableBlocks, OnReadableFails, StartWait
  <2> QED BY <2>1, Zenon
<1>2. CASE \E k \in Waits : ResumeDone(k) \/ ResumeCancelled(k) \/ Cancel(k)
  BY <1>2 DEF ResumeDone, ResumeCancelled, Cancel
<1>3. CASE OnReadablePeekRaises
  BY <1>3 DEF OnReadablePeekRaises
<1>4. CASE Close
  BY <1>4 DEF Close
<1>5. CASE CtxClose
  BY <1>5 DEF CtxClose
<1>6. CASE Steal
  BY <1>6 DEF Steal
<1>7. CASE UNCHANGED vars \/ \E o \in kernel : Complete(o)
  BY <1>7 DEF vars, Complete
<1> QED BY <1>1, <1>2, <1>3, <1>4, <1>5, <1>6, <1>7 DEF Next, Loop

\* A queue that loses a member was not empty.
LEMMA DequeueIs ==
    ASSUME TypeInv, NEW k, Dequeue(k) # <<>>
    PROVE  waiters # <<>>
<1>1. SUFFICES ASSUME waiters = <<>> PROVE FALSE
  OBVIOUS
<1>2. waiters \in Seq(Waits) /\ Len(waiters) = 0 /\ 1 .. Len(waiters) = {}
  BY <1>1 DEF TypeInv
<1>3. RemoveFirst(waiters, k) = waiters
  BY <1>2, RemoveFirstIs
<1> QED BY <1>1, <1>3 DEF Dequeue

\* No step parts the reader from the deque, except an exception in the
\* callback.
LEMMA ReaderStep ==
    ASSUME TypeInv, ReaderIffWaiters, [Next]_vars
    PROVE  ReaderIffWaiters'
<1> SUFFICES ASSUME ctxOpen', ~closed', "peek_error" \notin upset'
             PROVE  (active' <=> waiters' # <<>>) /\ registered' = active'
  BY DEF ReaderIffWaiters
<1>1. ctxOpen /\ ~closed /\ "peek_error" \notin upset
  BY OneWay
<1>2. /\ active \in BOOLEAN /\ registered \in BOOLEAN /\ waiters \in Seq(Waits)
      /\ active <=> waiters # <<>>
      /\ registered = active
  BY <1>1 DEF TypeInv, ReaderIffWaiters
<1>3. CASE StartWait
  <2>1. PICK k \in Waits : waiters' = Append(waiters, k)
                           /\ ArmReader(waiters', active, registered)
    BY <1>1, <1>3 DEF StartWait, Enqueue
  <2>2. waiters' # <<>>
    BY <1>2, <2>1
  <2> QED BY <1>1, <1>2, <2>1, <2>2 DEF ArmReader
<1>4. CASE OnReadable
  BY <1>1, <1>4 DEF OnReadable, ArmReader
<1>5. CASE OnReadablePeekRaises
  BY <1>5 DEF OnReadablePeekRaises
<1>6. ASSUME NEW q, RemoveReader(q)
      PROVE  active' = FALSE /\ registered' = FALSE
  BY <1>1, <1>2, <1>6 DEF RemoveReader
<1>7. CASE OnReadableFails \/ Close
  <2>1. PICK q : RemoveReader(q) /\ waiters' = <<>>
    BY <1>7 DEF OnReadableFails, Close
  <2> QED BY <2>1, <1>6
<1>8. ASSUME NEW k \in Waits, ResumeCancelled(k)
      PROVE  (active' <=> waiters' # <<>>) /\ registered' = active'
  <2>1. CASE waiters' = <<>>
    <3>1. PICK q : RemoveReader(q)
      BY <1>8, <2>1 DEF ResumeCancelled
    <3> QED BY <2>1, <3>1, <1>6
  <2>2. CASE waiters' # <<>>
    <3>1. waiters' = Dequeue(k) /\ active' = active /\ registered' = registered
      BY <1>8, <2>2 DEF ResumeCancelled
    <3>2. waiters # <<>>
      BY <2>2, <3>1, DequeueIs
    <3> QED BY <1>2, <2>2, <3>1, <3>2
  <2> QED BY <2>1, <2>2
<1>9. CASE \/ Poll \/ OnReadableBlocks \/ CtxClose \/ Steal \/ UNCHANGED vars
           \/ \E k \in Waits : ResumeDone(k) \/ Cancel(k)
           \/ \E o \in kernel : Complete(o)
  <2>1. UNCHANGED <<waiters, active, registered>>
    BY <1>9 DEF Poll, OnReadableBlocks, CtxClose, Steal, vars, ResumeDone, Cancel,
                Complete, loopVars
  <2> QED BY <1>2, <2>1
<1> QED
  BY <1>3, <1>4, <1>5, <1>7, <1>8, <1>9 DEF Next, Loop

\* The callback is in the queue exactly when NoReader is false.
LEMMA ReaderIn ==
    ASSUME NEW q \in Queues
    PROVE  Reader \in ToSet(q) <=> ~NoReader(q)
  BY DEF ToSet, NoReader, Queues

\* While the object alone takes CQEs, no step blocks the loop.
LEMMA BlocksStep ==
    ASSUME TypeInv, ReaderOnce, LoopNeverBlocks, [Next]_vars
    PROVE  LoopNeverBlocks'
<1> SUFFICES ASSUME "steal" \notin upset'
             PROVE  ~blocked' /\ (Reader \in ToSet(ready') /\ ctxOpen' => cq' # <<>>)
  BY DEF LoopNeverBlocks
<1>1. "steal" \notin upset /\ (ctxOpen' => ctxOpen)
  BY OneWay
<1>2. ~blocked /\ (Reader \in ToSet(ready) /\ ctxOpen => cq # <<>>)
  BY <1>1 DEF LoopNeverBlocks
<1>3. /\ ready \in Queues /\ ready' \in Queues
      /\ NoReader(ready) => Poll \/ NoReader(ready')
      /\ OnReadable \/ OnReadablePeekRaises \/ OnReadableFails => NoReader(ready')
  BY ReadyStep DEF TypeInv, Queues
<1>4. ~OnReadableBlocks
  <2> SUFFICES ASSUME OnReadableBlocks PROVE FALSE
    OBVIOUS
  <2>1. ready # <<>> /\ Head(ready) = Reader /\ ctxOpen /\ cq = <<>>
    BY DEF OnReadableBlocks, ReaderRuns
  <2>2. 1 \in 1 .. Len(ready) /\ ready[1] = Reader
    BY <1>3, <2>1, TailIs DEF Queues
  <2>3. ~NoReader(ready)
    BY <2>2 DEF NoReader
  <2> QED BY <1>2, <1>3, <2>1, <2>3, ReaderIn
<1>5. ~blocked'
  BY <1>2, <1>4 DEF Next, Loop, vars, loopVars, Poll, OnReadable, OnReadablePeekRaises,
         OnReadableFails, ResumeDone, ResumeCancelled, StartWait, Cancel, Close,
         CtxClose, Steal, Complete
<1>6. ASSUME Reader \in ToSet(ready'), ctxOpen'
      PROVE  cq' # <<>>
  <2>1. ~NoReader(ready') /\ ctxOpen
    BY <1>1, <1>3, <1>6, ReaderIn
  <2>2. CASE Poll
    BY <2>2 DEF Poll, ringVars
  <2>3. CASE ~Poll
    <3>1. ~NoReader(ready)
      BY <1>3, <2>1, <2>3
    <3>2. cq # <<>> /\ cq \in Seq(Waits) /\ kernel \subseteq Waits
      BY <1>2, <1>3, <2>1, <3>1, ReaderIn DEF TypeInv
    <3>3. ~OnReadable /\ ~OnReadablePeekRaises /\ ~OnReadableFails
      BY <1>3, <2>1
    <3>4. CASE \E o \in kernel : Complete(o)
      <4>1. PICK o \in Waits : cq' = Append(cq, o)
        BY <3>2, <3>4 DEF Complete
      <4> QED BY <3>2, <4>1
    <3>5. CASE CtxClose \/ Steal
      BY <1>6, <3>5 DEF CtxClose, Steal
    <3>6. CASE ~(CtxClose \/ Steal \/ \E o \in kernel : Complete(o))
      <4>1. cq' = cq
        BY <1>4, <2>3, <3>3, <3>6
           DEF Next, Loop, vars, ringVars, ResumeDone, ResumeCancelled, StartWait,
               Cancel, Close
      <4> QED BY <3>2, <4>1
    <3> QED BY <3>4, <3>5, <3>6
  <2> QED BY <2>2, <2>3
<1> QED BY <1>5, <1>6

-----------------------------------------------------------------------------
(* The theorems *)

\* AsyncInv holds at first.
LEMMA AsyncInit ==
    ASSUME Init
    PROVE  AsyncInv
<1>1. /\ Len(waiters) = 0 /\ Len(ready) = 0 /\ Len(cq) = 0 /\ Len(arrived) = 0
      /\ 1 .. 0 = {} /\ ready = <<>>
  BY DEF Init
<1>2. TypeInv
  <2>1. \A S : <<>> \in Seq(S)
    OBVIOUS
  <2>2. fut \in [Waits -> FutStates] /\ co \in [Waits -> CoStates]
    BY DEF Init, FutStates, CoStates
  <2>3. val \in [Waits -> 0 .. MaxWaits] /\ started \in 0 .. MaxWaits
    BY WaitsAre DEF Init
  <2>4. mustCancel \in [Waits -> BOOLEAN]
    BY DEF Init
  <2>5. /\ closed \in BOOLEAN /\ ctxOpen \in BOOLEAN /\ active \in BOOLEAN
        /\ registered \in BOOLEAN /\ blocked \in BOOLEAN
    BY DEF Init
  <2>6. /\ waiters \in Seq(Waits) /\ ready \in Seq(0 .. MaxWaits)
        /\ cq \in Seq(Waits) /\ arrived \in Seq(Waits) /\ kernel \subseteq Waits
    BY <2>1 DEF Init
  <2> QED BY <2>2, <2>3, <2>4, <2>5, <2>6 DEF TypeInv
<1>3. Rising /\ Queued /\ ReaderOnce
  BY <1>1 DEF Rising, Queued, ReaderOnce
<1>4. Futures
  BY <1>1 DEF Init, Futures, Live
<1>5. ArrivalInv
  <2>1. kernel = {}
    BY DEF Init
  <2> QED BY <1>1, <2>1 DEF ArrivalInv, ArrivedOnce
<1>6. ServedInv
  <2>1. \A k \in Waits : val[k] = NoOp
    BY DEF Init
  <2> QED BY <2>1 DEF ServedInv
<1>7. ToSet(ready) = {}
  <2>1. DOMAIN ready = 1 .. Len(ready)
    BY <1>2 DEF TypeInv
  <2> QED BY <1>1, <2>1 DEF ToSet
<1>8. ReaderIffWaiters /\ LoopNeverBlocks
  BY <1>7 DEF Init, ReaderIffWaiters, LoopNeverBlocks
<1> QED BY <1>2, <1>3, <1>4, <1>5, <1>6, <1>8 DEF AsyncInv, DequeInv

\* AsyncInv is inductive.
LEMMA AsyncStep ==
    ASSUME AsyncInv, [Next]_vars
    PROVE  AsyncInv'
<1>1. TypeInv /\ ReaderOnce /\ Core /\ ReaderIffWaiters /\ LoopNeverBlocks
  BY DEF AsyncInv, Core
<1>2. Core' /\ DataType'
  BY <1>1, CoreStep
<1>3. ReaderIffWaiters' /\ LoopNeverBlocks'
  BY <1>1, ReaderStep, BlocksStep
<1>4. ready' \in Queues /\ OneReader(ready')
  BY <1>1, ReadyStep
<1>5. /\ closed' \in BOOLEAN /\ ctxOpen' \in BOOLEAN /\ active' \in BOOLEAN
      /\ registered' \in BOOLEAN /\ blocked' \in BOOLEAN
  BY <1>1, FlagsStep
<1>6. TypeInv'
  BY <1>2, <1>4, <1>5 DEF TypeInv, DataType, Queues
<1>7. ReaderOnce'
  BY <1>4 DEF ReaderOnce, OneReader
<1> QED BY <1>2, <1>3, <1>6, <1>7 DEF AsyncInv, Core

\* The deque, the futures, the ring and the reader fit together whatever the
\* tasks, the loop and the other users of the context do.
THEOREM AsyncInvariant == Spec => []AsyncInv
<1>1. Init => AsyncInv
  BY AsyncInit
<1>2. AsyncInv /\ [Next]_vars => AsyncInv'
  BY AsyncStep
<1> QED BY <1>1, <1>2, PTL DEF Spec

\* The loop watches the ring fd exactly while a future is in the deque, until
\* the object or the context is closed or a peek raises in the callback
\* (_arm_reader, _remove_reader).
THEOREM AsyncReader == Spec => []ReaderIffWaiters
<1>1. AsyncInv => ReaderIffWaiters
  BY DEF AsyncInv
<1> QED BY <1>1, AsyncInvariant, PTL

\* _on_readable never blocks the loop in wait_completion, unless another user
\* of the context takes the CQE that made the fd readable.
THEOREM AsyncLoopNeverBlocks == Spec => []LoopNeverBlocks
<1>1. AsyncInv => LoopNeverBlocks
  BY DEF AsyncInv
<1> QED BY <1>1, AsyncInvariant, PTL

\* A pending future is in the deque, once, and its coroutine awaits it.
THEOREM AsyncPendingQueued == Spec => []PendingQueued
<1>1. AsyncInv => PendingQueued
  <2> SUFFICES ASSUME AsyncInv PROVE PendingQueued
    OBVIOUS
  <2>1. waiters \in Seq(Waits) /\ Rising /\ Futures
    BY DEF AsyncInv, DequeInv, TypeInv
  <2>2. \A k \in Waits : Live(k) => co[k] = "await" /\ k \in ToSet(waiters)
    BY <2>1 DEF Futures, ToSet
  <2>3. \A i, j \in 1 .. Len(waiters) : waiters[i] = waiters[j] => i = j
    <3> TAKE i, j \in 1 .. Len(waiters)
    <3>1. waiters[i] \in Nat /\ waiters[j] \in Nat
      BY <2>1, WaitsAre
    <3>2. i < j \/ j < i \/ i = j
      OBVIOUS
    <3> QED BY <2>1, <3>1, <3>2 DEF Rising
  <2> QED BY <2>2, <2>3 DEF PendingQueued
<1> QED BY <1>1, AsyncInvariant, PTL

\* Completions reach the waits in the order both were queued, and none twice.
THEOREM AsyncInOrder == Spec => []InOrder
<1>1. AsyncInv => InOrder
  <2> SUFFICES ASSUME AsyncInv PROVE InOrder
    OBVIOUS
  <2>1. TypeInv /\ ArrivalInv /\ ServedInv
    BY DEF AsyncInv
  <2>2. ASSUME NEW k \in Waits, val[k] # NoOp
        PROVE  /\ Position(val[k]) \in 1 .. Len(arrived)
               /\ arrived[Position(val[k])] = val[k]
    <3>1. \E p \in 1 .. Len(arrived) : arrived[p] = val[k]
      BY <2>1, <2>2, TakenIs DEF ServedInv
    <3> QED BY <3>1 DEF Position
  <2>3. \A j, k \in Waits : (j < k /\ val[j] # NoOp /\ val[k] # NoOp) =>
          \A p, q \in 1 .. Len(arrived) :
              arrived[p] = val[j] /\ arrived[q] = val[k] => p < q
    BY <2>1 DEF ServedInv
  <2> QED BY <2>2, <2>3 DEF InOrder
<1> QED BY <1>1, AsyncInvariant, PTL

-----------------------------------------------------------------------------
(* Completions that vanish *)

\* A set of waits is finite.
LEMMA WaitSets ==
    ASSUME NEW S, S \subseteq Waits
    PROVE  IsFiniteSet(S) /\ Cardinality(S) \in Nat
<1>1. IsFiniteSet(Waits)
  BY WaitsAre, FS_Interval DEF Waits
<1>2. S \in SUBSET Waits
  OBVIOUS
<1>3. IsFiniteSet(S)
  BY <1>1, <1>2, FS_Subset
<1> QED BY <1>3, FS_CardinalityType

\* A step that takes no CQE and keeps every wait accounted for loses nothing.
LEMMA LossKept ==
    ASSUME TypeInv, ArrivalInv, LossInv, upset \subseteq upset', Taken' = Taken,
           Accounted \subseteq Accounted'
    PROVE  LossInv'
<1> SUFFICES ASSUME upset' \cap {"steal", "close_ctx"} = {}
             PROVE  Taken' <= Cardinality(Accounted')
  BY DEF LossInv
<1>1. Taken <= Cardinality(Accounted) /\ Taken \in Nat
  BY TakenIs DEF LossInv
<1>2. PICK A, B : A = Accounted /\ B = Accounted'
  OBVIOUS
<1>3. A \in SUBSET B /\ A \subseteq Waits /\ B \subseteq Waits
  BY <1>2 DEF Accounted, Waits
<1>4. IsFiniteSet(B) /\ Cardinality(B) \in Nat /\ Cardinality(A) \in Nat
  BY <1>3, WaitSets
<1>5. Cardinality(A) <= Cardinality(B)
  BY <1>3, <1>4, FS_Subset
<1> QED BY <1>1, <1>2, <1>4, <1>5

\* The first n of the deque are n waits.
LEMMA FirstCount ==
    ASSUME TypeInv, Rising, NEW n \in Nat, n <= Len(waiters)
    PROVE  LET W == {waiters[i] : i \in 1 .. n}
           IN  IsFiniteSet(W) /\ Cardinality(W) = n
<1> DEFINE W == {waiters[i] : i \in 1 .. n}
<1>1. /\ Len(waiters) \in Nat
      /\ \A i \in 1 .. n : i \in 1 .. Len(waiters) /\ waiters[i] \in Waits
  BY DEF TypeInv
<1>2. \A i, j \in 1 .. n : waiters[i] = waiters[j] => i = j
  <2> TAKE i, j \in 1 .. n
  <2>1. i < j \/ j < i \/ i = j
    OBVIOUS
  <2>2. waiters[i] \in Nat /\ waiters[j] \in Nat
    BY <1>1, WaitsAre
  <2> QED BY <1>1, <2>1, <2>2 DEF Rising
<1>3. PICK f : f = [i \in 1 .. n |-> waiters[i]]
  OBVIOUS
<1>4. f \in Injection(1 .. n, W)
  BY <1>2, <1>3 DEF Injection, IsInjective
<1>5. f \in Surjection(1 .. n, W)
  BY <1>3 DEF Surjection
<1>6. W \subseteq Waits
  BY <1>1
<1> HIDE DEF W
<1>7. IsFiniteSet(W)
  BY <1>6, WaitSets
<1>8. Cardinality(1 .. n) = n
  <2>1. Cardinality(1 .. n) = IF 1 > n THEN 0 ELSE n - 1 + 1
    BY FS_Interval
  <2> QED BY <2>1
<1>9. Cardinality(1 .. n) = Cardinality(W)
  BY <1>4, <1>5, <1>7, FS_Injection
<1>10. IsFiniteSet(W) /\ Cardinality(W) = n
  BY <1>7, <1>8, <1>9
<1> QED BY <1>10 DEF W

\* Each of the n completions delivered accounts for one more wait.
LEMMA LossResolve ==
    ASSUME TypeInv, Core, LossInv, upset \subseteq upset',
           NEW n \in Nat, n <= Len(waiters), n <= Len(cq), Resolve(n),
           Taken' = Taken + n
    PROVE  LossInv'
<1> SUFFICES ASSUME upset' \cap {"steal", "close_ctx"} = {}
             PROVE  Taken' <= Cardinality(Accounted')
  BY DEF LossInv
<1>1. Taken <= Cardinality(Accounted) /\ Taken \in Nat /\ Len(waiters) \in Nat
  BY TakenIs DEF LossInv, Core
<1>2. /\ Len(waiters') = Len(waiters) - n
      /\ \A i \in 1 .. Len(waiters) - n :
            n + i \in 1 .. Len(waiters) /\ waiters'[i] = waiters[n + i]
      /\ \A i \in 1 .. n : /\ i \in 1 .. Len(waiters) /\ i \in 1 .. Len(cq)
                           /\ Live(waiters[i]) => val'[waiters[i]] = cq[i]
      /\ \A k \in Waits : (~ \E i \in 1 .. n : waiters[i] = k /\ Live(k)) =>
            fut'[k] = fut[k] /\ val'[k] = val[k]
  BY ResolveIs DEF Core, DequeInv
<1>3. /\ \A i \in 1 .. Len(waiters) : waiters[i] \in Waits
      /\ \A i \in 1 .. Len(cq) : cq[i] # NoOp
  BY WaitsAre DEF TypeInv
<1>4. \A i, j \in 1 .. Len(waiters) : waiters[i] = waiters[j] => i = j
  <2> TAKE i, j \in 1 .. Len(waiters)
  <2>1. i < j \/ j < i \/ i = j
    BY <1>1
  <2>2. waiters[i] \in Nat /\ waiters[j] \in Nat
    BY <1>3, WaitsAre
  <2> QED BY <2>1, <2>2 DEF Rising, Core, DequeInv
<1>5. \A i \in 1 .. Len(waiters) :
         /\ val[waiters[i]] = NoOp
         /\ fut[waiters[i]] \in {"pending", "cancelled"}
  <2>1. \A k \in Waits : val[k] # NoOp => fut[k] = "result"
    BY DEF Core, DequeInv, Futures
  <2> QED BY <2>1, <1>3 DEF Core, DequeInv, Queued
<1> DEFINE W == {waiters[i] : i \in 1 .. n}
<1>6. W \subseteq Waits /\ \A k \in W : k \notin Accounted
  BY <1>2, <1>3, <1>5 DEF Accounted
<1>7. ASSUME NEW k \in W
      PROVE  k \in Accounted'
  <2>1. PICK i \in 1 .. n : waiters[i] = k
    OBVIOUS
  <2>2. k \in Waits /\ i \in 1 .. Len(waiters)
    BY <1>6, <2>1, <1>2
  <2>3. CASE Live(k)
    <3>1. \A m \in 1 .. n : m \in 1 .. Len(cq) /\ (Live(waiters[m]) => val'[waiters[m]] = cq[m])
      BY <1>2
    <3>2. i \in 1 .. Len(cq) /\ (Live(waiters[i]) => val'[waiters[i]] = cq[i])
      BY <3>1
    <3>3. val'[k] = cq[i]
      BY <2>1, <2>3, <3>2
    <3>4. val'[k] # NoOp
      BY <3>2, <3>3, <1>3
    <3> QED BY <2>2, <3>4 DEF Accounted, Waits
  <2>4. CASE ~Live(k)
    <3>1. fut'[k] = "cancelled"
      BY <2>1, <2>2, <2>4, <1>2, <1>5 DEF Live
    <3>2. \A j \in 1 .. Len(waiters') : waiters'[j] # k
      <4> TAKE j \in 1 .. Len(waiters')
      <4>1. n + j \in 1 .. Len(waiters) /\ waiters'[j] = waiters[n + j]
        BY <1>2
      <4>2. j \in Nat /\ j >= 1 /\ i <= n /\ i \in Nat
        BY <1>1, <1>2
      <4>3. n + j # i
        BY <4>2
      <4> QED BY <4>1, <4>3, <2>1, <2>2, <1>4
    <3> QED BY <2>2, <3>1, <3>2 DEF Accounted, Waits
  <2> QED BY <2>3, <2>4
<1>8. ASSUME NEW k \in Accounted
      PROVE  k \in Accounted'
  <2>1. k \in Waits /\ fut[k] \in {"result", "cancelled"}
    BY DEF Accounted, Core, DequeInv, Futures
  <2>2. fut'[k] = fut[k] /\ val'[k] = val[k]
    BY <2>1, <1>2 DEF Live
  <2>3. (\A i \in 1 .. Len(waiters) : waiters[i] # k) =>
           \A i \in 1 .. Len(waiters') : waiters'[i] # k
    BY <1>2
  <2> QED BY <2>1, <2>2, <2>3 DEF Accounted, Waits
<1>9. IsFiniteSet(W) /\ Cardinality(W) = n
  BY FirstCount DEF Core, DequeInv
<1>10. PICK V, A, B : V = W /\ A = Accounted /\ B = Accounted'
  OBVIOUS
<1>11. /\ A \cup V \in SUBSET B /\ A \cap V = {}
       /\ A \subseteq Waits /\ B \subseteq Waits /\ V \subseteq Waits
  BY <1>6, <1>7, <1>8, <1>10 DEF Accounted, Waits
<1>12. /\ IsFiniteSet(A) /\ Cardinality(A) \in Nat /\ IsFiniteSet(B)
       /\ Cardinality(B) \in Nat /\ IsFiniteSet(V) /\ Cardinality(V) = n
  <2> HIDE DEF W
  <2> QED BY <1>9, <1>10, <1>11, WaitSets
<1>13. Cardinality(A \cup V) = Cardinality(A) + n
  <2>1. Cardinality(A \cup V) = Cardinality(A) + Cardinality(V) - Cardinality(A \cap V)
    BY <1>12, FS_Union
  <2>2. Cardinality(A \cap V) = 0
    BY <1>11, FS_EmptySet
  <2> QED BY <2>1, <2>2, <1>12
<1>14. Cardinality(A \cup V) <= Cardinality(B)
  BY <1>11, <1>12, FS_Subset
<1> HIDE DEF W
<1> QED BY <1>1, <1>10, <1>12, <1>13, <1>14

\* Leaving the deque brings nobody into it.
LEMMA DequeueIn ==
    ASSUME TypeInv, NEW k, NEW i \in 1 .. Len(Dequeue(k))
    PROVE  \E j \in 1 .. Len(waiters) : Dequeue(k)[i] = waiters[j]
<1>1. waiters \in Seq(Waits) /\ Len(waiters) \in Nat
  BY DEF TypeInv
<1>2. CASE RemoveFirst(waiters, k) = waiters
  BY <1>2 DEF Dequeue
<1>3. ASSUME NEW m \in 1 .. Len(waiters), NEW d, d = Dequeue(k),
             Len(d) = Len(waiters) - 1,
             \A h \in 1 .. Len(waiters) - 1 :
                d[h] = IF h < m THEN waiters[h] ELSE waiters[h + 1]
      PROVE  \E j \in 1 .. Len(waiters) : d[i] = waiters[j]
  <2>1. i \in 1 .. Len(waiters) - 1
    BY <1>3
  <2>2. i \in 1 .. Len(waiters) /\ i + 1 \in 1 .. Len(waiters)
    BY <1>1, <2>1
  <2> QED BY <1>3, <2>1, <2>2
<1> QED BY <1>1, <1>2, <1>3, RemoveFirstIs DEF Dequeue

\* Members of Accounted keep their place while futures that are done stay so
\* and the deque takes in only waits that have not ended.
LEMMA AccountedKept ==
    ASSUME \A k \in Waits : fut[k] \in {"result", "cancelled"} => fut'[k] = fut[k],
           val' = val, Futures,
           \A i \in 1 .. Len(waiters') :
              \/ \E j \in 1 .. Len(waiters) : waiters'[i] = waiters[j]
              \/ fut[waiters'[i]] = "none"
    PROVE  Accounted \subseteq Accounted'
<1> SUFFICES ASSUME NEW k \in Accounted PROVE k \in Accounted'
  OBVIOUS
<1>1. k \in Waits /\ fut[k] \in {"result", "cancelled"}
  BY DEF Accounted, Futures
<1>2. fut'[k] = fut[k] /\ val'[k] = val[k]
  BY <1>1
<1>3. (\A i \in 1 .. Len(waiters) : waiters[i] # k) =>
         \A i \in 1 .. Len(waiters') : waiters'[i] # k
  BY <1>1
<1> QED BY <1>1, <1>2, <1>3 DEF Accounted, Waits

\* LossInv is inductive, given AsyncInv.
LEMMA LossStep ==
    ASSUME AsyncInv, LossInv, [Next]_vars
    PROVE  LossInv'
<1>1. TypeInv /\ Core /\ ArrivalInv /\ Futures /\ upset \subseteq upset'
  BY OneWay DEF AsyncInv, Core, DequeInv
<1>2. CASE OnReadable \/ OnReadablePeekRaises
  <2>1. PICK n \in Nat : n <= Len(waiters) /\ n <= Len(cq) /\ Resolve(n)
    BY <1>1, <1>2, DeliversSome
  <2>2. UNCHANGED <<started, co, mustCancel, kernel, arrived>>
    BY <1>2 DEF OnReadable, OnReadablePeekRaises
  <2>3. Taken' = Taken + n
    BY <1>1, <2>1, <2>2, ResolveKeeps
  <2> QED BY <1>1, <2>1, <2>3, LossResolve
<1>3. CASE OnReadableFails \/ Close
  <2>1. /\ waiters' = <<>> /\ UNCHANGED <<val, cq, arrived>>
        /\ \A k \in Waits : fut[k] \in {"result", "cancelled"} => fut'[k] = fut[k]
    BY <1>3 DEF OnReadableFails, Close, LiveWaits, Live, ringVars
  <2>2. Taken' = Taken
    BY <2>1 DEF Taken
  <2>3. Len(waiters') = 0 /\ 1 .. Len(waiters') = {}
    BY <2>1
  <2>4. Accounted \subseteq Accounted'
    BY <1>1, <2>1, <2>3, AccountedKept
  <2> QED BY <1>1, <2>2, <2>4, LossKept
<1>4. ASSUME NEW k \in Waits, ResumeDone(k) \/ ResumeCancelled(k)
      PROVE  LossInv'
  <2>1. UNCHANGED <<fut, val, cq, arrived>> /\ (waiters' = waiters \/ waiters' = Dequeue(k))
    BY <1>4 DEF ResumeDone, ResumeCancelled, ringVars
  <2>2. Taken' = Taken
    BY <2>1 DEF Taken
  <2>3. \A i \in 1 .. Len(waiters') : \E j \in 1 .. Len(waiters) : waiters'[i] = waiters[j]
    BY <1>1, <2>1, DequeueIn
  <2>4. Accounted \subseteq Accounted'
    BY <1>1, <2>1, <2>3, AccountedKept
  <2> QED BY <1>1, <2>2, <2>4, LossKept
<1>5. ASSUME NEW k \in Waits, Cancel(k)
      PROVE  LossInv'
  <2>1. /\ UNCHANGED <<waiters, val, cq, arrived>>
        /\ fut' = fut \/ (Live(k) /\ fut' = [fut EXCEPT ![k] = "cancelled"])
    BY <1>5 DEF Cancel, ringVars
  <2>2. Taken' = Taken
    BY <2>1 DEF Taken
  <2>3. \A j \in Waits : fut[j] \in {"result", "cancelled"} => fut'[j] = fut[j]
    BY <1>1, <2>1 DEF Live, TypeInv
  <2>4. Accounted \subseteq Accounted'
    BY <1>1, <2>1, <2>3, AccountedKept
  <2> QED BY <1>1, <2>2, <2>4, LossKept
<1>6. CASE StartWait
  <2>1. PICK k \in Waits : k = started + 1
    BY <1>6 DEF StartWait
  <2>2. /\ UNCHANGED <<val, cq, arrived>>
        /\ \/ UNCHANGED <<waiters, fut>>
           \/ waiters' = Append(waiters, k) /\ fut' = [fut EXCEPT ![k] = "pending"]
    BY <1>6, <2>1 DEF StartWait, Enqueue
  <2>3. fut[k] = "none"
    <3>1. k > started
      BY <1>1, <2>1 DEF TypeInv
    <3> QED BY <1>1, <3>1 DEF Futures
  <2>4. Taken' = Taken
    BY <2>2 DEF Taken
  <2>5. \A j \in Waits : fut[j] \in {"result", "cancelled"} => fut'[j] = fut[j]
    BY <1>1, <2>2, <2>3 DEF TypeInv
  <2>6. \A i \in 1 .. Len(waiters') :
           \/ \E j \in 1 .. Len(waiters) : waiters'[i] = waiters[j]
           \/ fut[waiters'[i]] = "none"
    <3>1. CASE waiters' = Append(waiters, k)
      <4>1. /\ waiters \in Seq(Waits) /\ Len(waiters) \in Nat
            /\ Len(waiters') = Len(waiters) + 1
            /\ waiters'[Len(waiters) + 1] = k
            /\ \A i \in 1 .. Len(waiters) : waiters'[i] = waiters[i]
        BY <1>1, <3>1 DEF TypeInv
      <4>2. \A i \in 1 .. Len(waiters) + 1 : i \in 1 .. Len(waiters) \/ i = Len(waiters) + 1
        BY <4>1
      <4> QED BY <4>1, <4>2, <2>3
    <3>2. CASE waiters' = waiters
      BY <3>2
    <3> QED BY <2>2, <3>1, <3>2
  <2>7. Accounted \subseteq Accounted'
    BY <1>1, <2>2, <2>5, <2>6, AccountedKept
  <2> QED BY <1>1, <2>4, <2>7, LossKept
<1>7. CASE CtxClose \/ Steal
  <2>1. upset' \cap {"steal", "close_ctx"} # {}
    BY <1>7 DEF CtxClose, Steal
  <2> QED BY <2>1 DEF LossInv
<1>8. CASE \/ Poll \/ OnReadableBlocks \/ UNCHANGED vars
           \/ \E o \in kernel : Complete(o)
  <2>1. UNCHANGED <<waiters, fut, val>>
    BY <1>8 DEF Poll, OnReadableBlocks, vars, Complete, loopVars, taskVars
  <2>2. Taken' = Taken
    <3>1. CASE \E o \in kernel : Complete(o)
      BY <1>1, <3>1, RingKeeps
    <3>2. CASE Poll \/ OnReadableBlocks \/ UNCHANGED vars
      BY <3>2 DEF Poll, OnReadableBlocks, vars, ringVars, Taken
    <3> QED BY <1>8, <3>1, <3>2
  <2>3. Accounted \subseteq Accounted'
    BY <1>1, <2>1, AccountedKept
  <2> QED BY <1>1, <2>2, <2>3, LossKept
<1> QED
  BY <1>2, <1>3, <1>4, <1>5, <1>6, <1>7, <1>8 DEF Next, Loop

\* No more completions vanish than waits were cancelled.
LEMMA LossIs ==
    ASSUME AsyncInv, LossInv
    PROVE  LossBounded
<1> SUFFICES ASSUME upset \cap {"steal", "close_ctx"} = {}
             PROVE  Cardinality(Lost) <=
                       Cardinality({k \in Waits : fut[k] = "cancelled" \/ mustCancel[k]})
  BY DEF LossBounded
<1>1. TypeInv /\ ArrivalInv /\ ServedInv /\ Futures
  BY DEF AsyncInv, DequeInv
<1>2. /\ Taken \in Nat /\ Taken = Len(arrived) - Len(cq) /\ Taken <= Cardinality(Accounted)
      /\ Len(arrived) \in Nat /\ Len(cq) \in Nat
      /\ \A i \in 1 .. Len(cq) :
            Taken + i \in 1 .. Len(arrived) /\ cq[i] = arrived[Taken + i]
      /\ \A i \in 1 .. Taken : i \in 1 .. Len(arrived)
  BY <1>1, TakenIs DEF LossInv
<1> DEFINE T == {arrived[i] : i \in 1 .. Taken}
           K == {j \in Waits : val[j] # NoOp /\ co[j] # "cancelled"}
           D == {val[k] : k \in K}
           C == {k \in Waits : fut[k] = "cancelled" \/ mustCancel[k]}
<1>3. T \subseteq Waits /\ \A i \in 1 .. Len(arrived) : arrived[i] \in Waits
  BY <1>1, <1>2 DEF TypeInv
<1>4. Cardinality(T) <= Taken
  <2>1. PICK f : f = [i \in 1 .. Taken |-> arrived[i]]
    OBVIOUS
  <2>2. f \in Surjection(1 .. Taken, T)
    BY <2>1 DEF Surjection
  <2>3. ExistsSurjection(1 .. Taken, T)
    BY <2>2 DEF ExistsSurjection
  <2> HIDE DEF T
  <2> QED BY <2>3, <1>2, FS_SurjCardinalityBound
<1>5. Lost \subseteq T \ D
  <2> SUFFICES ASSUME NEW o \in Lost PROVE o \in T \ D
    OBVIOUS
  <2>1. o \in ToSet(arrived) /\ o \notin ToSet(cq) /\ o \notin D
    BY DEF Lost
  <2>2. PICK i \in 1 .. Len(arrived) : o = arrived[i]
    BY <2>1, <1>1 DEF ToSet, TypeInv
  <2>3. CASE i \in 1 .. Taken
    BY <2>1, <2>2, <2>3
  <2>4. CASE i \notin 1 .. Taken
    <3>1. PICK j \in 1 .. Len(cq) : j = i - Taken
      BY <2>4, <1>2
    <3>2. Taken + j = i
      BY <3>1, <1>2
    <3>3. cq[j] = o
      BY <3>2, <2>2, <1>2
    <3>4. o \in ToSet(cq)
      BY <3>3, <1>1 DEF ToSet, TypeInv
    <3> QED BY <3>4, <2>1
  <2> QED BY <2>3, <2>4
<1>6. D \subseteq T
  BY <1>1 DEF ServedInv
<1>7. \A j, k \in K : val[j] = val[k] => j = k
  <2> SUFFICES ASSUME NEW j \in K, NEW k \in K, val[j] = val[k], j < k PROVE FALSE
    BY WaitsAre
  <2>1. PICK p \in 1 .. Taken : arrived[p] = val[j]
    BY <1>1 DEF ServedInv
  <2>2. p \in 1 .. Len(arrived) /\ arrived[p] = val[k]
    BY <2>1, <1>2
  <2>3. p < p
    BY <2>1, <2>2, <1>1 DEF ServedInv
  <2> QED BY <2>2, <2>3
<1>8. Accounted \ K \subseteq C /\ K \subseteq Accounted
  BY <1>1 DEF Accounted, Futures
<1>9. PICK L, A, t, d, c, kk :
         L = Lost /\ A = Accounted /\ t = T /\ d = D /\ c = C /\ kk = K
  OBVIOUS
<1>10. /\ L \in SUBSET (t \ d) /\ d \subseteq t /\ A \ kk \in SUBSET c /\ kk \subseteq A
       /\ t \subseteq Waits /\ d \subseteq Waits /\ A \subseteq Waits
       /\ c \subseteq Waits /\ kk \subseteq Waits
  <2>1. A \subseteq Waits /\ c \subseteq Waits /\ kk \subseteq Waits
    BY <1>9 DEF Accounted
  <2> HIDE DEF T, D, C, K
  <2> QED BY <2>1, <1>3, <1>5, <1>6, <1>8, <1>9
<1>11. Cardinality(d) = Cardinality(kk)
  <2>1. PICK f : f = [k \in K |-> val[k]]
    OBVIOUS
  <2>2. f \in Injection(K, D)
    BY <2>1, <1>7 DEF Injection, IsInjective
  <2>3. f \in Surjection(K, D)
    BY <2>1 DEF Surjection
  <2>4. IsFiniteSet(d)
    BY <1>10, WaitSets
  <2> HIDE DEF K, D
  <2>5. IsFiniteSet(D)
    BY <2>4, <1>9
  <2>6. Cardinality(K) = Cardinality(D)
    BY <2>2, <2>3, <2>5, FS_Injection
  <2> QED BY <2>6, <1>9
<1> HIDE DEF T, D, C, K
<1>12. /\ IsFiniteSet(t) /\ IsFiniteSet(A) /\ IsFiniteSet(c) /\ IsFiniteSet(t \ d)
       /\ Cardinality(t) \in Nat /\ Cardinality(A) \in Nat /\ Cardinality(c) \in Nat
       /\ Cardinality(d) \in Nat /\ Cardinality(kk) \in Nat /\ Cardinality(L) \in Nat
       /\ Cardinality(t \ d) \in Nat /\ Cardinality(A \ kk) \in Nat
  <2>1. t \ d \subseteq Waits /\ A \ kk \subseteq Waits /\ L \subseteq Waits
    BY <1>10
  <2> QED BY <2>1, <1>10, WaitSets
<1>13. Cardinality(L) <= Cardinality(t \ d) /\ Cardinality(A \ kk) <= Cardinality(c)
  BY <1>10, <1>12, FS_Subset
<1>14. t \cap d = d /\ A \cap kk = kk
  BY <1>10
<1>15. /\ Cardinality(t \ d) = Cardinality(t) - Cardinality(d)
       /\ Cardinality(A \ kk) = Cardinality(A) - Cardinality(kk)
  BY <1>12, <1>14, FS_Difference
<1>16. Cardinality(t) <= Cardinality(A)
  BY <1>2, <1>4, <1>9, <1>12
<1>17. Cardinality(L) <= Cardinality(c)
  BY <1>11, <1>12, <1>13, <1>15, <1>16
<1> QED BY <1>9, <1>17 DEF C

\* A cancelled wait costs at most one completion: no more CQEs leave the ring
\* unread than waits were cancelled, while the object alone uses an open
\* context.
THEOREM AsyncLossBounded == Spec => []LossBounded
<1>1. Init => LossInv
  <2> SUFFICES ASSUME Init PROVE LossInv
    OBVIOUS
  <2>1. Taken = 0
    BY DEF Init, Taken
  <2>2. Accounted \subseteq Waits
    BY DEF Accounted
  <2>3. Cardinality(Accounted) \in Nat
    BY <2>2, WaitSets
  <2> QED BY <2>1, <2>3 DEF LossInv
<1>2. AsyncInv /\ LossInv /\ [Next]_vars => LossInv'
  BY LossStep
<1>3. AsyncInv /\ LossInv => LossBounded
  BY LossIs
<1> QED BY <1>1, <1>2, <1>3, AsyncInvariant, PTL DEF Spec

-----------------------------------------------------------------------------
(* UringAsync implements Deliveries *)

Intruded == upset \cap {"steal", "close_ctx"} # {}

\* Who is in the deque.
LEMMA InDeque ==
    ASSUME TypeInv, NEW k
    PROVE  k \in ToSet(waiters) <=> \E i \in 1 .. Len(waiters) : waiters[i] = k
<1>1. waiters \in Seq(Waits) /\ DOMAIN waiters = 1 .. Len(waiters)
  BY DEF TypeInv
<1> QED BY <1>1 DEF ToSet

\* The waits Deliveries speaks of, by their futures.
LEMMA TasksAre ==
    ASSUME TypeInv
    PROVE  /\ DL!Tasks = Waits
           /\ DL!Waiting = {k \in Waits : Live(k)}
           /\ DL!Ended = {k \in Waits : fut[k] \in {"exception", "cancelled"}}
           /\ Gone \subseteq DL!Ended
<1>1. DL!Tasks = Waits
  BY DEF DL!Tasks, Waits
<1>2. \A k \in Waits : /\ WaitState[k] = "pending" <=> Live(k)
                       /\ WaitState[k] = "ended" <=> fut[k] \in {"exception", "cancelled"}
  BY DEF WaitState, Live, TypeInv, FutStates
<1> QED BY <1>1, <1>2 DEF DL!Waiting, DL!Ended, Gone

\* A step that ends some waits without a completion, or lets ended ones leave
\* the deque.
LEMMA EndStep ==
    ASSUME TypeInv, NEW T \in SUBSET Waits, \A k \in T : Live(k),
           \A k \in T : fut'[k] \in {"exception", "cancelled"},
           \A k \in Waits : k \notin T => fut'[k] = fut[k],
           \A k \in Gone : k \notin ToSet(waiters'),
           UNCHANGED <<val, cq, arrived>>, Intruded' = Intruded
    PROVE  DL!DNext
<1>1. T \subseteq DL!Waiting /\ T \in SUBSET DL!Tasks
  BY TasksAre
<1>2. WaitState' = [k \in DL!Tasks |-> IF k \in T THEN "ended" ELSE WaitState[k]]
  <2>1. WaitState' = [k \in Waits |-> IF fut'[k] \in {"exception", "cancelled"}
                                      THEN "ended" ELSE fut'[k]]
    BY DEF WaitState, Waits
  <2>2. \A k \in Waits : (IF fut'[k] \in {"exception", "cancelled"} THEN "ended" ELSE fut'[k])
                          = (IF k \in T THEN "ended" ELSE WaitState[k])
    BY DEF WaitState
  <2>3. DL!Tasks = Waits
    BY TasksAre
  <2> QED BY <2>1, <2>2, <2>3
<1>3. Gone' = {k \in Waits : fut'[k] \in {"exception", "cancelled"} /\ k \notin ToSet(waiters')}
  BY DEF Gone, Waits
<1>4. Gone \subseteq Gone'
  <2>1. \A k \in Gone : k \in Waits /\ fut[k] \in {"exception", "cancelled"}
    BY DEF Gone
  <2>2. \A k \in Gone : fut'[k] \in {"exception", "cancelled"}
    BY <2>1
  <2> QED BY <1>3, <2>1, <2>2
<1>5. Gone' \subseteq DL!Ended \cup T
  BY <1>3, TasksAre
<1>6. (Len(arrived) - Len(cq))' = Len(arrived) - Len(cq)
  OBVIOUS
<1>7. DL!End(T)
  BY <1>1, <1>2, <1>4, <1>5, <1>6 DEF DL!End, Intruded
<1> QED BY <1>1, <1>7 DEF DL!DNext

\* A step Deliveries does not see.
LEMMA SilentStep ==
    ASSUME UNCHANGED <<fut, val, cq, arrived, waiters>>, Intruded' = Intruded
    PROVE  UNCHANGED DL!deliveryVars
<1>1. WaitState' = WaitState /\ Gone' = Gone
  BY DEF WaitState, Gone, Waits
<1> QED BY <1>1 DEF DL!deliveryVars, Intruded

\* A wait joins the deque.
LEMMA JoinStep ==
    ASSUME TypeInv, Core, StartWait
    PROVE  DL!DNext \/ UNCHANGED DL!deliveryVars
<1>1. PICK k : k = started + 1
  OBVIOUS
<1>2. k \in Waits /\ UNCHANGED <<val, cq, arrived, upset>>
  BY <1>1 DEF StartWait
<1>3. Intruded' = Intruded
  BY <1>2 DEF Intruded
<1>4. CASE closed \/ ~ctxOpen
  <2>1. UNCHANGED <<fut, waiters>>
    BY <1>4 DEF StartWait
  <2> QED BY <1>2, <1>3, <2>1, SilentStep
<1>5. CASE ~(closed \/ ~ctxOpen)
  <2>1. fut' = [fut EXCEPT ![k] = "pending"] /\ waiters' = Append(waiters, k)
    BY <1>1, <1>5 DEF StartWait, Enqueue
  <2>2. fut \in [Waits -> FutStates] /\ waiters \in Seq(Waits) /\ started \in Nat
    BY DEF TypeInv
  <2>3. \A j \in k .. MaxWaits : j \in Waits /\ j > started
    BY <1>1, <1>2, <2>2, WaitsAre
  <2>4. \A j \in k .. MaxWaits : fut[j] = "none"
    BY <2>3 DEF Core, DequeInv, Futures
  <2>5. \A j \in k .. MaxWaits : WaitState[j] = "none"
    BY <2>3, <2>4 DEF WaitState
  <2>6. WaitState' = [WaitState EXCEPT ![k] = "pending"]
    <3>1. WaitState' = [j \in Waits |-> IF fut'[j] \in {"exception", "cancelled"}
                                        THEN "ended" ELSE fut'[j]]
      BY DEF WaitState, Waits
    <3>2. \A j \in Waits : fut'[j] = IF j = k THEN "pending" ELSE fut[j]
      BY <2>1, <2>2
    <3> QED BY <1>2, <3>1, <3>2 DEF WaitState
  <2>7. Gone' = Gone
    <3>1. \A j : j \in ToSet(waiters') <=> j \in ToSet(waiters) \/ j = k
      <4>1. waiters' \in Seq(Waits) /\ Len(waiters) \in Nat
            /\ Len(waiters') = Len(waiters) + 1 /\ waiters'[Len(waiters) + 1] = k
            /\ \A i \in 1 .. Len(waiters) : waiters'[i] = waiters[i]
        BY <1>2, <2>1, <2>2
      <4>2. DOMAIN waiters' = 1 .. Len(waiters) + 1 /\ DOMAIN waiters = 1 .. Len(waiters)
        BY <2>2, <4>1
      <4>3. \A i \in 1 .. Len(waiters) + 1 : i \in 1 .. Len(waiters) \/ i = Len(waiters) + 1
        BY <4>1
      <4>4. /\ \A i \in 1 .. Len(waiters) : i \in 1 .. Len(waiters) + 1
            /\ Len(waiters) + 1 \in 1 .. Len(waiters) + 1
        BY <4>1
      <4> QED BY <4>1, <4>2, <4>3, <4>4 DEF ToSet
    <3>2. \A j \in Waits : fut'[j] = IF j = k THEN "pending" ELSE fut[j]
      BY <2>1, <2>2
    <3>3. k \in k .. MaxWaits
      BY <1>2, WaitsAre
    <3>4. fut[k] = "none"
      BY <2>4, <3>3
    <3>5. Gone' = {j \in Waits : fut'[j] \in {"exception", "cancelled"}
                                 /\ j \notin ToSet(waiters')}
      BY DEF Gone, Waits
    <3> QED BY <3>1, <3>2, <3>4, <3>5 DEF Gone
  <2>8. DL!Join(k)
    BY <1>2, <1>3, <2>5, <2>6, <2>7 DEF DL!Join, Intruded
  <2> QED BY <1>2, <2>8, TasksAre DEF DL!DNext
<1> QED BY <1>4, <1>5

\* The kernel, and other users of the ring.
LEMMA RingStep ==
    ASSUME TypeInv, Core, CtxClose \/ Steal \/ \E o \in kernel : Complete(o)
    PROVE  DL!DNext
<1>1. /\ cq \in Seq(Waits) /\ arrived \in Seq(Waits) /\ Len(cq) \in Nat
      /\ Len(arrived) \in Nat /\ Len(cq) <= Len(arrived) /\ kernel \subseteq Waits
  BY DEF TypeInv, Core, ArrivalInv
<1>2. UNCHANGED <<fut, val, waiters>>
  BY DEF CtxClose, Steal, Complete, loopVars, taskVars
<1>3. WaitState' = WaitState /\ Gone' = Gone
  BY <1>2 DEF WaitState, Gone, Waits
<1>4. CASE CtxClose \/ Steal
  <2>1. /\ arrived' = arrived /\ Intruded'
        /\ cq' = <<>> \/ (cq # <<>> /\ cq' = Tail(cq))
    BY <1>4 DEF CtxClose, Steal, Intruded
  <2>2. Len(cq') \in Nat /\ Len(cq') <= Len(cq)
    <3>1. CASE cq' = <<>>
      BY <1>1, <3>1
    <3>2. CASE cq # <<>> /\ cq' = Tail(cq)
      BY <1>1, <3>2, TailIs
    <3> QED BY <2>1, <3>1, <3>2
  <2>3. (Len(arrived) - Len(cq))' \in (Len(arrived) - Len(cq)) .. Len(arrived)
    BY <1>1, <2>1, <2>2
  <2>4. Intruded' = TRUE
    BY <2>1 DEF Intruded
  <2>5. DL!Intrude
    BY <1>2, <1>3, <2>1, <2>3, <2>4 DEF DL!Intrude, Intruded
  <2> QED BY <2>5 DEF DL!DNext
<1>5. ASSUME NEW o \in kernel, Complete(o) PROVE DL!DNext
  <2>1. cq' = Append(cq, o) /\ arrived' = Append(arrived, o) /\ upset' = upset
    BY <1>5 DEF Complete
  <2>2. (Len(arrived) - Len(cq))' = Len(arrived) - Len(cq)
    <3>1. Len(cq') = Len(cq) + 1 /\ Len(arrived') = Len(arrived) + 1
      BY <1>1, <2>1
    <3> QED BY <1>1, <3>1
  <2>3. \A i \in 1 .. Len(arrived) : arrived[i] # o
    BY DEF Core, ArrivalInv
  <2>4. DL!Post(o)
    BY <1>2, <1>3, <2>1, <2>2, <2>3 DEF DL!Post
  <2> QED BY <1>1, <2>4, TasksAre DEF DL!DNext
<1> QED BY <1>4, <1>5

\* Deliveries counts as this module does.
LEMMA SameCardinality == \A S : DL!Cardinality(S) = Cardinality(S)
  BY Zenon DEF DL!Cardinality, Cardinality, DL!IsFiniteSet, IsFiniteSet

\* The first n of the deque are served, or swallow their completion.
LEMMA ServeStep ==
    ASSUME TypeInv, Core, NEW n \in Nat, n <= Len(waiters), n <= Len(cq), Resolve(n),
           Taken' = Taken + n, arrived' = arrived, Intruded' = Intruded
    PROVE  DL!DNext
<1> DEFINE T == {waiters[i] : i \in 1 .. n}
<1>1. Rising /\ DequeInv /\ ArrivalInv
  BY DEF Core, DequeInv
<1>2. /\ Len(waiters) \in Nat /\ Len(cq) \in Nat /\ Len(arrived) \in Nat
      /\ Taken \in Nat /\ Taken = Len(arrived) - Len(cq)
      /\ \A i \in 1 .. Len(cq) : cq[i] = arrived[Taken + i]
      /\ \A k \in Waits : k \in Nat \ {0}
      /\ \A i \in 1 .. Len(waiters) : waiters[i] \in Waits /\ waiters[i] \in Nat
  BY <1>1, TakenIs
<1>3. /\ waiters' \in Seq(Waits) /\ Len(waiters') = Len(waiters) - n
      /\ \A i \in 1 .. Len(waiters) - n :
            n + i \in 1 .. Len(waiters) /\ waiters'[i] = waiters[n + i]
  BY <1>1, ResolveIs
<1>4. /\ val' \in [Waits -> 0 .. MaxWaits] /\ fut' \in [Waits -> FutStates]
      /\ \A i \in 1 .. n :
            /\ i \in 1 .. Len(waiters) /\ i \in 1 .. Len(cq)
            /\ Live(waiters[i]) => /\ fut'[waiters[i]] = "result"
                                   /\ val'[waiters[i]] = cq[i]
      /\ \A k \in Waits : (~ \E i \in 1 .. n : waiters[i] = k /\ Live(k)) =>
            fut'[k] = fut[k] /\ val'[k] = val[k]
  BY <1>1, ResolveIs
<1>5. \A i, j \in 1 .. Len(waiters) : waiters[i] <= waiters[j] => i <= j
  <2> SUFFICES ASSUME NEW i \in 1 .. Len(waiters), NEW j \in 1 .. Len(waiters),
                      waiters[i] <= waiters[j], ~(i <= j)
               PROVE  FALSE
    OBVIOUS
  <2>1. j < i
    BY <1>2
  <2>2. waiters[j] < waiters[i]
    BY <1>1, <2>1 DEF Rising
  <2> QED BY <1>2, <2>2
<1>6. \A i \in 1 .. Len(waiters) :
         waiters[i] \in ToSet(waiters) /\ fut[waiters[i]] \in {"pending", "cancelled"}
  BY <1>1, InDeque DEF DequeInv, Queued
<1>7. T \subseteq DL!Waiting \cup (DL!Ended \ Gone) /\ T \in SUBSET DL!Tasks
  <2> SUFFICES ASSUME NEW i \in 1 .. n
               PROVE  waiters[i] \in DL!Waiting \cup (DL!Ended \ Gone) /\ waiters[i] \in DL!Tasks
    OBVIOUS
  <2>1. PICK k : k = waiters[i] /\ k \in Waits /\ k \in ToSet(waiters)
                 /\ fut[k] \in {"pending", "cancelled"}
    BY <1>2, <1>4, <1>6
  <2>2. k \notin Gone
    BY <2>1 DEF Gone
  <2> QED BY <2>1, <2>2, TasksAre DEF Live
<1>8. \A k \in T, j \in DL!Waiting : j < k => j \in T
  <2> SUFFICES ASSUME NEW i \in 1 .. n, NEW j \in DL!Waiting, j < waiters[i]
               PROVE  j \in T
    OBVIOUS
  <2>1. j \in Waits /\ Live(j)
    BY TasksAre
  <2>2. PICK m \in 1 .. Len(waiters) : waiters[m] = j
    BY <1>1, <2>1 DEF DequeInv, Futures
  <2>3. i \in 1 .. Len(waiters) /\ waiters[m] <= waiters[i]
    BY <1>2, <1>4, <2>2
  <2>4. m <= i
    BY <1>5, <2>3
  <2>5. m \in 1 .. n
    BY <2>4
  <2> QED BY <2>2, <2>5
<1>9. Cardinality(T) = n
  BY <1>1, FirstCount
<1>10. ASSUME NEW i \in 1 .. n
       PROVE  Cardinality({j \in T : j <= waiters[i]}) = i
  <2>1. i \in Nat /\ i <= Len(waiters) /\ i \in 1 .. Len(waiters)
    BY <1>2
  <2>2. \A h \in 1 .. n : h \in 1 .. Len(waiters) /\ (waiters[h] <= waiters[i] => h \in 1 .. i)
    BY <1>4, <1>5, <2>1
  <2>3. \A h \in 1 .. i : h \in 1 .. n /\ waiters[h] <= waiters[i]
    <3> TAKE h \in 1 .. i
    <3>1. h \in 1 .. n /\ h \in 1 .. Len(waiters) /\ (h < i \/ h = i)
      BY <1>2
    <3>2. waiters[h] < waiters[i] \/ waiters[h] = waiters[i]
      BY <1>1, <2>1, <3>1 DEF Rising
    <3> QED BY <1>2, <2>1, <3>1, <3>2
  <2>4. {j \in T : j <= waiters[i]} = {waiters[h] : h \in 1 .. i}
    BY <2>2, <2>3
  <2>5. Cardinality({waiters[h] : h \in 1 .. i}) = i
    BY <1>1, <2>1, FirstCount
  <2> QED BY <2>4, <2>5
<1>11. \A k \in Waits : k \in T /\ Live(k) <=> \E i \in 1 .. n : waiters[i] = k /\ Live(k)
  OBVIOUS
<1>12. WaitState' = [k \in DL!Tasks |->
                       IF k \in T \cap DL!Waiting THEN "result" ELSE WaitState[k]]
  <2>1. WaitState' = [k \in Waits |-> IF fut'[k] \in {"exception", "cancelled"}
                                      THEN "ended" ELSE fut'[k]]
    BY DEF WaitState, Waits
  <2>2. \A k \in Waits : IF k \in T /\ Live(k) THEN fut'[k] = "result" ELSE fut'[k] = fut[k]
    BY <1>4, <1>11
  <2>3. DL!Tasks = Waits /\ \A k \in Waits : k \in T \cap DL!Waiting <=> k \in T /\ Live(k)
    BY TasksAre
  <2> HIDE DEF T
  <2> QED BY <2>1, <2>2, <2>3 DEF WaitState
<1>13. val' = [k \in DL!Tasks |->
                 IF k \in T \cap DL!Waiting
                 THEN arrived[Taken + Cardinality({j \in T : j <= k})]
                 ELSE val[k]]
  <2>1. ASSUME NEW k \in Waits, k \in T, Live(k)
        PROVE  val'[k] = arrived[Taken + Cardinality({j \in T : j <= k})]
    <3>1. PICK i \in 1 .. n : waiters[i] = k
      BY <2>1
    <3>2. val'[k] = cq[i] /\ cq[i] = arrived[Taken + i]
      BY <1>2, <1>4, <2>1, <3>1
    <3>3. Cardinality({j \in T : j <= k}) = i
      BY <1>10, <3>1
    <3> HIDE DEF T
    <3> QED BY <3>2, <3>3
  <2>2. ASSUME NEW k \in Waits, ~(k \in T /\ Live(k))
        PROVE  val'[k] = val[k]
    BY <1>4, <1>11, <2>2
  <2>3. DL!Tasks = Waits /\ \A k \in Waits : k \in T \cap DL!Waiting <=> k \in T /\ Live(k)
    BY TasksAre
  <2>4. val' = [k \in Waits |-> val'[k]]
    BY <1>4
  <2> HIDE DEF T
  <2> QED BY <2>1, <2>2, <2>3, <2>4
<1>14. Gone' = Gone \cup (T \ DL!Waiting)
  <2>1. Gone' = {k \in Waits : fut'[k] \in {"exception", "cancelled"}
                               /\ k \notin ToSet(waiters')}
    BY DEF Gone, Waits
  <2>2. ASSUME NEW k
        PROVE  k \in ToSet(waiters') <=> \E i \in n + 1 .. Len(waiters) : waiters[i] = k
    <3>1. DOMAIN waiters' = 1 .. Len(waiters) - n
      BY <1>3
    <3>2. k \in ToSet(waiters') <=> \E i \in 1 .. Len(waiters) - n : waiters[n + i] = k
      BY <1>3, <3>1 DEF ToSet
    <3>3. \A i \in 1 .. Len(waiters) - n : n + i \in n + 1 .. Len(waiters)
      BY <1>2
    <3>4. \A i \in n + 1 .. Len(waiters) :
             \E h \in 1 .. Len(waiters) - n : n + h = i
      <4> TAKE i \in n + 1 .. Len(waiters)
      <4>1. i - n \in 1 .. Len(waiters) - n /\ n + (i - n) = i
        BY <1>2
      <4> QED BY <4>1
    <3> QED BY <3>2, <3>3, <3>4
  <2>3. ASSUME NEW k \in Gone PROVE k \in Gone'
    <3>1. k \in Waits /\ fut[k] \in {"exception", "cancelled"} /\ k \notin ToSet(waiters)
      BY DEF Gone
    <3>2. \A i \in 1 .. Len(waiters) : waiters[i] # k
      BY <3>1, InDeque
    <3>3. fut'[k] = fut[k]
      BY <1>4, <3>1 DEF Live
    <3>4. \A i \in n + 1 .. Len(waiters) : i \in 1 .. Len(waiters)
      BY <1>2
    <3>5. k \notin ToSet(waiters')
      BY <2>2, <3>2, <3>4
    <3> QED BY <2>1, <3>1, <3>3, <3>5
  <2>4. ASSUME NEW k \in T, k \notin DL!Waiting PROVE k \in Gone'
    <3>1. PICK i \in 1 .. n : waiters[i] = k
      OBVIOUS
    <3>2. k \in Waits /\ i \in 1 .. Len(waiters) /\ k \in Nat
      BY <1>2, <1>4, <3>1
    <3>3. ~Live(k)
      BY <2>4, <3>2, TasksAre
    <3>4. fut[k] = "cancelled" /\ fut'[k] = fut[k]
      BY <1>4, <1>6, <3>1, <3>2, <3>3 DEF Live
    <3>5. ASSUME NEW h \in n + 1 .. Len(waiters), waiters[h] = k PROVE FALSE
      <4>1. h \in 1 .. Len(waiters)
        BY <1>2
      <4>2. h <= i
        <5>1. waiters[h] = waiters[i] /\ waiters[h] \in Nat
          BY <3>1, <3>2, <3>5
        <5>2. waiters[h] <= waiters[i]
          BY <5>1
        <5> QED BY <1>5, <3>2, <4>1, <5>2
      <4> QED BY <1>2, <4>2
    <3>6. k \notin ToSet(waiters')
      BY <2>2, <3>5
    <3> QED BY <2>1, <3>2, <3>4, <3>6
  <2>5. ASSUME NEW k \in Gone' PROVE k \in Gone \/ (k \in T /\ k \notin DL!Waiting)
    <3>1. k \in Waits /\ fut'[k] \in {"exception", "cancelled"} /\ k \notin ToSet(waiters')
      BY <2>1
    <3>2. fut[k] = fut'[k]
      <4>1. ~(k \in T /\ Live(k))
        BY <1>4, <3>1
      <4> QED BY <1>4, <1>11, <3>1, <4>1
    <3>3. k \notin DL!Waiting
      BY <3>1, <3>2, TasksAre DEF Live
    <3>4. CASE k \notin ToSet(waiters)
      BY <3>1, <3>2, <3>4 DEF Gone
    <3>5. CASE k \in ToSet(waiters)
      <4>1. PICK i \in 1 .. Len(waiters) : waiters[i] = k
        BY <3>5, InDeque
      <4>2. i \notin n + 1 .. Len(waiters)
        BY <2>2, <3>1, <4>1
      <4>3. i \in 1 .. n
        BY <1>2, <4>2
      <4> QED BY <3>3, <4>1, <4>3
    <3> QED BY <3>4, <3>5
  <2> HIDE DEF T
  <2> QED BY <2>3, <2>4, <2>5
<1>15. (Len(arrived) - Len(cq))' = Taken + n /\ Taken + n <= Len(arrived)
  BY <1>2 DEF Taken
<1> HIDE DEF T
<1>16. /\ (Len(arrived) - Len(cq))' = (Len(arrived) - Len(cq)) + Cardinality(T)
       /\ (Len(arrived) - Len(cq))' <= Len(arrived)
  BY <1>2, <1>9, <1>15
<1>17. val' = [k \in DL!Tasks |->
                 IF k \in T \cap DL!Waiting
                 THEN arrived[(Len(arrived) - Len(cq)) + Cardinality({j \in T : j <= k})]
                 ELSE val[k]]
  BY <1>13 DEF Taken
<1>18. (upset \cap {"steal", "close_ctx"} # {})' = (upset \cap {"steal", "close_ctx"} # {})
  BY DEF Intruded
<1>19. DL!Serve(T)
  BY <1>7, <1>8, <1>12, <1>14, <1>16, <1>17, <1>18, SameCardinality, Zenon DEF DL!Serve
<1> QED BY <1>7, <1>19 DEF DL!DNext

\* Every step of UringAsync and of the loop, the tasks and the kernel around it
\* is a step of Deliveries or leaves its state alone.
LEMMA DeliveryStep ==
    ASSUME AsyncInv, [Next]_vars
    PROVE  [DL!DNext]_(DL!deliveryVars)
<1>1. TypeInv /\ Core /\ Futures
  BY DEF AsyncInv, Core, DequeInv
<1>2. CASE OnReadable \/ OnReadablePeekRaises
  <2>1. PICK n \in Nat : n <= Len(waiters) /\ n <= Len(cq) /\ Resolve(n)
    BY <1>1, <1>2, DeliversSome
  <2>2. UNCHANGED <<started, co, mustCancel, kernel, arrived>>
    BY <1>2 DEF OnReadable, OnReadablePeekRaises
  <2>3. Taken' = Taken + n
    BY <1>1, <2>1, <2>2, ResolveKeeps
  <2>4. upset' \in {upset, upset \cup {"peek_error"}}
    BY <1>2 DEF OnReadable, OnReadablePeekRaises
  <2>5. Intruded' = Intruded
    BY <2>4 DEF Intruded
  <2>6. DL!DNext
    BY <1>1, <2>1, <2>2, <2>3, <2>5, ServeStep
  <2> QED BY <2>6
<1>3. CASE OnReadableFails \/ Close
  <2>1. PICK e \in {"exception", "cancelled"} :
          fut' = [k \in Waits |-> IF k \in LiveWaits THEN e ELSE fut[k]]
    BY <1>3 DEF OnReadableFails, Close
  <2>2. UNCHANGED <<val, cq, arrived, upset>> /\ waiters' = <<>>
    BY <1>3 DEF OnReadableFails, Close, ringVars
  <2>3. LiveWaits \in SUBSET Waits /\ \A k \in LiveWaits : Live(k)
    <3>1. \A k \in LiveWaits : k \in ToSet(waiters) /\ Live(k)
      BY DEF LiveWaits
    <3>2. \A k \in ToSet(waiters) : \E i \in 1 .. Len(waiters) : waiters[i] = k
      BY <1>1, InDeque
    <3>3. \A i \in 1 .. Len(waiters) : waiters[i] \in Waits
      BY <1>1 DEF TypeInv
    <3> QED BY <3>1, <3>2, <3>3
  <2>4. \A k : k \notin ToSet(waiters')
    BY <2>2 DEF ToSet
  <2>5. Intruded' = Intruded
    BY <2>2 DEF Intruded
  <2>6. PICK T \in SUBSET Waits : T = LiveWaits
    BY <2>3
  <2>7. /\ \A k \in T : fut'[k] \in {"exception", "cancelled"}
        /\ \A k \in Waits : k \notin T => fut'[k] = fut[k]
    BY <2>1, <2>6
  <2>8. DL!DNext
    BY <1>1, <2>2, <2>3, <2>4, <2>5, <2>6, <2>7, EndStep
  <2> QED BY <2>8
<1>4. ASSUME NEW k \in Waits, Cancel(k) PROVE [DL!DNext]_(DL!deliveryVars)
  <2>1. UNCHANGED <<val, cq, arrived, waiters, upset>>
    BY <1>4 DEF Cancel, ringVars
  <2>2. Intruded' = Intruded
    BY <2>1 DEF Intruded
  <2>3. CASE Live(k)
    <3>1. fut' = [fut EXCEPT ![k] = "cancelled"] /\ fut \in [Waits -> FutStates]
      BY <1>1, <1>4, <2>3 DEF Cancel, TypeInv
    <3>2. PICK T \in SUBSET Waits : T = {k}
      OBVIOUS
    <3>3. /\ \A j \in T : Live(j) /\ fut'[j] \in {"exception", "cancelled"}
          /\ \A j \in Waits : j \notin T => fut'[j] = fut[j]
      BY <2>3, <3>1, <3>2
    <3>4. \A j \in Gone : j \notin ToSet(waiters')
      BY <2>1 DEF Gone
    <3>5. DL!DNext
      BY <1>1, <2>1, <2>2, <3>3, <3>4, EndStep
    <3> QED BY <3>5
  <2>4. CASE ~Live(k)
    <3>1. fut' = fut
      BY <1>4, <2>4 DEF Cancel
    <3> QED BY <2>1, <2>2, <3>1, SilentStep
  <2> QED BY <2>3, <2>4
<1>5. ASSUME NEW k \in Waits, ResumeCancelled(k) PROVE [DL!DNext]_(DL!deliveryVars)
  <2>1. UNCHANGED <<fut, val, cq, arrived, upset>> /\ waiters' = Dequeue(k)
    BY <1>5 DEF ResumeCancelled, ringVars
  <2>2. Intruded' = Intruded
    BY <2>1 DEF Intruded
  <2>3. PICK d : d = Dequeue(k)
    OBVIOUS
  <2>4. \A j \in ToSet(waiters') : j \in ToSet(waiters)
    <3>1. d \in Seq(Waits)
      <4>1. waiters' \in Seq(Waits)
        BY <1>1, <1>5, ResumeKeeps DEF DataType
      <4> QED BY <2>1, <2>3, <4>1
    <3>2. \A i \in 1 .. Len(d) : \E j \in 1 .. Len(waiters) : d[i] = waiters[j]
      BY <1>1, <2>3, DequeueIn
    <3>3. DOMAIN d = 1 .. Len(d)
      BY <3>1
    <3>4. \A i \in 1 .. Len(d) : d[i] \in ToSet(waiters)
      BY <1>1, <3>2, InDeque
    <3> QED BY <2>1, <2>3, <3>3, <3>4 DEF ToSet
  <2>5. \A j \in Gone : j \notin ToSet(waiters')
    BY <2>4 DEF Gone
  <2>6. PICK T \in SUBSET Waits : T = {}
    OBVIOUS
  <2>7. DL!DNext
    BY <1>1, <2>1, <2>2, <2>5, <2>6, EndStep
  <2> QED BY <2>7
<1>6. CASE StartWait
  BY <1>1, <1>6, JoinStep
<1>7. CASE CtxClose \/ Steal \/ \E o \in kernel : Complete(o)
  BY <1>1, <1>7, RingStep
<1>8. CASE Poll \/ OnReadableBlocks \/ (\E k \in Waits : ResumeDone(k)) \/ UNCHANGED vars
  <2>1. UNCHANGED <<fut, val, cq, arrived, waiters, upset>>
    BY <1>8 DEF Poll, OnReadableBlocks, ResumeDone, vars, loopVars, taskVars, ringVars
  <2>2. Intruded' = Intruded
    BY <2>1 DEF Intruded
  <2> QED BY <2>1, <2>2, SilentStep
<1> QED BY <1>2, <1>3, <1>4, <1>5, <1>6, <1>7, <1>8 DEF Next, Loop

\* UringAsync implements Deliveries, for every number of waits: whatever is
\* cancelled, closed, stolen or failing, the completions of the ring go out in
\* order, one to a wait, past no task that waits.
THEOREM AsyncRefinesDeliveries == Spec => AsyncRefines
<1>1. Init => DL!DInit
  <2> SUFFICES ASSUME Init PROVE DL!DInit
    OBVIOUS
  <2>1. /\ arrived = <<>> /\ cq = <<>> /\ upset = {}
        /\ fut = [k \in Waits |-> "none"] /\ val = [k \in Waits |-> 0]
    BY DEF Init, NoOp
  <2>2. Len(arrived) - Len(cq) = 0
    BY <2>1
  <2>3. WaitState = [k \in Waits |-> "none"] /\ Gone = {}
    BY <2>1 DEF WaitState, Gone
  <2>4. (upset \cap {"steal", "close_ctx"} # {}) = FALSE
    BY <2>1
  <2> QED BY <2>1, <2>2, <2>3, <2>4 DEF DL!DInit, DL!Tasks, Waits
<1>2. AsyncInv /\ [Next]_vars => [DL!DNext]_(DL!deliveryVars)
  BY DeliveryStep
<1> QED BY <1>1, <1>2, AsyncInvariant, PTL DEF Spec, AsyncRefines, DL!DSpec
=============================================================================

------------------------ MODULE WriteNewfileProofs --------------------------
(***************************************************************************)
(* Proofs about WriteNewfile, for every size, queue depth, batch length    *)
(* and callback, and with every fault.  The inductive invariant splits     *)
(* the bytes below next_off into those stored, those lost and those on     *)
(* their way, and the stored ones into those counted in `written` and      *)
(* those whose CQE has not been looked at.                                 *)
(***************************************************************************)
EXTENDS WriteNewfile, FiniteSetTheorems, TLAPS

\* What a completion covers, and the stored bytes already in `written`.
Covers(c) == c.off .. c.off + c.res - 1
Unseen == cq \cup batch
Counted == {x \in stored : \A c \in Unseen : x \notin Covers(c)}

TypeInv ==
    /\ pc \in {"setup", "fill", "wait", "reap", "out", "done"}
    /\ requested \in Nat \ {0} /\ total_bytes \in Nat /\ next_off \in Nat
    /\ max_buffer_size \in Nat \ {0}
    /\ next_off <= total_bytes /\ (pc = "setup" => next_off = 0)
    /\ inflight \in Int /\ pending \in Int /\ got \in Nat /\ written \in Nat
    /\ \A o \in Ops : o.off \in Nat /\ o.len \in Nat \ {0}
    /\ \A c \in Unseen : c.off \in Nat /\ c.res \in Nat \cup {-1}
    /\ stored \subseteq Nat /\ IsFiniteSet(stored)

\* Below next_off every byte is in exactly one place.
Geometry ==
    /\ 0 .. next_off - 1 = stored \cup lost \cup Ranges
    /\ stored \cap Ranges = {} /\ lost \cap (stored \cup Ranges) = {}
    /\ \A a, b \in Ops : a # b => RangeOf(a) \cap RangeOf(b) = {}

\* A completion's bytes are stored, and no two completions share one.
Landed ==
    /\ \A c \in Unseen : c.off \in stored \cup lost /\ Covers(c) \subseteq stored
    /\ \A c, d \in Unseen : c # d => Covers(c) \cap Covers(d) = {}
    /\ sq \cap kernel = {} /\ cq \cap batch = {}

Counters ==
    /\ IsFiniteSet(sq) /\ IsFiniteSet(kernel) /\ IsFiniteSet(cq)
    /\ pending = Cardinality(sq)
    /\ inflight = Cardinality(kernel) + Cardinality(cq) + got
    /\ inflight + pending <= QD
    /\ pc \in {"setup", "fill", "wait"} => got = 0 /\ batch = {}

\* The thread is still in its loop.
Live == Geometry /\ Landed /\ Counters /\ written = Cardinality(Counted)

\* What a return of "ok" rests on.
Told ==
    /\ written <= Cardinality(stored)
    /\ (pc \in {"out", "done"} /\ ret = "ok") =>
          /\ kernel = {} /\ written = Cardinality(stored)
          /\ stored \subseteq 0 .. total_bytes - 1

NewfileInv == TypeInv /\ Told /\ (pc \notin {"out", "done"} => Live)

-----------------------------------------------------------------------------
\* A range of n bytes has n of them.
LEMMA RangeSize ==
    ASSUME NEW a \in Nat, NEW n \in Nat
    PROVE  IsFiniteSet(a .. a + n - 1) /\ Cardinality(a .. a + n - 1) = n
<1>1. a \in Int /\ a + n - 1 \in Int
  OBVIOUS
<1>2. /\ IsFiniteSet(a .. a + n - 1)
      /\ Cardinality(a .. a + n - 1) =
            IF a > a + n - 1 THEN 0 ELSE (a + n - 1) - a + 1
  BY <1>1, FS_Interval
<1> QED BY <1>2

\* A byte is on its way when some operation covers it.
LEMMA RangesDef == \A x : x \in Ranges <=> \E o \in Ops : x \in RangeOf(o)
BY DEF Ranges

\* The next write asks for at least one byte and none beyond the end.
LEMMA WantsInFile ==
    ASSUME TypeInv, next_off < total_bytes, NEW w \in Wants
    PROVE  w \in Nat \ {0} /\ next_off + w <= total_bytes
<1> USE NewfileAssumption DEF TypeInv
<1>1. PICK v \in Nat \ {0} : w = Lesser(v, total_bytes - next_off)
  BY DEF Wants
<1> QED BY <1>1 DEF Lesser

\* What is counted is stored.
LEMMA CountedSize ==
    TypeInv => /\ IsFiniteSet(Counted) /\ Cardinality(Counted) \in Nat
               /\ Cardinality(stored) \in Nat
               /\ Cardinality(Counted) <= Cardinality(stored)
<1> SUFFICES ASSUME TypeInv
             PROVE  /\ IsFiniteSet(Counted) /\ Cardinality(Counted) \in Nat
                    /\ Cardinality(stored) \in Nat
                    /\ Cardinality(Counted) <= Cardinality(stored)
  OBVIOUS
<1>1. IsFiniteSet(stored) /\ Counted \in SUBSET stored
  BY DEF TypeInv, Counted
<1> QED BY <1>1, FS_Subset, FS_CardinalityType

\* Adding a CQE's result to `written` counts exactly the bytes it covers.
LEMMA CountCqe ==
    ASSUME TypeInv, Landed, NEW c \in Unseen, c.res >= 0
    PROVE  /\ c.res \in Nat
           /\ Cardinality(Counted \cup Covers(c)) = Cardinality(Counted) + c.res
           /\ Cardinality(Counted) + c.res <= Cardinality(stored)
<1>1. c.off \in Nat /\ c.res \in Nat
  BY DEF TypeInv
<1>2. IsFiniteSet(Covers(c)) /\ Cardinality(Covers(c)) = c.res
  BY <1>1, RangeSize DEF Covers
<1>3. Counted \cap Covers(c) = {}
  BY DEF Counted
<1>4. /\ IsFiniteSet(Counted \cup Covers(c))
      /\ Cardinality(Counted \cup Covers(c)) =
            Cardinality(Counted) + Cardinality(Covers(c))
               - Cardinality(Counted \cap Covers(c))
  BY <1>2, CountedSize, FS_Union
<1>5. Cardinality(Counted \cup Covers(c)) = Cardinality(Counted) + c.res
  BY <1>1, <1>2, <1>3, <1>4, CountedSize, FS_EmptySet
<1>6. Counted \cup Covers(c) \in SUBSET stored /\ IsFiniteSet(stored)
  BY DEF TypeInv, Counted, Landed
<1>7. Cardinality(Counted \cup Covers(c)) <= Cardinality(stored)
  BY <1>6, FS_Subset
<1> QED BY <1>1, <1>5, <1>7

\* Nothing has happened yet.
LEMMA InitInv == Init => NewfileInv
<1> SUFFICES ASSUME Init PROVE NewfileInv
  OBVIOUS
<1> USE NewfileAssumption DEF Init
<1>1. Ops = {} /\ Unseen = {} /\ Ranges = {} /\ Counted = {}
  BY DEF Ops, Unseen, Ranges, Counted
<1>2. IsFiniteSet({}) /\ Cardinality({}) = 0
  BY FS_EmptySet
<1>3. TypeInv
  BY <1>1, <1>2 DEF TypeInv
<1>4. Geometry
  BY <1>1 DEF Geometry
<1>5. Landed /\ Counters
  BY <1>1, <1>2 DEF Landed, Counters
<1> QED BY <1>1, <1>2, <1>3, <1>4, <1>5 DEF NewfileInv, Live, Told

\* Steps that move no operation and store nothing.
LEMMA StillInv ==
    ASSUME NewfileInv, Setup \/ SetupFails \/ SubmitFails \/ WaitFails \/ UNCHANGED vars
    PROVE  NewfileInv'
<1> USE NewfileAssumption DEF NewfileInv
<1>1. UNCHANGED <<requested, next_off, inflight, pending, written, sq, kernel, cq,
                  batch, got, stored, lost>>
  BY DEF Setup, SetupFails, SubmitFails, WaitFails, vars
<1>2. /\ pc' \in {"setup", "fill", "wait", "reap", "out", "done"}
      /\ pc' \in {"out", "done"} => ret' # "ok" \/ (pc' = pc /\ ret' = ret)
      /\ pc' = "setup" => pc = "setup"
      /\ pc' \notin {"out", "done"} => pc \notin {"out", "done"}
      /\ pc' \in {"fill", "wait"} => pc \in {"setup", "fill", "wait"}
  BY DEF Setup, SetupFails, SubmitFails, WaitFails, vars, TypeInv
<1>3. /\ total_bytes' \in Nat /\ next_off <= total_bytes'
      /\ max_buffer_size' \in Nat \ {0}
      /\ pc' \in {"out", "done"} => total_bytes' = total_bytes
  <2>1. CASE Setup
    BY <2>1 DEF Setup, Greater, Lesser, TypeInv
  <2>2. CASE UNCHANGED <<total_bytes, max_buffer_size>>
    BY <2>2 DEF TypeInv
  <2> QED BY <2>1, <2>2 DEF SetupFails, SubmitFails, WaitFails, vars
<1>4. TypeInv'
  BY <1>1, <1>2, <1>3 DEF TypeInv, Ops, Unseen
<1>5. Told'
  BY <1>1, <1>2, <1>3 DEF Told
<1>6. ASSUME pc' \notin {"out", "done"} PROVE Live'
  <2>1. (Geometry /\ Landed)'
    BY <1>1, <1>2, <1>6 DEF Live, Geometry, Landed, Ranges, RangeOf, Ops, Unseen, Covers
  <2>2. Counters'
    BY <1>1, <1>2, <1>6 DEF Live, Counters
  <2>3. Counted' = Counted
    BY <1>1 DEF Counted, Unseen, Covers
  <2> QED BY <1>1, <1>2, <1>6, <2>1, <2>2, <2>3 DEF Live
<1> QED BY <1>4, <1>5, <1>6

\* The ring is torn down: nothing is on its way any more.
LEMMA ExitInv == ASSUME NewfileInv, Exit PROVE NewfileInv'
<1> USE DEF NewfileInv
<1>1. TypeInv'
  BY DEF Exit, TypeInv, Ops, Unseen
<1>2. Told'
  BY DEF Exit, Told
<1> QED BY <1>1, <1>2 DEF Exit

\* The next write starts where the last one ended.
LEMMA QueueInv == ASSUME NewfileInv, Queue PROVE NewfileInv'
<1> USE NewfileAssumption DEF NewfileInv
<1>1. /\ pc = "fill" /\ next_off < total_bytes /\ inflight + pending < QD /\ Live
      /\ pending' = pending + 1
      /\ UNCHANGED <<pc, requested, total_bytes, max_buffer_size, inflight, written,
                     ret, kernel, cq, batch, got, stored, lost>>
  BY DEF Queue, CanQueue
<1>2. PICK want \in Wants :
         sq' = sq \cup {WriteOp(want)} /\ next_off' = next_off + want
  BY DEF Queue
<1>3. want \in Nat \ {0} /\ next_off + want <= total_bytes
  BY <1>1, WantsInFile
<1>p. PICK op : op = WriteOp(want)
  OBVIOUS
<1>o. op = WriteOp(want) /\ op.off = next_off /\ op.len = want
  BY <1>p DEF WriteOp
<1>4. /\ Ops' = Ops \cup {op} /\ Unseen' = Unseen
      /\ next_off \in Nat /\ stored \subseteq Nat
      /\ \A o \in Ops : o.off \in Nat /\ o.len \in Nat \ {0}
  BY <1>1, <1>2, <1>o DEF Ops, Unseen, TypeInv
<1>5. RangeOf(op) = next_off .. next_off + want - 1
  BY <1>o DEF RangeOf
<1>6. \A o \in Ops : RangeOf(o) \cap RangeOf(op) = {} /\ o # op
  <2>1. ASSUME NEW o \in Ops PROVE RangeOf(o) \subseteq 0 .. next_off - 1
    BY <1>1, RangesDef DEF Live, Geometry
  <2>2. ASSUME NEW o \in Ops PROVE o.off \in RangeOf(o)
    BY <1>4 DEF RangeOf
  <2> QED BY <1>3, <1>4, <1>5, <1>o, <2>1, <2>2
<1>7. Ranges' = Ranges \cup RangeOf(op)
  <2>1. Ranges' = UNION {RangeOf(o) : o \in Ops \cup {op}}
    BY <1>4 DEF Ranges, RangeOf
  <2> QED BY <2>1 DEF Ranges
<1>8. TypeInv'
  <2>1. next_off' \in Nat /\ next_off' <= total_bytes /\ pending' \in Int
    BY <1>1, <1>2, <1>3, <1>4 DEF TypeInv
  <2>2. \A o \in Ops' : o.off \in Nat /\ o.len \in Nat \ {0}
    BY <1>3, <1>4, <1>o
  <2> QED BY <1>1, <1>4, <2>1, <2>2 DEF TypeInv
<1>9. Geometry'
  <2>1. 0 .. next_off' - 1 = (0 .. next_off - 1) \cup RangeOf(op)
    BY <1>2, <1>3, <1>4, <1>5
  <2>2. (0 .. next_off - 1) \cap RangeOf(op) = {}
    BY <1>3, <1>4, <1>5
  <2>3. (stored \cup lost) \cap RangeOf(op) = {}
    BY <1>1, <2>2 DEF Live, Geometry
  <2>4. \A a, b \in Ops' : a # b => RangeOf(a)' \cap RangeOf(b)' = {}
    BY <1>1, <1>4, <1>6 DEF Live, Geometry, RangeOf
  <2> QED BY <1>1, <1>7, <2>1, <2>3, <2>4 DEF Live, Geometry
<1>10. Landed'
  <2>1. sq' \cap kernel' = {}
    BY <1>1, <1>2, <1>6, <1>o DEF Live, Landed, Ops
  <2> QED BY <1>1, <1>4, <2>1 DEF Live, Landed, Covers
<1>11. Counters'
  <2>1. op \notin sq
    BY <1>6 DEF Ops
  <2>2. IsFiniteSet(sq') /\ Cardinality(sq') = Cardinality(sq) + 1
    BY <1>1, <1>2, <1>o, <2>1, FS_AddElement DEF Live, Counters
  <2> QED BY <1>1, <2>2 DEF Live, Counters, TypeInv
<1>12. Counted' = Counted
  BY <1>1, <1>4 DEF Counted, Covers
<1> QED BY <1>1, <1>8, <1>9, <1>10, <1>11, <1>12 DEF Live, Told

\* Submitting moves the prepared writes, unchanged, to the kernel.
LEMMA SubmitInv == ASSUME NewfileInv, SubmitPending PROVE NewfileInv'
<1> USE DEF NewfileInv
<1>1. /\ pc = "fill" /\ pc' = "wait" /\ kernel' = kernel \cup sq /\ sq' = {} /\ Live
      /\ inflight' = inflight + pending /\ pending' = 0
      /\ UNCHANGED <<requested, total_bytes, max_buffer_size, next_off, written, ret,
                     cq, batch, got, stored, lost>>
  BY DEF SubmitPending
<1>2. Ops' = Ops /\ Unseen' = Unseen
  BY <1>1 DEF Ops, Unseen
<1>3. TypeInv'
  BY <1>1, <1>2 DEF TypeInv
<1>4. Geometry'
  <2>1. Ranges' = Ranges
    BY <1>2 DEF Ranges, RangeOf
  <2> QED BY <1>1, <1>2, <2>1 DEF Live, Geometry, RangeOf
<1>5. Landed'
  BY <1>1, <1>2 DEF Live, Landed, Covers
<1>6. Counters'
  <2>1. /\ IsFiniteSet(kernel \cup sq)
        /\ Cardinality(kernel \cup sq) =
              Cardinality(kernel) + Cardinality(sq) - Cardinality(kernel \cap sq)
    BY <1>1, FS_Union DEF Live, Counters
  <2>2. kernel \cap sq = {} /\ IsFiniteSet({}) /\ Cardinality({}) = 0
    BY <1>1, FS_EmptySet DEF Live, Landed
  <2>3. /\ Cardinality(kernel) \in Nat /\ Cardinality(sq) \in Nat
        /\ Cardinality(cq) \in Nat
    BY <1>1, FS_CardinalityType DEF Live, Counters
  <2>4. Cardinality(kernel') = Cardinality(kernel) + Cardinality(sq)
    BY <1>1, <2>1, <2>2, <2>3
  <2>5. inflight' = Cardinality(kernel') + Cardinality(cq') + got'
    BY <1>1, <2>3, <2>4 DEF Live, Counters, TypeInv
  <2>6. inflight' + pending' <= QD
    BY <1>1, NewfileAssumption DEF Live, Counters, TypeInv
  <2> QED BY <1>1, <2>1, <2>2, <2>5, <2>6 DEF Live, Counters
<1>7. Counted' = Counted
  BY <1>1, <1>2 DEF Counted, Covers
<1> QED BY <1>1, <1>3, <1>4, <1>5, <1>6, <1>7 DEF Live, Told

\* A batch taken from the completion queue is as long as `got` says.
LEMMA TakeBatch ==
    ASSUME NewfileInv, Live, batch = {}, batch' \in Batches, cq' = cq \ batch',
           got' = Cardinality(batch'), UNCHANGED <<kernel, stored, lost, sq>>,
           UNCHANGED <<next_off, written>>
    PROVE  /\ (Geometry /\ Landed)' /\ Unseen' = Unseen /\ Ops' = Ops
           /\ written' = Cardinality(Counted)'
           /\ IsFiniteSet(cq') /\ got' \in Nat
           /\ Cardinality(cq) = Cardinality(cq') + got'
<1>1. batch' \in SUBSET cq /\ IsFiniteSet(cq)
  BY DEF Batches, Live, Counters
<1>2. Unseen' = Unseen /\ Ops' = Ops
  BY <1>1 DEF Unseen, Ops
<1>3. Geometry'
  <2>1. Ranges' = Ranges
    BY <1>2 DEF Ranges, RangeOf
  <2> QED BY <1>2, <2>1 DEF Live, Geometry, RangeOf
<1>4. Landed'
  BY <1>1, <1>2 DEF Live, Landed, Covers
<1>5. Counted' = Counted
  BY <1>2 DEF Counted, Covers
<1>6. IsFiniteSet(batch') /\ got' \in Nat
  BY <1>1, FS_Subset, FS_CardinalityType
<1>7. /\ IsFiniteSet(cq \ batch')
      /\ Cardinality(cq \ batch') = Cardinality(cq) - Cardinality(cq \cap batch')
  BY <1>1, FS_Difference
<1>8. cq \cap batch' = batch' /\ Cardinality(cq) \in Nat
  BY <1>1, FS_CardinalityType
<1>9. Cardinality(cq) = Cardinality(cq') + got'
  <2>1. Cardinality(cq') = Cardinality(cq) - got'
    BY <1>7, <1>8
  <2> QED BY <1>6, <1>8, <2>1
<1> QED BY <1>2, <1>3, <1>4, <1>5, <1>6, <1>7, <1>9 DEF Live

\* io_uring_peek_batch_cqe changes who holds the CQEs and nothing else.
LEMMA PeekInv == ASSUME NewfileInv, Peek PROVE NewfileInv'
<1> USE DEF NewfileInv
<1>1. /\ pc = "wait" /\ pc' = "reap" /\ Live /\ batch = {} /\ got = 0
      /\ batch' \in Batches /\ got' = Cardinality(batch') /\ cq' = cq \ batch'
      /\ UNCHANGED <<requested, total_bytes, max_buffer_size, next_off, inflight,
                     pending, written, ret, sq, kernel, stored, lost>>
  BY DEF Peek, Live, Counters
<1>2. /\ (Geometry /\ Landed)' /\ Unseen' = Unseen /\ Ops' = Ops
      /\ written' = Cardinality(Counted)'
      /\ IsFiniteSet(cq') /\ got' \in Nat
      /\ Cardinality(cq) = Cardinality(cq') + got'
  BY <1>1, TakeBatch
<1>3. TypeInv'
  BY <1>1, <1>2 DEF TypeInv
<1>4. Counters'
  <2>1. Cardinality(kernel) \in Nat /\ Cardinality(cq') \in Nat
    BY <1>1, <1>2, FS_CardinalityType DEF Live, Counters
  <2> QED BY <1>1, <1>2, <2>1 DEF Live, Counters
<1> QED BY <1>1, <1>2, <1>3, <1>4 DEF Live, Told

\* A whole batch leaves `inflight` at once, and the next one may follow.
LEMMA BatchDoneInv == ASSUME NewfileInv, BatchDone PROVE NewfileInv'
<1> USE DEF NewfileInv
<1>1. /\ pc = "reap" /\ Live /\ batch = {} /\ inflight' = inflight - got
      /\ UNCHANGED <<requested, total_bytes, max_buffer_size, next_off, pending,
                     written, ret, sq, kernel, stored, lost>>
  BY DEF BatchDone
<1>2. /\ Cardinality(kernel) \in Nat /\ Cardinality(cq) \in Nat /\ got \in Nat
      /\ inflight' = Cardinality(kernel) + Cardinality(cq)
      /\ inflight' + pending <= QD /\ inflight' \in Int
  <2>1. /\ Cardinality(kernel) \in Nat /\ Cardinality(cq) \in Nat
        /\ inflight = Cardinality(kernel) + Cardinality(cq) + got
        /\ inflight + pending <= QD
    BY <1>1, FS_CardinalityType DEF Live, Counters
  <2>2. got \in Nat /\ inflight \in Int /\ pending \in Int /\ QD \in Nat
    BY NewfileAssumption DEF TypeInv
  <2> QED BY <1>1, <2>1, <2>2
<1>3. CASE /\ batch' \in Batches /\ got' = Cardinality(batch') /\ cq' = cq \ batch'
           /\ UNCHANGED pc
  <2>1. /\ (Geometry /\ Landed)' /\ Unseen' = Unseen /\ Ops' = Ops
        /\ written' = Cardinality(Counted)'
        /\ IsFiniteSet(cq') /\ got' \in Nat
        /\ Cardinality(cq) = Cardinality(cq') + got'
    BY <1>1, <1>3, TakeBatch
  <2>2. TypeInv'
    BY <1>1, <1>2, <1>3, <2>1 DEF TypeInv
  <2>3. Counters'
    <3>1. Cardinality(cq') \in Nat
      BY <2>1, FS_CardinalityType
    <3> QED BY <1>1, <1>2, <1>3, <2>1, <3>1 DEF Live, Counters
  <2> QED BY <1>1, <1>3, <2>1, <2>2, <2>3 DEF Live, Told
<1>4. CASE pc' = "fill" /\ got' = 0 /\ UNCHANGED <<batch, cq>>
  <2>1. Unseen' = Unseen /\ Ops' = Ops
    BY <1>1, <1>4 DEF Unseen, Ops
  <2>2. TypeInv'
    BY <1>1, <1>2, <1>4, <2>1 DEF TypeInv
  <2>3. (Geometry /\ Landed)'
    <3>1. Ranges' = Ranges
      BY <2>1 DEF Ranges, RangeOf
    <3> QED BY <1>1, <1>4, <2>1, <3>1 DEF Live, Geometry, Landed, RangeOf, Covers
  <2>4. Counters'
    BY <1>1, <1>2, <1>4 DEF Live, Counters
  <2>5. Counted' = Counted
    BY <1>1, <2>1 DEF Counted, Covers
  <2> QED BY <1>1, <1>4, <2>2, <2>3, <2>4, <2>5 DEF Live, Told
<1> QED BY <1>3, <1>4 DEF BatchDone

\* Looking at a CQE of the batch counts what it covers.
LEMMA ReapInv ==
    ASSUME NewfileInv, NEW c \in batch, Reap(c)
    PROVE  NewfileInv'
<1> USE DEF NewfileInv
<1>1. /\ pc = "reap" /\ Live /\ c \in Unseen /\ c.res >= 0
      /\ batch' = batch \ {c} /\ written' = written + c.res
      /\ UNCHANGED <<pc, requested, total_bytes, max_buffer_size, next_off, inflight,
                     pending, ret, sq, kernel, cq, got, stored, lost>>
  BY DEF Reap, Bad, Unseen, TypeInv
<1>2. Unseen' = Unseen \ {c} /\ Ops' = Ops
  BY <1>1 DEF Unseen, Ops, Live, Landed
<1>3. /\ c.res \in Nat
      /\ Cardinality(Counted \cup Covers(c)) = Cardinality(Counted) + c.res
      /\ Cardinality(Counted) + c.res <= Cardinality(stored)
  BY <1>1, CountCqe DEF Live
<1>4. TypeInv'
  BY <1>1, <1>2, <1>3 DEF TypeInv
<1>5. Counted' = Counted \cup Covers(c)
  <2>1. Counted' = {x \in stored : \A d \in Unseen \ {c} : x \notin Covers(d)}
    BY <1>1, <1>2 DEF Counted, Covers
  <2>2. Covers(c) \subseteq stored
    BY <1>1 DEF Live, Landed
  <2>3. \A d \in Unseen \ {c} : Covers(d) \cap Covers(c) = {}
    BY <1>1 DEF Live, Landed
  <2> QED BY <1>1, <2>1, <2>2, <2>3 DEF Counted
<1>6. (Geometry /\ Landed)'
  <2>1. Ranges' = Ranges
    BY <1>2 DEF Ranges, RangeOf
  <2> QED BY <1>1, <1>2, <2>1 DEF Live, Geometry, Landed, RangeOf, Covers
<1>7. Counters'
  BY <1>1 DEF Live, Counters
<1>8. written' = Cardinality(Counted') /\ written' <= Cardinality(stored)
  BY <1>1, <1>3, <1>5 DEF Live
<1> QED BY <1>1, <1>4, <1>6, <1>7, <1>8 DEF Live, Told

\* A failed write or a cancelling progress_cb ends the loop; what was told is
\* still stored.
LEMMA ReapEndsInv ==
    ASSUME NewfileInv, NEW c \in batch, ReapError(c) \/ ReapCancelled(c)
    PROVE  NewfileInv'
<1> USE DEF NewfileInv
<1>1. /\ pc = "reap" /\ Live /\ c \in Unseen /\ pc' = "out" /\ ret' # "ok"
      /\ Ops' = Ops /\ Unseen' \subseteq Unseen
      /\ inflight' \in {inflight, inflight - got}
      /\ UNCHANGED <<requested, total_bytes, max_buffer_size, next_off, pending, got,
                     stored>>
      /\ written' = written \/ (written' = written + c.res /\ c.res >= 0)
  BY DEF ReapError, ReapCancelled, Bad, Unseen, TypeInv, Ops
<1>2. c.res >= 0 => c.res \in Nat /\ Cardinality(Counted) + c.res <= Cardinality(stored)
  BY <1>1, CountCqe DEF Live
<1>3. written' \in Nat /\ written' <= Cardinality(stored)
  BY <1>1, <1>2 DEF TypeInv, Told, Live
<1>4. TypeInv'
  BY <1>1, <1>3 DEF TypeInv
<1> QED BY <1>1, <1>3, <1>4 DEF Told

\* The loop ends with every write completed and looked at.
LEMMA FinishInv == ASSUME NewfileInv, Finish PROVE NewfileInv'
<1> USE DEF NewfileInv
<1>1. /\ pc = "fill" /\ Live /\ next_off >= total_bytes /\ inflight = 0 /\ pending = 0
      /\ pc' = "out" /\ batch = {} /\ got = 0
      /\ UNCHANGED <<requested, total_bytes, max_buffer_size, next_off, inflight,
                     pending, written, sq, kernel, cq, batch, got, stored, lost>>
  BY DEF Finish, Live, Counters
<1>2. kernel = {} /\ cq = {}
  <2>1. /\ IsFiniteSet(kernel) /\ IsFiniteSet(cq)
        /\ Cardinality(kernel) \in Nat /\ Cardinality(cq) \in Nat
        /\ 0 = Cardinality(kernel) + Cardinality(cq)
    <3>1. /\ IsFiniteSet(kernel) /\ IsFiniteSet(cq)
          /\ Cardinality(kernel) \in Nat /\ Cardinality(cq) \in Nat
      BY <1>1, FS_CardinalityType DEF Live, Counters
    <3> QED BY <1>1, <3>1 DEF Live, Counters
  <2>2. \A a, b \in Nat : 0 = a + b => a = 0 /\ b = 0
    OBVIOUS
  <2> QED BY <2>1, <2>2, FS_EmptySet
<1>3. Counted = stored
  BY <1>1, <1>2 DEF Counted, Unseen
<1>4. stored \subseteq 0 .. total_bytes - 1
  <2>1. next_off = total_bytes
    BY <1>1 DEF TypeInv
  <2> QED BY <1>1, <2>1 DEF Live, Geometry
<1>5. TypeInv'
  BY <1>1 DEF TypeInv, Ops, Unseen
<1> QED BY <1>1, <1>2, <1>3, <1>4, <1>5 DEF Live, Told

\* A completion stores a prefix of its own range, which nothing else covers;
\* the rest of the range is lost.
LEMMA CompleteInv ==
    ASSUME NewfileInv, NEW o \in kernel, Complete(o)
    PROVE  NewfileInv'
<1> USE NewfileAssumption DEF NewfileInv
<1>1. PICK res \in Results(o) :
         /\ cq' = cq \cup {[slot |-> o.slot, off |-> o.off, res |-> res]}
         /\ stored' = stored \cup (o.off .. o.off + res - 1)
         /\ lost' = lost \cup ((o.off .. o.off + o.len - 1) \ stored')
  BY DEF Complete
<1>2. /\ kernel' = kernel \ {o}
      /\ UNCHANGED <<pc, requested, total_bytes, max_buffer_size, next_off, inflight,
                     pending, written, ret, sq, batch, got>>
  BY DEF Complete
<1>3. /\ o \in Ops /\ o.off \in Nat /\ o.len \in Nat \ {0} /\ next_off \in Nat
      /\ res \in Nat \cup {-1} /\ res <= o.len
  <2>1. o \in Ops /\ o.off \in Nat /\ o.len \in Nat \ {0} /\ next_off \in Nat
    BY DEF Ops, TypeInv
  <2> QED BY <1>1, <2>1 DEF Results
<1>q. PICK q : q = [slot |-> o.slot, off |-> o.off, res |-> res]
  OBVIOUS
<1>4. q.off = o.off /\ q.res = res /\ cq' = cq \cup {q}
  BY <1>1, <1>q
<1>5. Unseen' = Unseen \cup {q} /\ Covers(q) = o.off .. o.off + res - 1
  BY <1>2, <1>4 DEF Unseen, Covers
<1>6. /\ Covers(q) \subseteq RangeOf(o) /\ Covers(q) \subseteq Nat
      /\ stored' = stored \cup Covers(q) /\ o.off \in RangeOf(o)
      /\ lost' = lost \cup (RangeOf(o) \ stored')
      /\ IsFiniteSet(Covers(q))
  <2>1. IsFiniteSet(Covers(q))
    <3>1. o.off \in Int /\ o.off + res - 1 \in Int
      BY <1>3
    <3> QED BY <1>5, <3>1, FS_Interval
  <2> QED BY <1>1, <1>3, <1>5, <2>1 DEF RangeOf
<1>7. TypeInv'
  <2>1. IsFiniteSet(stored') /\ stored' \subseteq Nat
    BY <1>6, FS_Union DEF TypeInv
  <2>2. Ops' \subseteq Ops
    BY <1>2 DEF Ops
  <2>3. \A c \in Unseen' : c.off \in Nat /\ c.res \in Nat \cup {-1}
    BY <1>3, <1>4, <1>5 DEF TypeInv
  <2> QED BY <1>2, <2>1, <2>2, <2>3 DEF TypeInv
<1>8. Told'
  <2>1. stored \in SUBSET stored' /\ IsFiniteSet(stored')
    BY <1>6, <1>7 DEF TypeInv
  <2>2. Cardinality(stored) <= Cardinality(stored')
    BY <2>1, FS_Subset
  <2>3. Cardinality(stored) \in Nat /\ Cardinality(stored') \in Nat
    BY <2>1, FS_CardinalityType DEF TypeInv
  <2>4. ~(pc \in {"out", "done"} /\ ret = "ok")
    BY DEF Told
  <2> QED BY <1>2, <2>2, <2>3, <2>4 DEF Told, TypeInv
<1>9. ASSUME pc \notin {"out", "done"} PROVE Live'
  <2>1. Live
    BY <1>9
  <2>2. Ops' = Ops \ {o}
    BY <1>2, <2>1 DEF Ops, Live, Landed
  <2>3. /\ \A x : x \in Ranges' <=> x \in Ranges \ RangeOf(o)
        /\ RangeOf(o) \subseteq Ranges
    <3>1. \A a \in Ops : a # o => RangeOf(a) \cap RangeOf(o) = {}
      BY <1>3, <2>1 DEF Live, Geometry
    <3>2. Ranges' = UNION {RangeOf(a) : a \in Ops \ {o}}
      BY <2>2 DEF Ranges, RangeOf
    <3>3. \A x : x \in Ranges' <=> \E a \in Ops \ {o} : x \in RangeOf(a)
      BY <3>2
    <3> QED BY <1>3, <3>1, <3>3, RangesDef
  <2>4. Geometry'
    <3>1. /\ 0 .. next_off - 1 = stored \cup lost \cup Ranges
          /\ stored \cap Ranges = {} /\ lost \cap (stored \cup Ranges) = {}
      BY <2>1 DEF Live, Geometry
    <3>2. 0 .. next_off' - 1 = stored' \cup lost' \cup Ranges'
      <4>1. \A x : x \in 0 .. next_off - 1 <=> x \in stored' \cup lost' \cup Ranges'
        <5> HIDE DEF NewfileInv
        <5> QED BY <1>6, <2>3, <3>1
      <4> QED BY <1>2, <4>1
    <3>3. stored' \cap Ranges' = {} /\ lost' \cap (stored' \cup Ranges') = {}
      BY <1>6, <2>3, <3>1
    <3>4. \A a, b \in Ops' : a # b => RangeOf(a)' \cap RangeOf(b)' = {}
      BY <2>1, <2>2 DEF Live, Geometry, RangeOf
    <3> QED BY <3>2, <3>3, <3>4 DEF Geometry
  <2>5. o.off \notin stored \cup lost /\ stored \cap Covers(q) = {}
    BY <1>6, <2>1, <2>3 DEF Live, Geometry
  <2>6. q \notin Unseen
    BY <1>4, <2>1, <2>5 DEF Live, Landed
  <2>7. Landed'
    <3>1. ASSUME NEW c \in Unseen'
          PROVE  c.off \in stored' \cup lost' /\ Covers(c) \subseteq stored'
      <4>1. CASE c = q
        BY <1>4, <1>6, <4>1
      <4>2. CASE c \in Unseen
        BY <1>6, <2>1, <4>2 DEF Live, Landed
      <4> QED BY <1>5, <4>1, <4>2
    <3>2. ASSUME NEW c \in Unseen', NEW d \in Unseen', c # d
          PROVE  Covers(c) \cap Covers(d) = {}
      <4>1. CASE c \in Unseen /\ d \in Unseen
        BY <2>1, <3>2, <4>1 DEF Live, Landed
      <4>2. CASE c = q /\ d \in Unseen
        BY <2>1, <2>5, <4>2 DEF Live, Landed
      <4>3. CASE d = q /\ c \in Unseen
        BY <2>1, <2>5, <4>3 DEF Live, Landed
      <4> QED BY <1>5, <3>2, <4>1, <4>2, <4>3
    <3>3. sq' \cap kernel' = {} /\ cq' \cap batch' = {}
      BY <1>2, <1>4, <2>1, <2>6 DEF Live, Landed, Unseen
    <3> QED BY <3>1, <3>2, <3>3 DEF Landed, Covers
  <2>8. Counters'
    <3>1. q \notin cq
      BY <2>6 DEF Unseen
    <3>2. /\ IsFiniteSet(cq') /\ Cardinality(cq') = Cardinality(cq) + 1
          /\ IsFiniteSet(kernel') /\ Cardinality(kernel') = Cardinality(kernel) - 1
      BY <1>2, <1>4, <2>1, <3>1, FS_AddElement, FS_RemoveElement DEF Live, Counters
    <3>3. Cardinality(cq) \in Nat /\ Cardinality(kernel) \in Nat
      BY <2>1, FS_CardinalityType DEF Live, Counters
    <3> QED BY <1>2, <2>1, <3>2, <3>3 DEF Live, Counters, TypeInv
  <2>9. Counted' = Counted
    <3>1. Counted' = {x \in stored' : \A c \in Unseen \cup {q} : x \notin Covers(c)}
      BY <1>5 DEF Counted, Covers
    <3> QED BY <1>6, <2>5, <3>1 DEF Counted
  <2> QED BY <1>2, <2>1, <2>4, <2>7, <2>8, <2>9 DEF Live
<1> QED BY <1>2, <1>7, <1>8, <1>9

\* Every step of the writer and of the kernel preserves the invariant.
LEMMA NextInv == NewfileInv /\ [Next]_vars => NewfileInv'
<1> SUFFICES ASSUME NewfileInv, [Next]_vars PROVE NewfileInv'
  OBVIOUS
<1>1. CASE Pipeline
  BY <1>1, StillInv, ExitInv, QueueInv, SubmitInv, PeekInv, BatchDoneInv, ReapInv,
     ReapEndsInv, FinishInv
  DEF Pipeline
<1>2. CASE WaitFails \/ UNCHANGED vars
  BY <1>2, StillInv
<1>3. CASE \E o \in kernel : Complete(o)
  BY <1>3, CompleteInv
<1> QED BY <1>1, <1>2, <1>3 DEF Next, Terminated

\* The invariant holds throughout.
THEOREM NewfileInvariant == Spec => []NewfileInv
BY InitInv, NextInv, PTL DEF Spec

\* `pending` and `inflight` are exact and never exceed the queue depth.
THEOREM NewfilePacing == Spec => []PacingExact
<1>1. NewfileInv => PacingExact
  BY DEF NewfileInv, Live, Counters, PacingExact
<1> QED BY <1>1, NewfileInvariant, PTL

\* The bytes reported are the bytes in the file, also after short writes, and
\* total_bytes means a complete file.
THEOREM NewfileReturn == Spec => []ReturnTellsAll
<1>1. NewfileInv => ReturnTellsAll
  <2> SUFFICES ASSUME NewfileInv PROVE ReturnTellsAll
    OBVIOUS
  <2>1. ASSUME pc = "done", ret = "ok", written = total_bytes
        PROVE  stored = 0 .. total_bytes - 1
    <3>1. /\ total_bytes \in Nat /\ total_bytes = Cardinality(stored)
          /\ stored \in SUBSET (0 .. total_bytes - 1)
      BY <2>1 DEF NewfileInv, Told, TypeInv
    <3>2. /\ IsFiniteSet(0 .. total_bytes - 1)
          /\ Cardinality(0 .. total_bytes - 1) = total_bytes
      <4>1. 0 \in Nat /\ 0 + total_bytes - 1 = total_bytes - 1
        BY <3>1
      <4> QED BY <3>1, <4>1, RangeSize
    <3>3. Cardinality(0 .. total_bytes - 1) = Cardinality(stored)
      BY <3>1, <3>2
    <3> QED BY <3>1, <3>2, <3>3, FS_Subset
  <2> QED BY <2>1 DEF NewfileInv, Told, ReturnTellsAll
<1> QED BY <1>1, NewfileInvariant, PTL

\* With blocks within the cap, every byte below next_off is in exactly one
\* place and no write is longer than its buffer.
THEOREM NewfileNoGap ==
    ASSUME BlockSize <= BufferCap
    PROVE  Spec => []NoGapNoOverlap
<1> DEFINE Fit == /\ BlockSize <= max_buffer_size
                  /\ \A o \in Ops : o.len <= max_buffer_size
                  /\ pc = "setup" => Ops = {}
<1> USE NewfileAssumption
<1>1. Init => Fit
  BY DEF Init, Ops
<1>2. ASSUME NewfileInv, Fit, [Next]_vars PROVE Fit'
  <2>1. CASE Queue
    <3>1. PICK want \in Wants : sq' = sq \cup {WriteOp(want)} /\ UNCHANGED kernel
      BY <2>1 DEF Queue
    <3>2. WriteOp(want).len = want /\ Ops' = Ops \cup {WriteOp(want)}
      BY <3>1 DEF WriteOp, Ops
    <3>3. want <= max_buffer_size
      <4>1. PICK v \in Nat : v <= max_buffer_size /\ want = Lesser(v, total_bytes - next_off)
        BY <1>2 DEF Wants, NewfileInv, TypeInv
      <4> QED BY <1>2, <4>1 DEF Lesser, NewfileInv, TypeInv
    <3> QED BY <1>2, <2>1, <3>2, <3>3 DEF Queue
  <2>2. CASE Setup
    <3>1. Ops' = {}
      BY <1>2, <2>2 DEF Setup, Ops
    <3>2. BlockSize <= max_buffer_size'
      BY <2>2 DEF Setup, Lesser, Greater
    <3> QED BY <3>1, <3>2
  <2>3. CASE /\ Ops' \subseteq Ops /\ UNCHANGED max_buffer_size
             /\ pc' = "setup" => pc = "setup"
    BY <1>2, <2>3
  <2>4. \/ Queue \/ Setup
        \/ /\ Ops' \subseteq Ops /\ UNCHANGED max_buffer_size
           /\ pc' = "setup" => pc = "setup"
    BY <1>2 DEF Next, Pipeline, Terminated, vars, Ops, SetupFails, SubmitPending,
                SubmitFails, WaitFails, Peek, Reap, ReapError, ReapCancelled,
                BatchDone, Finish, Exit, Complete
  <2> QED BY <2>1, <2>2, <2>3, <2>4
<1>3. NewfileInv /\ Fit => NoGapNoOverlap
  BY DEF NewfileInv, Live, Geometry, NoGapNoOverlap
<1>4. NewfileInv /\ Fit /\ [Next]_vars => Fit'
  BY <1>2
<1> HIDE DEF Fit
<1> QED BY <1>1, <1>3, <1>4, NewfileInvariant, PTL DEF Spec

=============================================================================

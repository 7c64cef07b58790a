------------------------ MODULE WriteManyFilesProofs ------------------------
(***************************************************************************)
(* Proofs about WriteManyFiles, for every number and size of files, queue  *)
(* depth and block size, and with every fault.  The bytes of all files are *)
(* pairs <<file, offset>>; the inductive invariant follows each from being *)
(* handed out to being stored, or left out by a short write, and counted   *)
(* in `written`.                                                           *)
(***************************************************************************)
EXTENDS WriteManyFiles, FiniteSetTheorems, SequenceTheorems,
        WellFoundedInduction, TLAPS

\* A write stays within its file.
Op == {o \in [slot : Slots, file : Files, off : Nat, len : Nat \ {0}] :
          o.off + o.len <= PerFile}

Unseen == cq \cup batch
Answered == {c.of : c \in Unseen}
Items == Ops \cup Answered

\* All bytes; those of a write; the part of them a completion stored; those
\* handed out; those stored; those short writes left out; those stored whose
\* completion was counted.
Grid == Files \X (0 .. PerFile - 1)
Bytes(o) == {o.file} \X (o.off .. o.off + o.len - 1)
Part(c) == {c.of.file} \X (c.of.off .. c.of.off + c.res - 1)
Handed == {p \in Grid : p[2] < file_off[p[1]]}
Done == {p \in Grid : p[2] \in stored[p[1]]}
Lost == {p \in Grid : p[2] \in lost[p[1]]}
Over == Done \cup Lost
Counted == {p \in Done : \A c \in Unseen : c.res >= 0 => p \notin Bytes(c.of)}

-----------------------------------------------------------------------------
(* The inductive invariant *)

TypeInv ==
    /\ pc \in {"setup", "fill", "submit", "wait", "reap", "end", "out", "done"}
    /\ file_off \in [Files -> 0 .. PerFile]
    /\ file_done \subseteq Files /\ \A f \in file_done : file_off[f] = PerFile
    /\ free_slots \in Seq(Slots)
    /\ inflight \in Int /\ written \in Nat /\ rr \in Nat
    /\ Ops \subseteq Op
    /\ \A c \in Unseen : /\ c.of \in Op /\ c.slot = c.of.slot
                         /\ c.res \in -1 .. c.of.len
    /\ stored \in [Files -> SUBSET (0 .. PerFile - 1)]
    /\ lost \in [Files -> SUBSET (0 .. PerFile - 1)]
    /\ "short" \notin Faults => \A f \in Files : lost[f] = {}

\* Every write is in one place, and every slot on the stack or with a write.
Places ==
    /\ sq \cap kernel = {} /\ cq \cap batch = {} /\ Ops \cap Answered = {}
    /\ \A c, d \in Unseen : c.of = d.of => c = d
    /\ pc # "reap" => batch = {}

SlotsLive ==
    /\ \A i, j \in 1 .. Len(free_slots) : free_slots[i] = free_slots[j] => i = j
    /\ inflight + Len(free_slots) = QD
    /\ \A o, p \in Items : o.slot = p.slot => o = p
    /\ \A s \in Slots : (\E i \in 1 .. Len(free_slots) : free_slots[i] = s)
                          <=> ~ \E o \in Items : o.slot = s

\* A byte handed out is with one write, stored, or left out by a short write,
\* unless its write failed.
BytesLive ==
    /\ Over \subseteq Handed /\ Done \cap Lost = {}
    /\ \A o \in Items : Bytes(o) \subseteq Handed
    /\ \A o, p \in Items : o # p => Bytes(o) \cap Bytes(p) = {}
    /\ \A o \in Ops : Bytes(o) \cap Over = {}
    /\ \A c \in Unseen : c.res >= 0 => /\ Bytes(c.of) \subseteq Over
                                       /\ Bytes(c.of) \cap Done = Part(c)
    /\ (\A c \in Unseen : c.res >= 0) =>
          \A p \in Handed : p \in Over \/ \E o \in Ops : p \in Bytes(o)

Live == Places /\ SlotsLive /\ BytesLive /\ written = Cardinality(Counted)

ManyInv == TypeInv /\ (Running => Live)

\* The blocks of a file.  The scan counter, which counts blocks, does not wrap
\* before the last one, or it wraps to a multiple of the number of files.
Blocks == (PerFile + BlockSize - 1) \div BlockSize
NoWrap == NFiles * Blocks <= RrMod
WholeScan == NoWrap \/ RrMod % NFiles = 0

\* How far a file is after j of its blocks.
Upto(j) == Min({PerFile, j * BlockSize})

\* The files fill up level by level: m blocks of each are handed out, and the
\* next one of those before file i, the file the scan tries first.
LevelAt(m, i) ==
    /\ m * BlockSize < PerFile
    /\ rr % NFiles = i
    /\ NoWrap => rr = NFiles * m + i
    /\ \A g \in Files : file_off[g] = IF g < i THEN Upto(m + 1) ELSE m * BlockSize

Level ==
    /\ \A g \in Files : g \in file_done <=> file_off[g] = PerFile
    /\ file_done # Files => \E m \in Nat, i \in Files : LevelAt(m, i)

\* What the end of the call rests on: with nothing in flight after a fill,
\* every file was handed out.
Drained ==
    (pc = "submit" /\ inflight = 0) => \A f \in Files : file_off[f] = PerFile
Settled ==
    (pc = "end" \/ (~Running /\ ret = "ok")) =>
        Over = Grid /\ Done \cap Lost = {} /\ written = Cardinality(Done) /\ kernel = {}

EndInv == Level /\ Drained /\ Settled

-----------------------------------------------------------------------------
(* Files, offsets and slots *)

\* The parameters are positive; files and slots are initial segments.
LEMMA Params ==
    /\ NFiles \in Nat \ {0} /\ PerFile \in Nat \ {0} /\ BlockSize \in Nat \ {0}
    /\ QD \in Nat \ {0} /\ RrMod \in Nat \ {0}
    /\ Files = 0 .. NFiles - 1 /\ Slots = 0 .. QD - 1
    /\ IsFiniteSet(Files) /\ Cardinality(Files) = NFiles
    /\ IsFiniteSet(Slots) /\ Cardinality(Slots) = QD
<1>1. /\ NFiles \in Nat \ {0} /\ PerFile \in Nat \ {0} /\ BlockSize \in Nat \ {0}
      /\ QD \in Nat \ {0} /\ RrMod \in Nat \ {0}
  BY ManyFilesAssumption
<1>2. 0 \in Int /\ NFiles - 1 \in Int /\ QD - 1 \in Int
  BY <1>1
<1>3. /\ IsFiniteSet(0 .. NFiles - 1)
      /\ Cardinality(0 .. NFiles - 1) =
           IF 0 > NFiles - 1 THEN 0 ELSE (NFiles - 1) - 0 + 1
  BY <1>2, FS_Interval
<1>4. /\ IsFiniteSet(0 .. QD - 1)
      /\ Cardinality(0 .. QD - 1) = IF 0 > QD - 1 THEN 0 ELSE (QD - 1) - 0 + 1
  BY <1>2, FS_Interval
<1> QED BY <1>1, <1>3, <1>4 DEF Files, Slots

\* There are NFiles * PerFile bytes.
LEMMA GridSize == IsFiniteSet(Grid) /\ Cardinality(Grid) = Total /\ Total \in Nat
<1>1. 0 \in Int /\ PerFile - 1 \in Int /\ ~(0 > PerFile - 1)
      /\ (PerFile - 1) - 0 + 1 = PerFile
  BY Params
<1>2. /\ IsFiniteSet(0 .. PerFile - 1)
      /\ Cardinality(0 .. PerFile - 1) =
           IF 0 > PerFile - 1 THEN 0 ELSE (PerFile - 1) - 0 + 1
  BY <1>1, FS_Interval
<1>3. IsFiniteSet(Grid) /\ Cardinality(Grid) = NFiles * PerFile
  <2>1. Cardinality(0 .. PerFile - 1) = PerFile
    BY <1>1, <1>2
  <2>2. /\ IsFiniteSet(Files \X (0 .. PerFile - 1))
        /\ Cardinality(Files \X (0 .. PerFile - 1)) =
             Cardinality(Files) * Cardinality(0 .. PerFile - 1)
    BY <1>2, Params, FS_Product
  <2>3. Cardinality(Files) = NFiles
    BY Params
  <2> QED BY <2>1, <2>2, <2>3 DEF Grid
<1> QED BY <1>3, Params DEF Total

\* The part of a write that its completion stored.
LEMMA PartOf ==
    ASSUME NEW c, c.of \in Op, c.res \in 0 .. c.of.len
    PROVE  /\ Part(c) \subseteq Bytes(c.of)
           /\ IsFiniteSet(Part(c)) /\ Cardinality(Part(c)) = c.res
<1>1. c.of.file \in Files /\ c.of.off \in Nat /\ c.of.len \in Nat \ {0}
  BY DEF Op
<1>2. PICK a \in Nat, n \in Nat : a = c.of.off /\ n = c.res
  BY <1>1
<1>3. /\ IsFiniteSet(a .. a + n - 1)
      /\ Cardinality(a .. a + n - 1) = IF a > a + n - 1 THEN 0 ELSE (a + n - 1) - a + 1
  <2>1. a \in Int /\ a + n - 1 \in Int
    OBVIOUS
  <2> QED BY <2>1, FS_Interval
<1>4. Cardinality(a .. a + n - 1) = n
  BY <1>3
<1>5. IsFiniteSet({c.of.file}) /\ Cardinality({c.of.file}) = 1
  BY FS_Singleton
<1>6. /\ IsFiniteSet({c.of.file} \X (a .. a + n - 1))
      /\ Cardinality({c.of.file} \X (a .. a + n - 1)) =
           Cardinality({c.of.file}) * Cardinality(a .. a + n - 1)
  BY <1>3, <1>5, FS_Product
<1>7. IsFiniteSet(Part(c)) /\ Cardinality(Part(c)) = 1 * n
  BY <1>2, <1>4, <1>5, <1>6 DEF Part
<1>8. c.of.off .. c.of.off + c.res - 1 \subseteq c.of.off .. c.of.off + c.of.len - 1
  BY <1>1
<1>9. Part(c) \subseteq Bytes(c.of)
  BY <1>8 DEF Part, Bytes
<1> QED BY <1>2, <1>7, <1>9

\* The scan names files.
LEMMA IdxIn ==
    ASSUME rr \in Nat, NEW k \in Nat
    PROVE  Idx(k) \in Files
<1>1. \A a \in Nat : \A n \in Nat \ {0} : a % n \in 0 .. n - 1
  OBVIOUS
<1>2. (rr + k) % RrMod \in Nat
  BY <1>1, Params
<1> QED BY <1>1, <1>2, Params DEF Idx

\* A set of naturals has a least element.
LEMMA LeastIs ==
    ASSUME NEW S \in SUBSET Nat, S # {}
    PROVE  Min(S) \in S /\ \A y \in S : Min(S) <= y
<1>1. PICK x \in S : \A y \in S : ~(<<y, x>> \in OpToRel(<, Nat))
  BY NatLessThanWellFounded, WFMin
<1>2. \A y \in S : ~(y < x)
  <2> TAKE y \in S
  <2>1. <<y, x>> \in Nat \X Nat /\ <<y, x>>[1] = y /\ <<y, x>>[2] = x
    OBVIOUS
  <2>2. <<y, x>> \notin {ss \in Nat \X Nat : ss[1] < ss[2]}
    BY <1>1, Zenon DEF OpToRel
  <2> QED BY <2>1, <2>2
<1>3. \A y \in S : x <= y
  BY <1>2
<1> QED BY <1>3 DEF Min

\* The length of a block: BlockSize or what is left of the file.
LEMMA LesserIs ==
    ASSUME NEW a \in Nat, NEW b \in Nat
    PROVE  /\ Min({a, b}) \in Nat /\ Min({a, b}) <= a /\ Min({a, b}) <= b
           /\ Min({a, b}) \in {a, b}
<1>1. {a, b} \in SUBSET Nat /\ {a, b} # {}
  OBVIOUS
<1>2. Min({a, b}) \in {a, b} /\ \A y \in {a, b} : Min({a, b}) <= y
  BY <1>1, LeastIs
<1> QED BY <1>2

\* A set of writes with slots of their own has as many slots as members.
LEMMA SlotCount ==
    ASSUME NEW S, NEW g \in [S -> Slots],
           \A x, y \in S : g[x] = g[y] => x = y
    PROVE  /\ IsFiniteSet(S)
           /\ IsFiniteSet({g[x] : x \in S})
           /\ Cardinality({g[x] : x \in S}) = Cardinality(S)
<1> DEFINE R == {g[x] : x \in S}
<1>1. g \in Injection(S, Slots)
  BY DEF Injection, IsInjective
<1>2. IsFiniteSet(S)
  BY <1>1, Params, FS_Injection
<1>3. g \in Bijection(S, R)
  BY DEF Bijection, Injection, Surjection, IsInjective
<1> QED BY <1>2, <1>3, FS_Bijection DEF ExistsBijection

\* The slots in use and the stack add up to QD, and the writes to the slots
\* in use.
LEMMA SlotsAddUp ==
    ASSUME TypeInv, Places, SlotsLive
    PROVE  LET used == {o.slot : o \in Ops} \cup {c.slot : c \in Unseen}
               free == {free_slots[i] : i \in 1 .. Len(free_slots)}
           IN  /\ Cardinality(free) = Len(free_slots)
               /\ used \cap free = {} /\ used \cup free = Slots
               /\ Cardinality(used) = Cardinality(Ops) + Cardinality(Unseen)
               /\ inflight = Cardinality(used)
               /\ IsFiniteSet(Ops) /\ IsFiniteSet(Unseen)
<1> DEFINE g == [o \in Ops |-> o.slot]
           h == [c \in Unseen |-> c.slot]
           A == {o.slot : o \in Ops}
           B == {c.slot : c \in Unseen}
           F == {free_slots[i] : i \in 1 .. Len(free_slots)}
<1>1. Len(free_slots) \in Nat /\ free_slots \in [1 .. Len(free_slots) -> Slots]
  BY DEF TypeInv
<1>2. /\ IsFiniteSet(F) /\ Cardinality(F) = Cardinality(1 .. Len(free_slots))
  <2>1. \A i, j \in 1 .. Len(free_slots) : free_slots[i] = free_slots[j] => i = j
    BY DEF SlotsLive
  <2> QED BY <2>1, <1>1, SlotCount
<1>3. Cardinality(1 .. Len(free_slots)) = Len(free_slots)
  <2>1. 1 \in Int /\ Len(free_slots) \in Int
    BY <1>1
  <2>2. Cardinality(1 .. Len(free_slots)) =
           IF 1 > Len(free_slots) THEN 0 ELSE Len(free_slots) - 1 + 1
    BY <2>1, FS_Interval
  <2> QED BY <2>2, <1>1
<1>4. /\ \A o \in Ops : o \in Op /\ o \in Items /\ o.slot \in Slots
      /\ \A c \in Unseen : c.of \in Op /\ c.of \in Items /\ c.slot = c.of.slot
                           /\ c.slot \in Slots
  BY DEF TypeInv, Items, Answered, Op
<1>5. /\ g \in [Ops -> Slots] /\ \A x, y \in Ops : g[x] = g[y] => x = y
      /\ h \in [Unseen -> Slots] /\ \A x, y \in Unseen : h[x] = h[y] => x = y
  BY <1>4 DEF SlotsLive, Places
<1>6. /\ IsFiniteSet(Ops) /\ IsFiniteSet({g[x] : x \in Ops})
      /\ Cardinality({g[x] : x \in Ops}) = Cardinality(Ops)
  <2> HIDE DEF g
  <2> QED BY <1>5, SlotCount
<1>7. /\ IsFiniteSet(Unseen) /\ IsFiniteSet({h[x] : x \in Unseen})
      /\ Cardinality({h[x] : x \in Unseen}) = Cardinality(Unseen)
  <2> HIDE DEF h
  <2> QED BY <1>5, SlotCount
<1>8. A = {g[x] : x \in Ops} /\ B = {h[x] : x \in Unseen}
  OBVIOUS
<1>9. A \cap B = {}
  BY <1>4 DEF SlotsLive, Places, Answered
<1>10. /\ (A \cup B) \cap F = {}
       /\ (A \cup B) \cup F = Slots
  <2>1. \A o \in Items : o.slot \in A \cup B /\ o.slot \in Slots
    BY <1>4 DEF Items, Answered
  <2>2. \A s \in A \cup B : s \in Slots /\ \E o \in Items : o.slot = s
    BY <1>4 DEF Items, Answered
  <2>3. \A s : s \in F <=> \E i \in 1 .. Len(free_slots) : free_slots[i] = s
    OBVIOUS
  <2>4. F \subseteq Slots
    BY <1>1
  <2>5. \A s \in Slots : s \in F <=> ~ \E o \in Items : o.slot = s
    BY <2>3 DEF SlotsLive
  <2> HIDE DEF A, B, F
  <2>6. \A s \in A \cup B : s \notin F
    BY <2>2, <2>5
  <2>7. \A s \in Slots : s \in A \cup B \/ s \in F
    BY <2>1, <2>5
  <2>8. A \cup B \subseteq Slots
    BY <2>2
  <2> QED BY <2>4, <2>6, <2>7, <2>8
<1>11. Cardinality(A \cup B) = Cardinality(Ops) + Cardinality(Unseen)
       /\ IsFiniteSet(A \cup B)
  <2>1. IsFiniteSet(A) /\ IsFiniteSet(B) /\ Cardinality(A) = Cardinality(Ops)
        /\ Cardinality(B) = Cardinality(Unseen)
    BY <1>6, <1>7, <1>8
  <2> HIDE DEF A, B
  <2>2. Cardinality(A) \in Nat /\ Cardinality(B) \in Nat /\ Cardinality({}) = 0
    BY <2>1, FS_CardinalityType, FS_EmptySet
  <2>3. /\ IsFiniteSet(A \cup B)
        /\ Cardinality(A \cup B) = Cardinality(A) + Cardinality(B)
                                     - Cardinality(A \cap B)
    BY <2>1, FS_Union
  <2>4. Cardinality(A \cap B) = 0
    BY <2>2, <1>9
  <2> QED BY <2>1, <2>2, <2>3, <2>4
<1>12. Cardinality(A \cup B) + Cardinality(F) = QD
  <2>1. PICK U : U = A \cup B
    OBVIOUS
  <2>2. Cardinality(U \cup F) = Cardinality(U) + Cardinality(F) - Cardinality(U \cap F)
    BY <2>1, <1>2, <1>11, FS_Union
  <2>3. U \cap F = {} /\ U \cup F = Slots
    BY <2>1, <1>10
  <2>4. Cardinality(Slots) = QD /\ Cardinality({}) = 0
        /\ Cardinality(U) \in Nat /\ Cardinality(F) \in Nat
    BY <2>1, <1>2, <1>11, Params, FS_EmptySet, FS_CardinalityType
  <2> HIDE DEF A, B, F
  <2>5. Cardinality(U \cap F) = 0 /\ Cardinality(U \cup F) = QD
    BY <2>3, <2>4
  <2>6. Cardinality(U) + Cardinality(F) = QD
    BY <2>2, <2>4, <2>5, Params
  <2> QED BY <2>1, <2>6
<1>13. inflight = Cardinality(A \cup B)
  <2>1. inflight + Len(free_slots) = QD /\ inflight \in Int
    BY DEF SlotsLive, TypeInv
  <2>2. Cardinality(A \cup B) \in Nat
    BY <1>11, FS_CardinalityType
  <2> HIDE DEF A, B, F
  <2> QED BY <2>1, <2>2, <1>1, <1>2, <1>3, <1>12
<1> QED BY <1>2, <1>3, <1>6, <1>7, <1>10, <1>11, <1>13

\* A free slot leaves room in the ring: get_sqe does not fail.
LEMMA RingHasRoom ==
    ASSUME TypeInv, Places, SlotsLive, free_slots # <<>>
    PROVE  ~SqFull
<1>1. Len(free_slots) \in Nat \ {0}
  BY EmptySeq DEF TypeInv
<1>2. /\ inflight = Cardinality(Ops) + Cardinality(Unseen)
      /\ IsFiniteSet(Ops) /\ IsFiniteSet(Unseen)
  BY SlotsAddUp
<1>3. sq \in SUBSET Ops
  BY DEF Ops
<1>4. IsFiniteSet(sq) /\ Cardinality(sq) <= Cardinality(Ops)
  BY <1>2, <1>3, FS_Subset
<1>5. Cardinality(sq) \in Nat /\ Cardinality(Ops) \in Nat /\ Cardinality(Unseen) \in Nat
  BY <1>2, <1>4, FS_CardinalityType
<1>6. inflight + Len(free_slots) = QD
  BY DEF SlotsLive
<1>7. Cardinality(sq) < QD
  BY <1>1, <1>2, <1>4, <1>5, <1>6, Params
<1> QED BY <1>5, <1>7, Params DEF SqFull

\* Nothing is in flight when inflight is zero.
LEMMA NothingInFlight ==
    ASSUME TypeInv, Places, SlotsLive, inflight = 0
    PROVE  Ops = {} /\ Unseen = {} /\ Items = {}
<1>1. /\ inflight = Cardinality(Ops) + Cardinality(Unseen)
      /\ IsFiniteSet(Ops) /\ IsFiniteSet(Unseen)
  BY SlotsAddUp
<1>2. Cardinality(Ops) \in Nat /\ Cardinality(Unseen) \in Nat
  BY <1>1, FS_CardinalityType
<1>3. \A a, b \in Nat : 0 = a + b => a = 0 /\ b = 0
  OBVIOUS
<1>4. Cardinality(Ops) = 0 /\ Cardinality(Unseen) = 0
  BY <1>1, <1>2, <1>3
<1>5. Ops = {} /\ Unseen = {}
  BY <1>1, <1>4, FS_EmptySet
<1> QED BY <1>5 DEF Items, Answered

-----------------------------------------------------------------------------
(* Handing out a block *)

\* What a turn of the enqueueing loop does, with the write n it prepares.
Prepared(n) ==
    /\ n.slot = free_slots[Len(free_slots)] /\ free_slots # <<>>
    /\ n.file \notin file_done
    /\ n.off = file_off[n.file] /\ n.off + n.len <= PerFile
    /\ n.len = Min({BlockSize, PerFile - n.off})
    /\ file_off' = [file_off EXCEPT ![n.file] = n.off + n.len]
    /\ file_done \subseteq file_done' /\ file_done' \subseteq Files
    /\ \A f \in file_done' : file_off'[f] >= PerFile
    /\ sq' = sq \cup {n}
    /\ inflight' = inflight + 1
    /\ free_slots' = Pop
    /\ \E k \in 0 .. NFiles - 1 :
          /\ n.file = Idx(k) /\ \A j \in Hits : k <= j
          /\ rr' = (rr + k + 1) % RrMod
          /\ file_done' = file_done \cup {g \in Scanned(k) : file_off'[g] >= PerFile}
    /\ pc = "fill"
    /\ UNCHANGED <<pc, written, ret, kernel, cq, batch, stored, lost>>

\* Enqueue always obtains its SQE.
LEMMA EnqueueIs ==
    ASSUME TypeInv, Places, SlotsLive, Enqueue
    PROVE  \E n \in Op : Prepared(n)
<1>1. ~SqFull /\ free_slots # <<>>
  BY RingHasRoom DEF Enqueue, CanEnqueue
<1>2. PICK k \in Hits : k = Min(Hits) /\ \A j \in Hits : k <= j
  <2>1. Hits \in SUBSET Nat /\ Hits # {}
    BY Params DEF Hits, Enqueue
  <2> QED BY <2>1, LeastIs
<1>3. k \in 0 .. NFiles - 1 /\ k \in Nat
  BY <1>2, Params DEF Hits
<1>4. PICK f \in Files : f = Idx(k)
  BY <1>3, IdxIn DEF TypeInv
<1>5. f \notin file_done /\ file_off[f] < PerFile
  BY <1>2, <1>4 DEF Hits
<1>6. PICK off \in Nat : off = file_off[f]
  BY Params DEF TypeInv
<1>7. off < PerFile /\ PerFile - off \in Nat \ {0} /\ BlockSize \in Nat \ {0}
  BY <1>5, <1>6, Params
<1>8. PICK len \in Nat \ {0} : len = Min({BlockSize, PerFile - off})
  BY <1>7, LesserIs
<1>9. len <= PerFile - off
  BY <1>7, <1>8, LesserIs
<1>10. off + len <= PerFile
  BY <1>7, <1>9, Params
<1>11. PICK slot \in Slots : slot = free_slots[Len(free_slots)]
  BY <1>1, EmptySeq, ElementOfSeq DEF TypeInv
<1>12. PICK n \in Op : n = [slot |-> slot, file |-> f, off |-> off, len |-> len]
  BY <1>10 DEF Op
<1>13. n.slot = slot /\ n.file = f /\ n.off = off /\ n.len = len
  BY <1>12
<1>14. /\ rr' = (rr + k + 1) % RrMod
       /\ file_off' = [file_off EXCEPT ![f] = off + len]
       /\ file_done' = file_done \cup {g \in Scanned(k) : file_off'[g] >= PerFile}
       /\ sq' = sq \cup {n} /\ inflight' = inflight + 1
       /\ free_slots' = Pop /\ pc = "fill"
       /\ UNCHANGED <<pc, written, ret, kernel, cq, batch, stored, lost>>
  BY <1>1, <1>2, <1>4, <1>6, <1>8, <1>11, <1>12 DEF Enqueue
<1>15. Scanned(k) \subseteq Files
  <2>1. \A j \in 0 .. k : j \in Nat
    BY <1>3
  <2>2. \A j \in Nat : Idx(j) \in Files
    BY IdxIn DEF TypeInv
  <2> QED BY <2>1, <2>2 DEF Scanned
<1>16. \A g \in file_done' : file_off'[g] >= PerFile
  <2> SUFFICES ASSUME NEW g \in file_done PROVE file_off'[g] >= PerFile
    BY <1>14
  <2>1. g # f /\ g \in Files /\ file_off[g] = PerFile
    BY <1>5 DEF TypeInv
  <2>2. file_off'[g] = file_off[g]
    BY <2>1, <1>14 DEF TypeInv
  <2> QED BY <2>1, <2>2, Params
<1>17. file_done \subseteq file_done' /\ file_done' \subseteq Files
  BY <1>14, <1>15 DEF TypeInv
<1> QED BY <1>1, <1>2, <1>3, <1>4, <1>5, <1>6, <1>8, <1>10, <1>11, <1>13, <1>14,
         <1>16, <1>17 DEF Prepared

\* The bytes of the new write were not handed out before, and are now.
LEMMA HandedGrows ==
    ASSUME TypeInv, NEW n \in Op, Prepared(n)
    PROVE  /\ Bytes(n) \subseteq Grid
           /\ Bytes(n) \cap Handed = {}
           /\ Handed' = Handed \cup Bytes(n)
           /\ file_off' \in [Files -> 0 .. PerFile]
<1>1. /\ n.file \in Files /\ n.off \in Nat /\ n.len \in Nat \ {0}
      /\ n.off = file_off[n.file] /\ n.off + n.len <= PerFile
      /\ file_off' = [file_off EXCEPT ![n.file] = n.off + n.len]
      /\ file_off \in [Files -> 0 .. PerFile]
  BY DEF Prepared, Op, TypeInv
<1>2. n.off + n.len \in 0 .. PerFile
  BY <1>1, Params
<1>3. /\ file_off' \in [Files -> 0 .. PerFile]
      /\ \A g \in Files : file_off'[g] = IF g = n.file THEN n.off + n.len
                                         ELSE file_off[g]
  BY <1>1, <1>2
<1>4. n.off .. n.off + n.len - 1 \subseteq 0 .. PerFile - 1
  BY <1>1, Params
<1>5. Bytes(n) \subseteq Grid
  BY <1>1, <1>4 DEF Bytes, Grid
<1>6. \A p \in Bytes(n) : p[1] = n.file /\ p[2] \in n.off .. n.off + n.len - 1
  BY DEF Bytes
<1>7. \A p \in Bytes(n) : ~(p[2] < file_off[p[1]]) /\ p[2] < file_off'[p[1]]
  BY <1>1, <1>3, <1>6
<1>8. Bytes(n) \cap Handed = {}
  BY <1>7 DEF Handed
<1>9. \A p \in Grid : p[1] \in Files /\ p[2] \in 0 .. PerFile - 1 /\ p = <<p[1], p[2]>>
  BY DEF Grid
<1>10. ASSUME NEW p \in Grid
       PROVE  p[2] < file_off'[p[1]] <=> p[2] < file_off[p[1]] \/ p \in Bytes(n)
  <2>1. p[1] \in Files /\ p[2] \in Nat /\ p = <<p[1], p[2]>>
        /\ file_off[p[1]] \in Nat
    BY <1>1, <1>9, Params
  <2>2. CASE p[1] # n.file
    BY <2>1, <2>2, <1>3, <1>6
  <2>3. CASE p[1] = n.file
    <3>1. p \in Bytes(n) <=> p[2] \in n.off .. n.off + n.len - 1
      BY <2>1, <2>3 DEF Bytes
    <3>2. p[2] < n.off + n.len <=> p[2] < n.off \/ p[2] \in n.off .. n.off + n.len - 1
      BY <2>1, <1>1
    <3> QED BY <3>1, <3>2, <2>1, <2>3, <1>1, <1>3
  <2> QED BY <2>2, <2>3
<1>11. Handed' = {p \in Grid : p[2] < file_off'[p[1]]}
  BY DEF Handed, Grid
<1>12. Handed' = Handed \cup Bytes(n)
  BY <1>5, <1>10, <1>11 DEF Handed
<1> QED BY <1>3, <1>5, <1>8, <1>12

-----------------------------------------------------------------------------
(* The steps of the writer and of the kernel *)

\* A step that moves no write between prepared or submitted and completed,
\* and leaves the counts alone.
LEMMA LiveSame ==
    ASSUME Live, Ops' = Ops, Unseen' = Unseen,
           UNCHANGED <<file_off, stored, lost, free_slots, inflight, written>>,
           sq' \cap kernel' = {}, cq' \cap batch' = {},
           pc' # "reap" => batch' = {}
    PROVE  Live'
<1>1. Answered' = Answered /\ Items' = Items
  BY DEF Answered, Items
<1>2. Handed' = Handed /\ Done' = Done /\ Lost' = Lost /\ Over' = Over
  BY DEF Handed, Done, Lost, Over, Grid
<1>3. Counted' = Counted
  BY <1>2 DEF Counted
<1>4. Places'
  BY <1>1 DEF Live, Places
<1>5. SlotsLive'
  BY <1>1 DEF Live, SlotsLive
<1>6. BytesLive'
  BY <1>1, <1>2 DEF Live, BytesLive
<1> QED BY <1>3, <1>4, <1>5, <1>6 DEF Live

\* A write prepared: it takes the top slot and the next bytes of its file.
LEMMA PreparedLive ==
    ASSUME TypeInv, Live, NEW n \in Op, Prepared(n)
    PROVE  TypeInv' /\ Live'
<1>1. /\ Bytes(n) \subseteq Grid /\ Bytes(n) \cap Handed = {}
      /\ Handed' = Handed \cup Bytes(n)
      /\ file_off' \in [Files -> 0 .. PerFile]
  BY HandedGrows
<1>2. /\ sq' = sq \cup {n} /\ inflight' = inflight + 1 /\ free_slots' = Pop
      /\ UNCHANGED <<pc, written, ret, kernel, cq, batch, stored, lost>>
      /\ pc = "fill" /\ n.slot = free_slots[Len(free_slots)] /\ free_slots # <<>>
  BY DEF Prepared
<1>3. Len(free_slots) \in Nat \ {0} /\ free_slots \in [1 .. Len(free_slots) -> Slots]
  BY <1>2, EmptySeq DEF TypeInv
<1>4. /\ Pop \in Seq(Slots) /\ Len(Pop) = Len(free_slots) - 1
      /\ \A i \in 1 .. Len(free_slots) - 1 : Pop[i] = free_slots[i]
  BY <1>3 DEF Pop, TypeInv
<1>5. Ops' = Ops \cup {n} /\ Unseen' = Unseen /\ Answered' = Answered
  BY <1>2 DEF Ops, Unseen, Answered
<1>6. Items' = Items \cup {n}
  BY <1>5 DEF Items
<1>7. Done' = Done /\ Lost' = Lost /\ Over' = Over /\ Counted' = Counted
  <2>1. Done' = Done /\ Lost' = Lost /\ Over' = Over
    BY <1>2 DEF Done, Lost, Over, Grid
  <2> QED BY <2>1, <1>5 DEF Counted
<1>8. \A o \in Items : o.slot # n.slot /\ o # n
  <2>1. n.slot \in Slots /\ \E i \in 1 .. Len(free_slots) : free_slots[i] = n.slot
    BY <1>2, <1>3 DEF Op
  <2> QED BY <2>1 DEF Live, SlotsLive
<1>9. TypeInv'
  <2>1. \A f \in file_done' : file_off'[f] = PerFile
    <3> TAKE f \in file_done'
    <3>1. f \in Files /\ file_off'[f] >= PerFile
      BY DEF Prepared
    <3>2. file_off'[f] \in 0 .. PerFile
      BY <1>1, <3>1
    <3> QED BY <3>1, <3>2, Params
  <2>2. /\ pc' \in {"setup", "fill", "submit", "wait", "reap", "end", "out", "done"}
        /\ stored' \in [Files -> SUBSET (0 .. PerFile - 1)]
        /\ lost' \in [Files -> SUBSET (0 .. PerFile - 1)]
        /\ "short" \notin Faults => \A f \in Files : lost'[f] = {}
        /\ written' \in Nat /\ inflight' \in Int
    BY <1>2 DEF TypeInv
  <2>3. rr' \in Nat
    <3>1. PICK k \in 0 .. NFiles - 1 : rr' = (rr + k + 1) % RrMod
      BY DEF Prepared
    <3>2. \A a \in Nat : \A m \in Nat \ {0} : a % m \in Nat
      OBVIOUS
    <3>3. rr + k + 1 \in Nat
      BY Params DEF TypeInv
    <3> QED BY <3>1, <3>2, <3>3, Params
  <2>4. Ops' \subseteq Op
    BY <1>5 DEF TypeInv
  <2>5. \A c \in Unseen' : c.of \in Op /\ c.slot = c.of.slot /\ c.res \in -1 .. c.of.len
    BY <1>5 DEF TypeInv
  <2>6. file_done' \subseteq Files
    BY DEF Prepared
  <2> QED BY <1>1, <1>2, <1>4, <2>1, <2>2, <2>3, <2>4, <2>5, <2>6 DEF TypeInv
<1>10. Places'
  <2>1. n \notin Ops /\ n \notin Answered
    BY <1>8 DEF Items
  <2> QED BY <2>1, <1>2, <1>5 DEF Live, Places, Ops
<1>11. SlotsLive'
  <2>1. \A i, j \in 1 .. Len(free_slots') : free_slots'[i] = free_slots'[j] => i = j
    BY <1>2, <1>3, <1>4 DEF Live, SlotsLive
  <2>2. inflight' + Len(free_slots') = QD
    BY <1>2, <1>3, <1>4, Params DEF Live, SlotsLive, TypeInv
  <2>3. \A o, p \in Items' : o.slot = p.slot => o = p
    BY <1>6, <1>8 DEF Live, SlotsLive
  <2>4. ASSUME NEW s \in Slots
        PROVE  (\E i \in 1 .. Len(free_slots') : free_slots'[i] = s)
                 <=> (s # n.slot /\ \E i \in 1 .. Len(free_slots) : free_slots[i] = s)
    <3>0. \A m \in Nat \ {0} :
             /\ m \in 1 .. m
             /\ \A i \in 1 .. m - 1 : i \in 1 .. m /\ i # m
             /\ \A i \in 1 .. m : i = m \/ i \in 1 .. m - 1
      OBVIOUS
    <3>1. \A i \in 1 .. Len(free_slots) - 1 : i \in 1 .. Len(free_slots)
                                              /\ i # Len(free_slots)
      BY <3>0, <1>3, Zenon
    <3>2. \A i \in 1 .. Len(free_slots) :
             i = Len(free_slots) \/ i \in 1 .. Len(free_slots) - 1
      BY <3>0, <1>3, Zenon
    <3>3. Len(free_slots) \in 1 .. Len(free_slots)
      BY <3>0, <1>3, Zenon
    <3>4. \A i \in 1 .. Len(free_slots) - 1 : free_slots[i] # n.slot
      BY <3>1, <3>3, <1>2 DEF Live, SlotsLive
    <3> QED BY <3>1, <3>2, <3>4, <1>2, <1>4
  <2>5. \A s \in Slots : (\E i \in 1 .. Len(free_slots') : free_slots'[i] = s)
                           <=> ~ \E o \in Items' : o.slot = s
    BY <2>4, <1>6 DEF Live, SlotsLive
  <2> QED BY <2>1, <2>2, <2>3, <2>5 DEF SlotsLive
<1>12. BytesLive'
  <2>1. \A o \in Items : Bytes(o) \cap Bytes(n) = {}
    BY <1>1 DEF Live, BytesLive
  <2>2. Bytes(n) \cap Over = {}
    BY <1>1 DEF Live, BytesLive
  <2>3. \A o, p \in Items' : o # p => Bytes(o) \cap Bytes(p) = {}
    BY <2>1, <1>6 DEF Live, BytesLive
  <2>4. /\ Over' \subseteq Handed' /\ Done' \cap Lost' = {}
        /\ \A o \in Items' : Bytes(o) \subseteq Handed'
    BY <1>1, <1>6, <1>7 DEF Live, BytesLive
  <2>5. /\ \A o \in Ops' : Bytes(o) \cap Over' = {}
        /\ \A c \in Unseen' : c.res >= 0 => /\ Bytes(c.of) \subseteq Over'
                                            /\ Bytes(c.of) \cap Done' = Part(c)
    BY <2>2, <1>5, <1>7 DEF Live, BytesLive
  <2>6. (\A c \in Unseen' : c.res >= 0) =>
           \A p \in Handed' : p \in Over' \/ \E o \in Ops' : p \in Bytes(o)
    BY <1>1, <1>5, <1>7 DEF Live, BytesLive
  <2> QED BY <2>3, <2>4, <2>5, <2>6 DEF BytesLive
<1>13. written' = Cardinality(Counted')
  BY <1>2, <1>7 DEF Live
<1> QED BY <1>9, <1>10, <1>11, <1>12, <1>13 DEF Live

\* The kernel answers a write: the write moves from the operations in the
\* kernel to the completions; the bytes up to the result are stored, the
\* others of a write that did not fail are left out.
Answers(o, e) ==
    /\ kernel' = kernel \ {o}
    /\ e.of = o /\ e.slot = o.slot
    /\ \/ e.res \in 1 .. o.len /\ (e.res = o.len \/ "short" \in Faults)
       \/ e.res = -1
    /\ cq' = cq \cup {e}
    /\ stored' = [stored EXCEPT ![o.file] = @ \cup (o.off .. o.off + e.res - 1)]
    /\ lost' = IF e.res < 0 THEN lost
               ELSE [lost EXCEPT ![o.file] =
                         @ \cup (o.off + e.res .. o.off + o.len - 1)]
    /\ UNCHANGED <<pc, file_off, file_done, free_slots, inflight, written, rr,
                   ret, sq, batch>>

\* Complete is an answer.
LEMMA CompleteIs ==
    ASSUME NEW o \in kernel, o \in Op, Complete(o)
    PROVE  \E e : Answers(o, e)
<1>1. PICK res \in {o.len} \cup (IF "short" \in Faults THEN 1 .. o.len ELSE {})
                         \cup (IF "io" \in Faults THEN {-1} ELSE {}) :
         /\ cq' = cq \cup {[slot |-> o.slot, res |-> res, of |-> o]}
         /\ stored' = [stored EXCEPT ![o.file] = @ \cup (o.off .. o.off + res - 1)]
         /\ lost' = IF res < 0 THEN lost
                    ELSE [lost EXCEPT ![o.file] =
                              @ \cup (o.off + res .. o.off + o.len - 1)]
  BY DEF Complete
<1>2. PICK e : e = [slot |-> o.slot, res |-> res, of |-> o]
  OBVIOUS
<1>3. e.of = o /\ e.slot = o.slot /\ e.res = res
  BY <1>2
<1>4. o.len \in Nat \ {0}
  BY DEF Op
<1>5. (res \in 1 .. o.len /\ (res = o.len \/ "short" \in Faults)) \/ res = -1
  BY <1>4
<1>6. /\ kernel' = kernel \ {o}
      /\ UNCHANGED <<pc, file_off, file_done, free_slots, inflight, written, rr,
                     ret, sq, batch>>
  BY DEF Complete
<1> QED BY <1>1, <1>2, <1>3, <1>5, <1>6 DEF Answers

\* What an answer stores and leaves out: a part of the write and the rest.
LEMMA AnswerStores ==
    ASSUME TypeInv, NEW o \in Op, NEW e, Answers(o, e)
    PROVE  /\ stored' \in [Files -> SUBSET (0 .. PerFile - 1)]
           /\ lost' \in [Files -> SUBSET (0 .. PerFile - 1)]
           /\ "short" \notin Faults => \A f \in Files : lost'[f] = {}
           /\ e.res \in -1 .. o.len
           /\ e.res >= 0 => /\ Done' = Done \cup Part(e)
                            /\ Lost' = Lost \cup (Bytes(o) \ Part(e))
                            /\ Part(e) \subseteq Bytes(o)
           /\ ~(e.res >= 0) => Done' = Done /\ Lost' = Lost
<1>1. /\ o.file \in Files /\ o.off \in Nat /\ o.len \in Nat \ {0}
      /\ o.off + o.len <= PerFile
  BY DEF Op
<1>2. /\ (e.res \in 1 .. o.len /\ (e.res = o.len \/ "short" \in Faults)) \/ e.res = -1
      /\ e.of = o
  BY DEF Answers
<1>3. e.res \in -1 .. o.len
  BY <1>1, <1>2
<1>4. PICK R : R = o.off .. o.off + e.res - 1
  OBVIOUS
<1>5. PICK S : S = o.off + e.res .. o.off + o.len - 1
  OBVIOUS
<1>6. R \in SUBSET (0 .. PerFile - 1)
  <2>1. \A a, n, x \in Int : a >= 0 /\ a + n <= PerFile /\ x \in a .. a + n - 1
                               => x \in 0 .. PerFile - 1
    BY Params
  <2>2. o.off + e.res <= PerFile /\ o.off \in Int /\ e.res \in Int /\ o.off >= 0
    BY <1>1, <1>3, Params
  <2>3. \A x \in R : x \in Int /\ x \in o.off .. o.off + e.res - 1
    BY <1>4, <2>2
  <2> QED BY <2>1, <2>2, <2>3
<1>7. stored' = [stored EXCEPT ![o.file] = stored[o.file] \cup R]
  BY <1>4 DEF Answers
<1>8. /\ Done' = {p \in Grid : p[2] \in stored'[p[1]]}
      /\ Lost' = {p \in Grid : p[2] \in lost'[p[1]]}
      /\ \A p \in Grid : p[1] \in Files /\ p = <<p[1], p[2]>>
      /\ stored \in [Files -> SUBSET (0 .. PerFile - 1)]
      /\ lost \in [Files -> SUBSET (0 .. PerFile - 1)]
  BY DEF Done, Lost, Grid, Files, TypeInv
<1>9. /\ stored' \in [Files -> SUBSET (0 .. PerFile - 1)]
      /\ Done' = Done \cup ({o.file} \X R)
  <2>1. /\ stored' \in [Files -> SUBSET (0 .. PerFile - 1)]
        /\ stored'[o.file] = stored[o.file] \cup R
        /\ \A f \in Files : f # o.file => stored'[f] = stored[f]
    BY <1>1, <1>6, <1>7, <1>8
  <2>2. \A p \in Grid : p \in {o.file} \X R <=> p[1] = o.file /\ p[2] \in R
    BY <1>8
  <2>3. {o.file} \X R \subseteq Grid
    BY <1>6, <1>1 DEF Grid
  <2>4. \A p \in Grid : p[2] \in stored'[p[1]] <=>
                      p[2] \in stored[p[1]] \/ p \in {o.file} \X R
    BY <2>1, <2>2, <1>8
  <2> QED BY <2>1, <2>3, <2>4, <1>8 DEF Done
<1>10. CASE e.res \in 1 .. o.len
  <2>1. S \in SUBSET (0 .. PerFile - 1)
    BY <1>1, <1>5, <1>10, Params
  <2>2. lost' = [lost EXCEPT ![o.file] = lost[o.file] \cup S]
    BY <1>1, <1>5, <1>10 DEF Answers
  <2>3. /\ lost' \in [Files -> SUBSET (0 .. PerFile - 1)]
        /\ Lost' = Lost \cup ({o.file} \X S)
    <3>1. /\ lost' \in [Files -> SUBSET (0 .. PerFile - 1)]
          /\ lost'[o.file] = lost[o.file] \cup S
          /\ \A f \in Files : f # o.file => lost'[f] = lost[f]
      BY <2>1, <2>2, <1>1, <1>8
    <3>2. \A p \in Grid : p \in {o.file} \X S <=> p[1] = o.file /\ p[2] \in S
      BY <1>8
    <3>3. {o.file} \X S \subseteq Grid
      BY <2>1, <1>1 DEF Grid
    <3>4. \A p \in Grid : p[2] \in lost'[p[1]] <=>
                      p[2] \in lost[p[1]] \/ p \in {o.file} \X S
      BY <3>1, <3>2, <1>8
    <3> QED BY <3>1, <3>3, <3>4, <1>8 DEF Lost
  <2>4. R \cup S = o.off .. o.off + o.len - 1 /\ R \cap S = {}
    BY <1>1, <1>4, <1>5, <1>10
  <2>5. Part(e) = {o.file} \X R
    BY <1>2, <1>4 DEF Part
  <2>6. Bytes(o) = {o.file} \X (R \cup S)
    BY <2>4 DEF Bytes
  <2>7. {o.file} \X S = Bytes(o) \ Part(e) /\ Part(e) \subseteq Bytes(o)
    BY <2>4, <2>5, <2>6
  <2>8. "short" \notin Faults => \A f \in Files : lost'[f] = {}
    <3> SUFFICES ASSUME "short" \notin Faults PROVE \A f \in Files : lost'[f] = {}
      OBVIOUS
    <3>1. e.res = o.len
      BY <1>1, <1>2, <1>10
    <3>2. S = {}
      BY <3>1, <1>1, <1>5
    <3> QED BY <3>2, <2>2, <1>1 DEF TypeInv
  <2>9. e.res >= 0
    BY <1>1, <1>10
  <2> QED BY <1>3, <1>9, <2>3, <2>5, <2>7, <2>8, <2>9
<1>11. CASE e.res = -1
  <2>1. R = {} /\ e.res < 0 /\ ~(e.res >= 0)
    BY <1>1, <1>4, <1>11
  <2>2. lost' = lost
    BY <2>1 DEF Answers
  <2>3. Done' = Done /\ Lost' = Lost
    BY <2>1, <2>2, <1>8, <1>9 DEF Lost
  <2>4. /\ lost' \in [Files -> SUBSET (0 .. PerFile - 1)]
        /\ "short" \notin Faults => \A f \in Files : lost'[f] = {}
    BY <2>2 DEF TypeInv
  <2> QED BY <1>3, <1>9, <2>1, <2>3, <2>4
<1> QED BY <1>2, <1>10, <1>11

\* An answer keeps the invariant, whether the call still runs or not.
LEMMA AnswerLive ==
    ASSUME TypeInv, Running => Live, NEW o \in kernel, NEW e, Answers(o, e)
    PROVE  TypeInv' /\ (Running' => Live')
<1>1. o \in Op /\ o \in Ops
  BY DEF TypeInv, Ops
<1>2. /\ stored' \in [Files -> SUBSET (0 .. PerFile - 1)]
      /\ lost' \in [Files -> SUBSET (0 .. PerFile - 1)]
      /\ "short" \notin Faults => \A f \in Files : lost'[f] = {}
      /\ e.res \in -1 .. o.len
      /\ e.res >= 0 => /\ Done' = Done \cup Part(e)
                       /\ Lost' = Lost \cup (Bytes(o) \ Part(e))
                       /\ Part(e) \subseteq Bytes(o)
      /\ ~(e.res >= 0) => Done' = Done /\ Lost' = Lost
  BY <1>1, AnswerStores
<1>3. /\ kernel' = kernel \ {o} /\ cq' = cq \cup {e}
      /\ e.of = o /\ e.slot = o.slot
      /\ UNCHANGED <<pc, file_off, file_done, free_slots, inflight, written, rr,
                     ret, sq, batch>>
  BY DEF Answers
<1>4. Unseen' = Unseen \cup {e}
  BY <1>3 DEF Unseen
<1>5. TypeInv'
  <2>1. Ops' \subseteq Ops
    BY <1>3 DEF Ops
  <2>2. \A c \in Unseen' : c.of \in Op /\ c.slot = c.of.slot /\ c.res \in -1 .. c.of.len
    BY <1>1, <1>2, <1>3, <1>4 DEF TypeInv
  <2> QED BY <2>1, <2>2, <1>2, <1>3 DEF TypeInv
<1>6. SUFFICES ASSUME Running PROVE Live'
  BY <1>3, <1>5 DEF Running
<1>7. Live
  BY <1>6
<1>8. Ops' = Ops \ {o} /\ Answered' = Answered \cup {o}
  <2>1. Ops' = Ops \ {o}
    BY <1>3, <1>7 DEF Ops, Live, Places
  <2>2. Answered' = {c.of : c \in Unseen'}
    BY DEF Answered
  <2> QED BY <2>1, <2>2, <1>3, <1>4 DEF Answered
<1>9. Items' = Items
  BY <1>1, <1>8 DEF Items
<1>10. Handed' = Handed
  BY <1>3 DEF Handed, Grid
<1>11. \A c \in Unseen : c.of # o /\ c # e
  BY <1>1, <1>3, <1>7 DEF Live, Places, Answered
<1>12. /\ o \in Items /\ Bytes(o) \cap Over = {} /\ Bytes(o) \subseteq Handed
       /\ Bytes(o) \cap Done = {} /\ Done \cap Lost = {}
  BY <1>1, <1>7 DEF Items, Live, BytesLive, Over
<1>13. Places'
  <2>1. sq' \cap kernel' = {} /\ cq' \cap batch' = {} /\ (pc' # "reap" => batch' = {})
    BY <1>3, <1>7, <1>11 DEF Live, Places, Unseen
  <2>2. Ops' \cap Answered' = {}
    BY <1>7, <1>8 DEF Live, Places
  <2>3. \A c, d \in Unseen' : c.of = d.of => c = d
    BY <1>3, <1>4, <1>7, <1>11 DEF Live, Places
  <2> QED BY <2>1, <2>2, <2>3 DEF Places
<1>14. SlotsLive'
  BY <1>3, <1>7, <1>9 DEF Live, SlotsLive
<1>15. BytesLive'
  <2>1. /\ Over \subseteq Over' /\ Over' \subseteq Over \cup Bytes(o)
        /\ e.res >= 0 => Over' = Over \cup Bytes(o)
    <3>1. Over' = Done' \cup Lost'
      BY DEF Over
    <3>2. CASE e.res >= 0
      BY <3>1, <3>2, <1>2 DEF Over
    <3>3. CASE ~(e.res >= 0)
      BY <3>1, <3>3, <1>2 DEF Over
    <3> QED BY <3>2, <3>3
  <2>2. Done' \cap Lost' = {}
    <3>1. Bytes(o) \cap Lost = {}
      BY <1>12 DEF Over
    <3>2. CASE e.res >= 0
      BY <3>1, <3>2, <1>2, <1>12
    <3>3. CASE ~(e.res >= 0)
      BY <3>3, <1>2, <1>12
    <3> QED BY <3>2, <3>3
  <2>3. /\ Over' \subseteq Handed'
        /\ \A p \in Items' : Bytes(p) \subseteq Handed'
        /\ \A p, q \in Items' : p # q => Bytes(p) \cap Bytes(q) = {}
    BY <2>1, <1>7, <1>9, <1>10, <1>12 DEF Live, BytesLive
  <2>4. \A p \in Ops' : Bytes(p) \cap Over' = {}
    <3> TAKE p \in Ops'
    <3>1. p \in Ops /\ p # o /\ p \in Items
      BY <1>8 DEF Items
    <3>2. Bytes(p) \cap Bytes(o) = {} /\ Bytes(p) \cap Over = {}
      BY <3>1, <1>7, <1>12 DEF Live, BytesLive
    <3> QED BY <3>2, <2>1
  <2>5. ASSUME NEW c \in Unseen', c.res >= 0
        PROVE  Bytes(c.of) \subseteq Over' /\ Bytes(c.of) \cap Done' = Part(c)
    <3>1. CASE c = e
      BY <3>1, <2>1, <2>5, <1>2, <1>3, <1>12
    <3>2. CASE c # e
      <4>1. c \in Unseen /\ c.of \in Items /\ c.of # o
        BY <3>2, <1>4, <1>11 DEF Items, Answered
      <4>2. /\ Bytes(c.of) \cap Bytes(o) = {} /\ Bytes(c.of) \subseteq Over
            /\ Bytes(c.of) \cap Done = Part(c)
        BY <4>1, <2>5, <1>7, <1>12 DEF Live, BytesLive
      <4>3. Done' \subseteq Done \cup Bytes(o) /\ Done \subseteq Done'
        BY <1>2
      <4> QED BY <4>2, <4>3, <2>1
    <3> QED BY <3>1, <3>2
  <2>6. ASSUME \A c \in Unseen' : c.res >= 0
        PROVE  \A p \in Handed' : p \in Over' \/ \E q \in Ops' : p \in Bytes(q)
    <3>1. e.res >= 0 /\ \A c \in Unseen : c.res >= 0
      BY <2>6, <1>4
    <3>2. Over' = Over \cup Bytes(o)
      BY <3>1, <2>1
    <3> QED BY <3>1, <3>2, <1>7, <1>8, <1>10 DEF Live, BytesLive
  <2> QED BY <2>2, <2>3, <2>4, <2>5, <2>6 DEF BytesLive
<1>16. Counted' = Counted
  <2>1. Counted' = {p \in Done' : \A c \in Unseen' : c.res >= 0 => p \notin Bytes(c.of)}
    BY DEF Counted
  <2>2. CASE e.res >= 0
    <3>1. Done' = Done \cup Part(e) /\ Part(e) \subseteq Bytes(o)
      BY <2>2, <1>2
    <3> QED BY <2>1, <2>2, <3>1, <1>3, <1>4, <1>12 DEF Counted
  <2>3. CASE ~(e.res >= 0)
    <3>1. Done' = Done
      BY <2>3, <1>2
    <3> QED BY <2>1, <2>3, <3>1, <1>4 DEF Counted
  <2> QED BY <2>2, <2>3
<1> QED BY <1>3, <1>7, <1>13, <1>14, <1>15, <1>16 DEF Live

\* A completion is counted: its slot goes back on the stack, its bytes into
\* the sum.
LEMMA ReapLive ==
    ASSUME TypeInv, Live, NEW c \in batch, Reap(c)
    PROVE  TypeInv' /\ Live'
<1>1. /\ pc = "reap" /\ ~Bad(c) /\ batch' = batch \ {c}
      /\ written' = written + c.res /\ inflight' = inflight - 1
      /\ free_slots' = Append(free_slots, c.slot)
      /\ UNCHANGED <<pc, file_off, file_done, rr, ret, sq, kernel, cq, stored,
                     lost>>
  BY DEF Reap
<1>2. c \in Unseen /\ c.of \in Op /\ c.slot = c.of.slot /\ c.res \in -1 .. c.of.len
  BY DEF TypeInv, Unseen
<1>3. PICK o \in Op : o = c.of
  BY <1>2
<1>4. /\ c.of = o /\ c.slot = o.slot /\ o.slot \in Slots /\ o.len \in Nat \ {0}
  BY <1>2, <1>3 DEF Op
<1>5. c.res \in 0 .. o.len /\ c.res >= 0
  BY <1>1, <1>2, <1>3, <1>4, Params DEF Bad, Slots
<1>6. Unseen' = Unseen \ {c} /\ Ops' = Ops
  BY <1>1 DEF Unseen, Ops, Live, Places
<1>7. Answered' = Answered \ {o}
  <2>1. Answered' = {d.of : d \in Unseen'}
    BY DEF Answered
  <2>2. \A d \in Unseen : d.of = o <=> d = c
    BY <1>2, <1>3 DEF Live, Places
  <2> QED BY <2>1, <2>2, <1>6 DEF Answered
<1>8. o \in Answered /\ o \notin Ops /\ o \in Items
  BY <1>2, <1>3 DEF Answered, Items, Live, Places
<1>9. Items' = Items \ {o}
  BY <1>6, <1>7, <1>8 DEF Items
<1>10. Handed' = Handed /\ Done' = Done /\ Lost' = Lost /\ Over' = Over
  BY <1>1 DEF Handed, Done, Lost, Over, Grid
<1>11. Len(free_slots) \in Nat /\ free_slots \in [1 .. Len(free_slots) -> Slots]
  BY DEF TypeInv
<1>12. /\ free_slots' \in Seq(Slots) /\ Len(free_slots') = Len(free_slots) + 1
       /\ \A i \in 1 .. Len(free_slots) : free_slots'[i] = free_slots[i]
       /\ free_slots'[Len(free_slots) + 1] = o.slot
  BY <1>1, <1>4 DEF TypeInv
<1>13. TypeInv'
  <2>1. \A d \in Unseen' : d.of \in Op /\ d.slot = d.of.slot /\ d.res \in -1 .. d.of.len
    BY <1>6 DEF TypeInv
  <2>2. written' \in Nat /\ inflight' \in Int
    BY <1>1, <1>4, <1>5 DEF TypeInv
  <2> QED BY <2>1, <2>2, <1>1, <1>6, <1>12 DEF TypeInv
<1>14. Places'
  BY <1>1, <1>6, <1>7 DEF Live, Places
<1>15. SlotsLive'
  <2>1. \A m \in Nat : /\ m + 1 \in 1 .. m + 1
                       /\ \A i \in 1 .. m : i \in 1 .. m + 1
                       /\ \A i \in 1 .. m + 1 : i = m + 1 \/ i \in 1 .. m
    OBVIOUS
  <2>2. /\ Len(free_slots) + 1 \in 1 .. Len(free_slots')
        /\ \A i \in 1 .. Len(free_slots) : i \in 1 .. Len(free_slots')
        /\ \A i \in 1 .. Len(free_slots') :
              i = Len(free_slots) + 1 \/ i \in 1 .. Len(free_slots)
    BY <2>1, <1>11, <1>12, Zenon
  <2>3. \A i \in 1 .. Len(free_slots) : free_slots[i] # o.slot
    BY <1>4, <1>8 DEF Live, SlotsLive
  <2>4. \A i, j \in 1 .. Len(free_slots') : free_slots'[i] = free_slots'[j] => i = j
    BY <2>2, <2>3, <1>12 DEF Live, SlotsLive
  <2>5. inflight' + Len(free_slots') = QD
    <3>1. inflight + Len(free_slots) = QD /\ inflight \in Int
      BY DEF Live, SlotsLive, TypeInv
    <3> QED BY <3>1, <1>1, <1>11, <1>12, Params
  <2>6. \A p, q \in Items' : p.slot = q.slot => p = q
    BY <1>9 DEF Live, SlotsLive
  <2>7. \A s \in Slots : (\E i \in 1 .. Len(free_slots') : free_slots'[i] = s)
           <=> s = o.slot \/ \E i \in 1 .. Len(free_slots) : free_slots[i] = s
    BY <2>2, <1>12, Zenon
  <2>8. \A s \in Slots : (~ \E p \in Items' : p.slot = s)
           <=> s = o.slot \/ ~ \E p \in Items : p.slot = s
    BY <1>8, <1>9 DEF Live, SlotsLive
  <2>9. \A s \in Slots : (\E i \in 1 .. Len(free_slots') : free_slots'[i] = s)
                           <=> ~ \E p \in Items' : p.slot = s
    BY <2>7, <2>8 DEF Live, SlotsLive
  <2> QED BY <2>4, <2>5, <2>6, <2>9 DEF SlotsLive
<1>16. BytesLive'
  <2>1. (\A d \in Unseen' : d.res >= 0) => \A d \in Unseen : d.res >= 0
    BY <1>5, <1>6
  <2>2. /\ Over' \subseteq Handed' /\ Done' \cap Lost' = {}
        /\ \A p \in Items' : Bytes(p) \subseteq Handed'
        /\ \A p, q \in Items' : p # q => Bytes(p) \cap Bytes(q) = {}
    BY <1>9, <1>10 DEF Live, BytesLive
  <2>3. /\ \A p \in Ops' : Bytes(p) \cap Over' = {}
        /\ \A d \in Unseen' : d.res >= 0 => /\ Bytes(d.of) \subseteq Over'
                                            /\ Bytes(d.of) \cap Done' = Part(d)
    BY <1>6, <1>10 DEF Live, BytesLive
  <2>4. (\A d \in Unseen' : d.res >= 0) =>
           \A p \in Handed' : p \in Over' \/ \E q \in Ops' : p \in Bytes(q)
    BY <2>1, <1>6, <1>10, Zenon DEF Live, BytesLive
  <2> QED BY <2>2, <2>3, <2>4 DEF BytesLive
<1>17. Counted' = Counted \cup Part(c) /\ Counted \cap Part(c) = {}
  <2>1. Counted' = {p \in Done : \A d \in Unseen' : d.res >= 0 => p \notin Bytes(d.of)}
    BY <1>10 DEF Counted
  <2>2. Bytes(o) \cap Done = Part(c)
    BY <1>2, <1>3, <1>5 DEF Live, BytesLive
  <2>3. \A d \in Unseen' : Bytes(o) \cap Bytes(d.of) = {}
    <3> TAKE d \in Unseen'
    <3>1. d \in Unseen /\ d # c /\ d.of \in Items /\ d.of # o
      BY <1>2, <1>3, <1>6 DEF Live, Places, Items, Answered
    <3> QED BY <3>1, <1>8 DEF Live, BytesLive
  <2>4. Counted \cap Bytes(o) = {}
    BY <1>2, <1>3, <1>5 DEF Counted
  <2>5. \A p \in Done : (\A d \in Unseen' : d.res >= 0 => p \notin Bytes(d.of))
           <=> p \in Bytes(o) \/ \A d \in Unseen : d.res >= 0 => p \notin Bytes(d.of)
    BY <2>3, <1>3, <1>6
  <2> QED BY <2>1, <2>2, <2>4, <2>5 DEF Counted
<1>18. written' = Cardinality(Counted')
  <2>1. IsFiniteSet(Counted)
    <3>1. Counted \in SUBSET Grid
      BY DEF Counted, Done
    <3> QED BY <3>1, GridSize, FS_Subset
  <2>2. IsFiniteSet(Part(c)) /\ Cardinality(Part(c)) = c.res
    BY <1>2, <1>3, <1>5, PartOf
  <2>3. Cardinality(Counted \cup Part(c)) =
           Cardinality(Counted) + Cardinality(Part(c)) - Cardinality(Counted \cap Part(c))
    BY <2>1, <2>2, FS_Union
  <2>4. Cardinality(Counted \cap Part(c)) = 0
    BY <1>17, FS_EmptySet
  <2>5. Cardinality(Counted) = written /\ written \in Nat
    BY DEF Live, TypeInv
  <2>6. Cardinality(Counted \cup Part(c)) = written + c.res
    BY <2>2, <2>3, <2>4, <2>5, <1>4, <1>5
  <2> QED BY <2>6, <1>1, <1>17
<1> QED BY <1>13, <1>14, <1>15, <1>16, <1>18 DEF Live

\* The invariant holds at the start: every slot is on the stack.
LEMMA ManyInit == Init => ManyInv
<1> SUFFICES ASSUME Init PROVE TypeInv /\ Live
  BY DEF ManyInv
<1>1. /\ pc = "setup" /\ file_off = [f \in Files |-> 0] /\ file_done = {}
      /\ free_slots = [i \in 1 .. QD |-> i - 1]
      /\ inflight = 0 /\ written = 0 /\ rr = 0
      /\ sq = {} /\ kernel = {} /\ cq = {} /\ batch = {}
      /\ stored = [f \in Files |-> {}] /\ lost = [f \in Files |-> {}]
  BY DEF Init
<1>2. Ops = {} /\ Unseen = {} /\ Items = {} /\ Answered = {}
  BY <1>1 DEF Ops, Unseen, Items, Answered
<1>3. /\ free_slots \in Seq(Slots) /\ Len(free_slots) = QD
      /\ \A i \in 1 .. QD : free_slots[i] = i - 1
  <2>1. \A i \in 1 .. QD : i - 1 \in Slots
    BY Params
  <2>2. free_slots \in [1 .. QD -> Slots]
    BY <2>1, <1>1
  <2>3. free_slots \in Seq(Slots)
    BY <2>2, Params, SeqDef
  <2>4. DOMAIN free_slots = 1 .. QD /\ DOMAIN free_slots = 1 .. Len(free_slots)
        /\ Len(free_slots) \in Nat
    BY <2>2, <2>3, LenProperties
  <2>5. \A m \in Nat : \A k \in Nat \ {0} : 1 .. m = 1 .. k => m = k
    <3> TAKE m \in Nat
    <3> TAKE k \in Nat \ {0}
    <3> HAVE 1 .. m = 1 .. k
    <3>1. k \in 1 .. k
      OBVIOUS
    <3>2. m >= k
      BY <3>1
    <3>3. m \in 1 .. m
      BY <3>2
    <3> QED BY <3>2, <3>3
  <2>6. Len(free_slots) = QD
    BY <2>4, <2>5, Params, Zenon
  <2> QED BY <2>3, <2>6, <1>1
<1>4. TypeInv
  BY <1>1, <1>2, <1>3, Params DEF TypeInv
<1>5. Places
  BY <1>1, <1>2 DEF Places
<1>6. SlotsLive
  <2>1. \A i, j \in 1 .. QD : i - 1 = j - 1 => i = j
    BY Params
  <2>2. \A s \in Slots : s + 1 \in 1 .. QD /\ (s + 1) - 1 = s
    BY Params
  <2>3. \A s \in Slots : \E i \in 1 .. QD : free_slots[i] = s
    <3> TAKE s \in Slots
    <3>1. PICK i \in 1 .. QD : i - 1 = s
      BY <2>2
    <3> QED BY <3>1, <1>3
  <2>4. inflight + Len(free_slots) = QD
    BY <1>1, <1>3, Params
  <2>5. \A i, j \in 1 .. QD : free_slots[i] = free_slots[j] => i = j
    BY <2>1, <1>3
  <2> QED BY <2>3, <2>4, <2>5, <1>2, <1>3 DEF SlotsLive
<1>7. Handed = {} /\ Done = {} /\ Lost = {} /\ Over = {} /\ Counted = {}
  <2>1. \A p \in Grid : p[1] \in Files /\ p[2] \in 0 .. PerFile - 1
    BY DEF Grid
  <2>2. \A p \in Grid : /\ ~(p[2] < file_off[p[1]])
                        /\ p[2] \notin stored[p[1]] /\ p[2] \notin lost[p[1]]
    BY <2>1, <1>1, Params
  <2> QED BY <2>2 DEF Handed, Done, Lost, Over, Counted
<1>8. BytesLive
  BY <1>2, <1>7 DEF BytesLive
<1>9. written = Cardinality(Counted)
  BY <1>1, <1>7, FS_EmptySet
<1> QED BY <1>4, <1>5, <1>6, <1>8, <1>9 DEF Live

\* Leaving the main loop with an error: only the types matter from here on.
LEMMA LeavingKeeps ==
    ASSUME TypeInv, pc' \in {"out", "done"}, Ops' \subseteq Ops, Unseen' \subseteq Unseen,
           UNCHANGED <<file_off, file_done, free_slots, inflight, written, rr, stored,
                     lost>>
    PROVE  ManyInv'
<1>1. ~Running'
  BY DEF Running
<1>2. TypeInv'
  BY DEF TypeInv
<1> QED BY <1>1, <1>2 DEF ManyInv

\* Setup, Submit, Peek and BatchDone move writes around and count nothing.
LEMMA MovingKeeps ==
    ASSUME TypeInv, Live, Setup \/ Submit \/ Peek \/ BatchDone
    PROVE  TypeInv' /\ Live'
<1>1. /\ UNCHANGED <<file_off, file_done, free_slots, inflight, written, rr, stored,
                     lost>>
      /\ pc' \in {"fill", "wait", "reap", "end"}
  BY DEF Setup, Submit, Peek, BatchDone
<1>2. /\ Ops' = Ops /\ Unseen' = Unseen
      /\ sq' \cap kernel' = {} /\ cq' \cap batch' = {}
      /\ (pc' # "reap" => batch' = {})
  <2>1. CASE Setup
    BY <2>1 DEF Setup, Ops, Unseen, Live, Places
  <2>2. CASE Submit
    BY <2>2 DEF Submit, Ops, Unseen, Live, Places
  <2>3. CASE Peek
    <3>1. PICK b \in SUBSET cq : batch' = b /\ cq' = cq \ b
      BY <2>3 DEF Peek
    <3>2. batch = {}
      BY <2>3 DEF Peek, Live, Places
    <3> QED BY <2>3, <3>1, <3>2 DEF Peek, Ops, Unseen, Live, Places
  <2>4. CASE BatchDone
    BY <2>4 DEF BatchDone, Ops, Unseen, Live, Places
  <2> QED BY <2>1, <2>2, <2>3, <2>4
<1>3. TypeInv'
  BY <1>1, <1>2 DEF TypeInv
<1> QED BY <1>1, <1>2, <1>3, LiveSame

\* The end of the enqueueing loop marks files whose bytes are handed out.
LEMMA StopKeeps ==
    ASSUME TypeInv, Live, StopEnqueue
    PROVE  TypeInv' /\ Live'
<1>1. /\ pc' = "submit" /\ pc = "fill"
      /\ UNCHANGED <<file_off, free_slots, inflight, written, ret, sq, kernel, cq,
                     batch, stored, lost>>
  BY DEF StopEnqueue
<1>2. Ops' = Ops /\ Unseen' = Unseen
  BY <1>1 DEF Ops, Unseen
<1>3. Live'
  BY <1>1, <1>2, LiveSame DEF Live, Places
<1>4. rr' \in Nat
  <2>1. \A a \in Nat : \A m \in Nat \ {0} : a % m \in Nat
    OBVIOUS
  <2>2. rr \in Nat /\ rr + NFiles \in Nat
    BY Params DEF TypeInv
  <2> QED BY <2>1, <2>2, Params DEF StopEnqueue
<1>5. file_done' \subseteq Files /\ \A f \in file_done' : file_off'[f] = PerFile
  <2>1. \A j \in Nat : Idx(j) \in Files
    BY IdxIn DEF TypeInv
  <2>2. \A j \in 0 .. NFiles - 1 : j \in Nat
    BY Params
  <2>3. Scanned(NFiles - 1) \subseteq Files
    BY <2>1, <2>2 DEF Scanned
  <2>4. \A f \in Files : file_off[f] >= PerFile => file_off[f] = PerFile
    BY Params DEF TypeInv
  <2> QED BY <2>3, <2>4, <1>1 DEF TypeInv, StopEnqueue
<1>6. TypeInv'
  BY <1>1, <1>2, <1>4, <1>5 DEF TypeInv
<1> QED BY <1>3, <1>6

\* Every step keeps the invariant.
LEMMA ManyStep == ManyInv /\ [Next]_vars => ManyInv'
<1> SUFFICES ASSUME ManyInv, [Next]_vars PROVE ManyInv'
  OBVIOUS
<1>1. TypeInv /\ (Running => Live)
  BY DEF ManyInv
<1>2. CASE Setup \/ Submit \/ Peek \/ BatchDone
  <2>1. Running
    BY <1>2 DEF Running, Setup, Submit, Peek, BatchDone
  <2> QED BY <2>1, <1>1, <1>2, MovingKeeps DEF ManyInv
<1>3. CASE Enqueue
  <2>1. Live /\ Places /\ SlotsLive
    BY <1>1, <1>3 DEF Running, Enqueue, Live
  <2>2. PICK n \in Op : Prepared(n)
    BY <1>1, <1>3, <2>1, EnqueueIs
  <2> QED BY <1>1, <2>1, <2>2, PreparedLive DEF ManyInv
<1>4. CASE StopEnqueue
  <2>1. Live
    BY <1>1, <1>4 DEF Running, StopEnqueue
  <2> QED BY <1>1, <1>4, <2>1, StopKeeps DEF ManyInv
<1>5. ASSUME NEW c \in batch, Reap(c) PROVE ManyInv'
  <2>1. Live
    BY <1>1, <1>5 DEF Running, Reap
  <2> QED BY <1>1, <1>5, <2>1, ReapLive DEF ManyInv
<1>6. CASE SetupFails \/ SubmitFails \/ WaitFails \/ FsyncEnd \/ Exit
  <2>1. /\ pc' \in {"out", "done"}
        /\ UNCHANGED <<file_off, file_done, free_slots, inflight, written, rr, stored,
                     lost>>
        /\ Ops' \subseteq Ops /\ Unseen' \subseteq Unseen
    BY <1>6 DEF SetupFails, SubmitFails, WaitFails, FsyncEnd, Exit, Ops, Unseen
  <2> QED BY <2>1, <1>1, LeavingKeeps
<1>7. ASSUME NEW c \in batch, ReapError(c) PROVE ManyInv'
  <2>1. /\ pc' \in {"out", "done"}
        /\ UNCHANGED <<file_off, file_done, free_slots, inflight, written, rr, stored,
                     lost>>
        /\ Ops' \subseteq Ops /\ Unseen' \subseteq Unseen
    BY <1>7 DEF ReapError, Ops, Unseen
  <2> QED BY <2>1, <1>1, LeavingKeeps
<1>8. ASSUME NEW o \in kernel, Complete(o) PROVE ManyInv'
  <2>1. PICK e : Answers(o, e)
    BY <1>1, <1>8, CompleteIs DEF TypeInv, Ops
  <2> QED BY <2>1, <1>1, AnswerLive DEF ManyInv
<1>9. CASE UNCHANGED vars
  <2>1. /\ Ops' = Ops /\ Unseen' = Unseen /\ Running' = Running
        /\ UNCHANGED <<pc, file_off, file_done, free_slots, inflight, written, rr, ret,
                       sq, kernel, cq, batch, stored, lost>>
    BY <1>9 DEF vars, Ops, Unseen, Running
  <2>2. TypeInv'
    BY <2>1, <1>1 DEF TypeInv
  <2>3. Running' => Live'
    BY <2>1, <1>1, LiveSame DEF Live, Places
  <2> QED BY <2>2, <2>3 DEF ManyInv
<1> QED
  BY <1>2, <1>3, <1>4, <1>5, <1>6, <1>7, <1>8, <1>9
     DEF Next, Writer, Kernel, Terminated

\* The inductive invariant of uring_write_manyfiles: each write is in one
\* place, slots are on the stack or with a write, and every byte handed out
\* is with one write or stored; `written` counts the stored bytes reaped.
THEOREM ManyInvariant == Spec => []ManyInv
<1> QED BY ManyInit, ManyStep, PTL DEF Spec

\* The slots of the writes in flight and the free stack partition the slots,
\* and inflight is the number in flight (uring_write_manyfiles).
THEOREM ManySlotsPartitioned == Spec => []SlotsPartitioned
<1>1. ManyInv => SlotsPartitioned
  <2> SUFFICES ASSUME ManyInv, Running PROVE SlotsPartitioned
    BY DEF SlotsPartitioned
  <2>1. TypeInv /\ Places /\ SlotsLive
    BY DEF ManyInv, Live
  <2> QED BY <2>1, SlotsAddUp DEF SlotsPartitioned, Unseen
<1> QED BY <1>1, ManyInvariant, PTL

\* What the files hold, byte by byte.
LEMMA FileBytes ==
    ASSUME TypeInv, NEW f \in Files, NEW x
    PROVE  /\ x \in 0 .. file_off[f] - 1 <=> <<f, x>> \in Handed
           /\ x \in stored[f] <=> <<f, x>> \in Done
           /\ x \in lost[f] <=> <<f, x>> \in Lost
           /\ x \in RangesIn(f) <=> \E o \in Ops : <<f, x>> \in Bytes(o)
<1>1. /\ file_off[f] \in 0 .. PerFile /\ stored[f] \subseteq 0 .. PerFile - 1
      /\ lost[f] \subseteq 0 .. PerFile - 1
  BY DEF TypeInv
<1>2. <<f, x>> \in Grid <=> x \in 0 .. PerFile - 1
  BY DEF Grid
<1>3. <<f, x>>[1] = f /\ <<f, x>>[2] = x
  OBVIOUS
<1>4. x \in 0 .. file_off[f] - 1 <=> x \in 0 .. PerFile - 1 /\ x < file_off[f]
  BY <1>1, Params
<1>5. x \in 0 .. file_off[f] - 1 <=> <<f, x>> \in Handed
  BY <1>2, <1>3, <1>4 DEF Handed
<1>6. /\ x \in stored[f] <=> <<f, x>> \in Done
      /\ x \in lost[f] <=> <<f, x>> \in Lost
  BY <1>1, <1>2, <1>3 DEF Done, Lost
<1>7. ASSUME NEW o \in Ops
      PROVE  <<f, x>> \in Bytes(o) <=> o.file = f /\ x \in o.off .. o.off + o.len - 1
  BY DEF Bytes
<1>8. x \in RangesIn(f) <=> \E o \in Ops : o.file = f /\ x \in o.off .. o.off + o.len - 1
  BY DEF RangesIn
<1> QED BY <1>5, <1>6, <1>7, <1>8

\* No block of a file is skipped and none is written twice, though the offset
\* is advanced before get_sqe is called: a byte handed out is with a write,
\* stored, or left out by a short write.
THEOREM ManyNoBlockLost == Spec => []NoBlockLost
<1>1. ManyInv => NoBlockLost
  <2> SUFFICES ASSUME ManyInv, Running, \A c \in cq \cup batch : c.res >= 0,
                      NEW f \in Files
               PROVE  /\ 0 .. file_off[f] - 1 = stored[f] \cup lost[f] \cup RangesIn(f)
                      /\ stored[f] \cap RangesIn(f) = {}
                      /\ lost[f] \cap (stored[f] \cup RangesIn(f)) = {}
    BY DEF NoBlockLost
  <2>1. TypeInv /\ BytesLive /\ \A c \in Unseen : c.res >= 0
    BY DEF ManyInv, Live, Unseen
  <2>2. /\ \A p \in Handed : p \in Over \/ \E o \in Ops : p \in Bytes(o)
        /\ Over \subseteq Handed /\ Done \cap Lost = {} /\ Over = Done \cup Lost
        /\ \A o \in Ops : Bytes(o) \subseteq Handed /\ Bytes(o) \cap Over = {}
    BY <2>1 DEF BytesLive, Items, Over
  <2>3. \A x : /\ x \in 0 .. file_off[f] - 1 <=> <<f, x>> \in Handed
               /\ x \in stored[f] <=> <<f, x>> \in Done
               /\ x \in lost[f] <=> <<f, x>> \in Lost
               /\ x \in RangesIn(f) <=> \E o \in Ops : <<f, x>> \in Bytes(o)
    BY <2>1, FileBytes
  <2>4. \A x : x \in 0 .. file_off[f] - 1 <=>
                 x \in stored[f] \/ x \in lost[f] \/ x \in RangesIn(f)
    BY <2>2, <2>3
  <2>5. \A x : /\ ~(x \in stored[f] /\ x \in RangesIn(f))
               /\ ~(x \in lost[f] /\ x \in RangesIn(f))
               /\ ~(x \in lost[f] /\ x \in stored[f])
    BY <2>2, <2>3
  <2> QED BY <2>4, <2>5
<1> QED BY <1>1, ManyInvariant, PTL

-----------------------------------------------------------------------------
(* Remainders *)

\* A product with a positive factor grows with the other.
LEMMA TimesMono ==
    ASSUME NEW n \in Nat, NEW a \in Nat, NEW b \in Nat, a <= b
    PROVE  n * a <= n * b /\ n * a \in Nat /\ n * b \in Nat /\ n * (a + 1) = n * a + n
<1>1. PICK d \in Nat : b = a + d
  <2>1. b - a \in Nat /\ b = a + (b - a)
    OBVIOUS
  <2> QED BY <2>1
<1>2. n * b = n * a + n * d /\ n * d \in Nat /\ n * a \in Nat
  BY <1>1
<1> QED BY <1>2

\* The remainder is determined by the division.
LEMMA RemainderIs ==
    ASSUME NEW n \in Nat \ {0}, NEW q \in Nat, NEW r \in 0 .. n - 1
    PROVE  (n * q + r) % n = r
<1>1. PICK a \in Nat : a = n * q + r
  <2>1. n * q \in Nat
    OBVIOUS
  <2> QED BY <2>1
<1>2. PICK q2 \in Nat, r2 \in 0 .. n - 1 : a = n * q2 + r2 /\ r2 = a % n
  <2>1. a % n \in 0 .. n - 1 /\ a = n * (a \div n) + (a % n) /\ a \div n \in Nat
    OBVIOUS
  <2> QED BY <2>1
<1>3. q2 <= q
  <2> SUFFICES ASSUME q + 1 <= q2 PROVE FALSE
    OBVIOUS
  <2>1. q + 1 \in Nat
    OBVIOUS
  <2>2. n * (q + 1) <= n * q2 /\ n * (q + 1) \in Nat /\ n * q2 \in Nat
    BY <2>1, TimesMono
  <2>3. n * q \in Nat /\ n * (q + 1) = n * q + n
    BY TimesMono
  <2> QED BY <2>2, <2>3, <1>1, <1>2
<1>4. q <= q2
  <2> SUFFICES ASSUME q2 + 1 <= q PROVE FALSE
    OBVIOUS
  <2>1. q2 + 1 \in Nat
    OBVIOUS
  <2>2. n * (q2 + 1) <= n * q /\ n * (q2 + 1) \in Nat /\ n * q \in Nat
    BY <2>1, TimesMono
  <2>3. n * q2 \in Nat /\ n * (q2 + 1) = n * q2 + n
    BY TimesMono
  <2> QED BY <2>2, <2>3, <1>1, <1>2
<1>5. q = q2
  BY <1>3, <1>4
<1>6. n * q = n * q2 /\ n * q \in Nat
  BY <1>5
<1>7. r = r2
  BY <1>1, <1>2, <1>6
<1> QED BY <1>1, <1>2, <1>7

\* A remainder modulo a multiple of n keeps the remainder modulo n.
LEMMA RemainderOfMultiple ==
    ASSUME NEW n \in Nat \ {0}, NEW m \in Nat \ {0}, m % n = 0, NEW b \in Nat
    PROVE  (b % m) % n = b % n
<1>1. PICK d \in Nat : m = n * d
  <2>1. m = n * (m \div n) + (m % n) /\ m \div n \in Nat /\ n * (m \div n) \in Nat
    OBVIOUS
  <2> QED BY <2>1
<1>2. PICK q \in Nat, s \in Nat : b = m * q + s /\ s = b % m
  <2>1. b % m \in Nat /\ b = m * (b \div m) + (b % m) /\ b \div m \in Nat
    OBVIOUS
  <2> QED BY <2>1
<1>3. PICK t \in Nat, r \in 0 .. n - 1 : s = n * t + r /\ r = s % n
  <2>1. s % n \in 0 .. n - 1 /\ s = n * (s \div n) + (s % n) /\ s \div n \in Nat
    OBVIOUS
  <2> QED BY <2>1
<1>4. PICK u \in Nat : u = d * q + t
  <2>1. d * q \in Nat
    OBVIOUS
  <2> QED BY <2>1
<1>5. m * q = n * (d * q)
  <2>1. \A x, y, z \in Nat : (x * y) * z = x * (y * z)
    OBVIOUS
  <2> QED BY <2>1, <1>1
<1>6. n * u = n * (d * q) + n * t /\ n * (d * q) \in Nat /\ n * t \in Nat
  BY <1>4
<1>7. b = n * u + r
  <2>1. PICK x \in Nat, y \in Nat : x = n * (d * q) /\ y = n * t
    BY <1>6
  <2>2. n * u = x + y /\ m * q = x
    BY <2>1, <1>5, <1>6
  <2>3. b = x + s /\ s = y + r
    BY <2>1, <2>2, <1>2, <1>3
  <2> QED BY <2>2, <2>3
<1>8. b % n = r
  BY <1>7, RemainderIs
<1> QED BY <1>2, <1>3, <1>8

-----------------------------------------------------------------------------
(* The end of the call *)

\* The blocks of a file cover it.
LEMMA BlocksCover == Blocks \in Nat /\ PerFile <= Blocks * BlockSize
<1>1. PICK a \in Nat, n \in Nat \ {0} : a = PerFile + BlockSize - 1 /\ n = BlockSize
  BY Params
<1>2. PICK q \in Nat, r \in 0 .. n - 1 : a = n * q + r /\ q = a \div n
  <2>1. a % n \in 0 .. n - 1 /\ a = n * (a \div n) + (a % n) /\ a \div n \in Nat
    OBVIOUS
  <2> QED BY <2>1
<1>3. n * q \in Nat /\ n * q = q * n
  OBVIOUS
<1>4. PerFile <= n * q
  BY <1>1, <1>2, <1>3, Params
<1> QED BY <1>1, <1>2, <1>3, <1>4 DEF Blocks

\* The file the scan tries first has bytes left: a scan never fails.
LEMMA FirstTry ==
    ASSUME WholeScan, TypeInv, Level, NEW m \in Nat, NEW i \in Files, LevelAt(m, i)
    PROVE  Idx(0) = i /\ 0 \in Hits
<1>1. /\ NFiles \in Nat \ {0} /\ RrMod \in Nat \ {0} /\ rr \in Nat /\ i \in 0 .. NFiles - 1
      /\ BlockSize \in Nat \ {0} /\ PerFile \in Nat \ {0}
  BY Params DEF TypeInv
<1>2. rr % NFiles = i /\ m * BlockSize < PerFile /\ m * BlockSize \in Nat
  BY <1>1 DEF LevelAt
<1>3. Idx(0) = (rr % RrMod) % NFiles
  BY <1>1 DEF Idx
<1>4. Idx(0) = i
  <2>1. CASE RrMod % NFiles = 0
    BY <2>1, <1>1, <1>2, <1>3, RemainderOfMultiple
  <2>2. CASE NoWrap
    <3>1. rr < RrMod
      <4>1. Blocks \in Nat /\ PerFile <= Blocks * BlockSize
        BY BlocksCover
      <4>2. m + 1 <= Blocks
        <5> SUFFICES ASSUME Blocks <= m PROVE FALSE
          BY <4>1
        <5>1. BlockSize * Blocks <= BlockSize * m
          BY <4>1, <1>1, TimesMono
        <5>2. BlockSize * Blocks = Blocks * BlockSize /\ BlockSize * m = m * BlockSize
              /\ Blocks * BlockSize \in Nat
          BY <4>1, <1>1
        <5> QED BY <5>1, <5>2, <4>1, <1>1, <1>2
      <4>3. m + 1 \in Nat
        OBVIOUS
      <4>4. NFiles * (m + 1) <= NFiles * Blocks /\ NFiles * Blocks \in Nat
        BY <4>1, <4>2, <4>3, <1>1, TimesMono
      <4>5. NFiles * (m + 1) = NFiles * m + NFiles /\ NFiles * m \in Nat
        BY <1>1, TimesMono
      <4>6. rr = NFiles * m + i /\ NFiles * Blocks <= RrMod
        BY <2>2 DEF LevelAt, NoWrap
      <4> QED BY <4>4, <4>5, <4>6, <1>1
    <3>2. \A a \in Nat : \A k \in Nat \ {0} : a < k => a % k = a
      OBVIOUS
    <3>3. rr % RrMod = rr
      BY <3>1, <3>2, <1>1
    <3> QED BY <3>3, <1>2, <1>3
  <2> QED BY <2>1, <2>2 DEF WholeScan
<1>5. file_off[i] = m * BlockSize
  <2>1. ~(i < i)
    BY <1>1
  <2> QED BY <2>1 DEF LevelAt
<1>6. i \notin file_done /\ file_off[i] < PerFile
  BY <1>1, <1>2, <1>5 DEF Level
<1>7. 0 \in 0 .. NFiles - 1
  BY <1>1
<1> QED BY <1>4, <1>6, <1>7 DEF Hits

\* Handing out a block keeps the files level: the next try is the next file,
\* or the first one of the next level.
LEMMA PreparedLevel ==
    ASSUME WholeScan, TypeInv, Level, NEW n \in Op, Prepared(n)
    PROVE  Level'
<1>1. /\ NFiles \in Nat \ {0} /\ RrMod \in Nat \ {0} /\ rr \in Nat
      /\ BlockSize \in Nat \ {0} /\ PerFile \in Nat \ {0} /\ Files = 0 .. NFiles - 1
  BY Params DEF TypeInv
<1>2. file_done # Files
  BY DEF Prepared, Op
<1>3. PICK m \in Nat, i \in Files : LevelAt(m, i)
  BY <1>2 DEF Level
<1>4. Idx(0) = i /\ 0 \in Hits
  BY <1>3, FirstTry
<1>5. PICK k \in 0 .. NFiles - 1 :
          /\ n.file = Idx(k) /\ \A j \in Hits : k <= j
          /\ rr' = (rr + k + 1) % RrMod
          /\ file_done' = file_done \cup {g \in Scanned(k) : file_off'[g] >= PerFile}
  BY DEF Prepared
<1>6. k = 0
  BY <1>1, <1>4, <1>5
<1>7. n.file = i /\ rr' = (rr + 1) % RrMod /\ Scanned(0) = {i}
  <2>1. Scanned(0) = {i}
    BY <1>4 DEF Scanned
  <2>2. rr + 0 + 1 = rr + 1
    BY <1>1
  <2> QED BY <2>1, <2>2, <1>4, <1>5, <1>6
<1>8. PICK x \in Nat, y \in Nat : /\ x = m * BlockSize /\ y = (m + 1) * BlockSize
                                 /\ y = x + BlockSize /\ x < PerFile
  BY <1>1, <1>3 DEF LevelAt
<1>9. /\ Upto(m + 1) = (IF y <= PerFile THEN y ELSE PerFile)
  <2>1. Min({PerFile, y}) \in {PerFile, y} /\ Min({PerFile, y}) <= y
        /\ Min({PerFile, y}) <= PerFile
    BY <1>1, LesserIs
  <2> QED BY <2>1, <1>1, <1>8 DEF Upto
<1>10. n.off = x
  <2>1. ~(i < i)
    BY <1>1
  <2>2. file_off[i] = m * BlockSize
    BY <2>1, <1>3 DEF LevelAt
  <2> QED BY <2>2, <1>7, <1>8 DEF Prepared
<1>11. n.off + n.len = Upto(m + 1)
  <2>1. PICK z \in Nat : z = PerFile - x
    BY <1>1, <1>8
  <2>2. Min({BlockSize, z}) \in {BlockSize, z} /\ Min({BlockSize, z}) <= z
        /\ Min({BlockSize, z}) <= BlockSize
    BY <1>1, <2>1, LesserIs
  <2>3. n.len = Min({BlockSize, z})
    BY <2>1, <1>10 DEF Prepared
  <2> QED BY <2>1, <2>2, <2>3, <1>1, <1>8, <1>9, <1>10
<1>12. /\ file_off' = [file_off EXCEPT ![i] = Upto(m + 1)]
       /\ file_off \in [Files -> 0 .. PerFile]
  BY <1>7, <1>11 DEF Prepared, TypeInv
<1>13. \A g \in Files : file_off'[g] = IF g = i THEN Upto(m + 1) ELSE file_off[g]
  BY <1>12
<1>14. \A g \in Files : file_off'[g] = IF g < i + 1 THEN Upto(m + 1) ELSE m * BlockSize
  <2> TAKE g \in Files
  <2>1. g < i + 1 <=> g < i \/ g = i
    BY <1>1
  <2> QED BY <2>1, <1>1, <1>3, <1>13 DEF LevelAt
<1>15. \A g \in Files : g \in file_done' <=> file_off'[g] = PerFile
  <2> TAKE g \in Files
  <2>1. file_done' = file_done \cup {h \in {i} : file_off'[h] >= PerFile}
    BY <1>5, <1>6, <1>7
  <2>2. g # i => (g \in file_done' <=> file_off'[g] = PerFile)
    BY <2>1, <1>13 DEF Level
  <2>3. i \notin file_done
    BY <1>4 DEF Hits
  <2>4. Upto(m + 1) >= PerFile <=> Upto(m + 1) = PerFile
    BY <1>1, <1>8, <1>9
  <2>5. i \in file_done' <=> file_off'[i] = PerFile
    BY <2>1, <2>3, <2>4, <1>13
  <2> QED BY <2>2, <2>5
<1>16. PICK q \in Nat : rr = NFiles * q + i /\ NFiles * q \in Nat
  <2>1. rr % NFiles = i /\ rr = NFiles * (rr \div NFiles) + (rr % NFiles)
        /\ rr \div NFiles \in Nat /\ NFiles * (rr \div NFiles) \in Nat
    BY <1>1, <1>3 DEF LevelAt
  <2> QED BY <2>1
<1>17. ASSUME NEW j \in Nat, (j + 1) * BlockSize < PerFile, NoWrap
       PROVE  NFiles * j + NFiles + NFiles <= RrMod /\ NFiles * j \in Nat
  <2>1. Blocks \in Nat /\ PerFile <= Blocks * BlockSize
    BY BlocksCover
  <2>2. j + 2 <= Blocks
    <3> SUFFICES ASSUME Blocks <= j + 1 PROVE FALSE
      BY <2>1
    <3>1. BlockSize * Blocks <= BlockSize * (j + 1)
      BY <2>1, <1>1, TimesMono
    <3>2. BlockSize * Blocks = Blocks * BlockSize
          /\ BlockSize * (j + 1) = (j + 1) * BlockSize
          /\ Blocks * BlockSize \in Nat /\ (j + 1) * BlockSize \in Nat
      BY <2>1, <1>1
    <3> QED BY <3>1, <3>2, <2>1, <1>1, <1>17
  <2>3. j + 2 \in Nat /\ j + 1 \in Nat /\ (j + 1) + 1 = j + 2
    OBVIOUS
  <2>4. NFiles * (j + 2) <= NFiles * Blocks /\ NFiles * Blocks \in Nat
    BY <2>1, <2>2, <2>3, <1>1, TimesMono
  <2>5. NFiles * (j + 1) = NFiles * j + NFiles /\ NFiles * j \in Nat
        /\ NFiles * ((j + 1) + 1) = NFiles * (j + 1) + NFiles
    BY <2>3, <1>1, TimesMono
  <2>6. NFiles * Blocks <= RrMod
    BY <1>17 DEF NoWrap
  <2> QED BY <2>3, <2>4, <2>5, <2>6, <1>1
<1>18. \A a \in Nat : \A d \in Nat \ {0} : a < d => a % d = a
  OBVIOUS
<1>19. CASE i + 1 \in Files
  <2>1. rr + 1 = NFiles * q + (i + 1) /\ rr + 1 \in Nat
    BY <1>1, <1>16
  <2>2. (rr + 1) % NFiles = i + 1
    <3>1. i + 1 \in 0 .. NFiles - 1
      BY <1>1, <1>19
    <3>2. (NFiles * q + (i + 1)) % NFiles = i + 1
      BY <3>1, <1>1, RemainderIs
    <3> QED BY <3>2, <2>1
  <2>3. NoWrap => rr' = NFiles * m + (i + 1) /\ rr' = rr + 1
    <3> SUFFICES ASSUME NoWrap PROVE rr' = NFiles * m + (i + 1) /\ rr' = rr + 1
      OBVIOUS
    <3>1. rr = NFiles * m + i /\ NFiles * m \in Nat
      BY <1>1, <1>3 DEF LevelAt
    <3>2. Blocks \in Nat /\ PerFile <= Blocks * BlockSize
      BY BlocksCover
    <3>3. m + 1 <= Blocks
      <4> SUFFICES ASSUME Blocks <= m PROVE FALSE
        BY <3>2
      <4>1. BlockSize * Blocks <= BlockSize * m
        BY <3>2, <1>1, TimesMono
      <4>2. BlockSize * Blocks = Blocks * BlockSize /\ BlockSize * m = m * BlockSize
            /\ Blocks * BlockSize \in Nat
        BY <3>2, <1>1
      <4> QED BY <4>1, <4>2, <3>2, <1>1, <1>8
    <3>4. m + 1 \in Nat
      OBVIOUS
    <3>5. NFiles * (m + 1) <= NFiles * Blocks /\ NFiles * Blocks \in Nat
      BY <3>2, <3>3, <3>4, <1>1, TimesMono
    <3>6. NFiles * (m + 1) = NFiles * m + NFiles /\ NFiles * Blocks <= RrMod
      BY <1>1, TimesMono DEF NoWrap
    <3>7. rr + 1 < RrMod
      BY <3>1, <3>5, <3>6, <1>1, <1>19
    <3>8. rr' = rr + 1
      BY <3>7, <1>1, <1>7, <1>18, <2>1
    <3> QED BY <3>1, <3>8, <1>1
  <2>4. rr' % NFiles = i + 1
    <3>1. CASE NoWrap
      BY <3>1, <2>2, <2>3
    <3>2. CASE RrMod % NFiles = 0
      BY <3>2, <2>1, <2>2, <1>1, <1>7, RemainderOfMultiple
    <3> QED BY <3>1, <3>2 DEF WholeScan
  <2>5. LevelAt(m, i + 1)'
    BY <2>3, <2>4, <1>8, <1>14 DEF LevelAt, Upto, NoWrap, Blocks, Files
  <2> QED BY <2>5, <1>15, <1>19 DEF Level, Files
<1>20. CASE i + 1 \notin Files
  <2>1. i + 1 = NFiles
    BY <1>1, <1>20
  <2>2. \A g \in Files : file_off'[g] = Upto(m + 1)
    <3>1. \A g \in Files : g < i + 1
      BY <2>1, <1>1
    <3> QED BY <3>1, <1>14
  <2>3. CASE Upto(m + 1) = PerFile
    <3>1. \A g \in Files : g \in file_done'
      BY <2>2, <2>3, <1>15
    <3>2. file_done' = Files
      BY <3>1 DEF Prepared
    <3> QED BY <3>2, <1>15 DEF Level, Files
  <2>4. CASE Upto(m + 1) # PerFile
    <3>1. y < PerFile /\ Upto(m + 1) = y
      BY <2>4, <1>1, <1>8, <1>9
    <3>2. rr + 1 = NFiles * (q + 1) + 0 /\ q + 1 \in Nat /\ rr + 1 \in Nat
      <4>1. NFiles * (q + 1) = NFiles * q + NFiles
        BY <1>1, TimesMono
      <4> QED BY <4>1, <2>1, <1>1, <1>16
    <3>3. (rr + 1) % NFiles = 0
      <4>1. 0 \in 0 .. NFiles - 1
        BY <1>1
      <4>2. (NFiles * (q + 1) + 0) % NFiles = 0
        BY <4>1, <3>2, <1>1, RemainderIs
      <4> QED BY <4>2, <3>2
    <3>4. NoWrap => rr' = NFiles * (m + 1) + 0 /\ rr' = rr + 1
      <4> SUFFICES ASSUME NoWrap PROVE rr' = NFiles * (m + 1) + 0 /\ rr' = rr + 1
        OBVIOUS
      <4>1. rr = NFiles * m + i /\ NFiles * (m + 1) = NFiles * m + NFiles
        BY <1>1, <1>3, TimesMono DEF LevelAt
      <4>2. NFiles * m + NFiles + NFiles <= RrMod /\ NFiles * m \in Nat
        BY <3>1, <1>8, <1>17
      <4>3. rr + 1 < RrMod
        BY <4>1, <4>2, <2>1, <1>1
      <4>4. rr' = rr + 1
        BY <4>3, <3>2, <1>1, <1>7, <1>18
      <4> QED BY <4>1, <4>2, <4>4, <2>1, <1>1
    <3>5. rr' % NFiles = 0
      <4>1. CASE NoWrap
        BY <4>1, <3>3, <3>4
      <4>2. CASE RrMod % NFiles = 0
        BY <4>2, <3>2, <3>3, <1>1, <1>7, RemainderOfMultiple
      <4> QED BY <4>1, <4>2 DEF WholeScan
    <3>6. \A g \in Files : ~(g < 0) /\ file_off'[g] = (m + 1) * BlockSize
      BY <2>2, <3>1, <1>1, <1>8
    <3>7. (m + 1) * BlockSize < PerFile /\ m + 1 \in Nat /\ 0 \in Files
      BY <3>1, <1>1, <1>8
    <3>8. LevelAt(m + 1, 0)'
      BY <3>4, <3>5, <3>6, <3>7 DEF LevelAt, Upto, NoWrap, Blocks, Files
    <3> QED BY <3>7, <3>8, <1>15 DEF Level, Files
  <2> QED BY <2>3, <2>4
<1> QED BY <1>19, <1>20

\* With nothing in flight and every file handed out, every byte is stored or
\* left out, and the stored ones are counted.
LEMMA AllStored ==
    ASSUME TypeInv, Live, inflight = 0, \A f \in Files : file_off[f] = PerFile
    PROVE  /\ Over = Grid /\ Done \cap Lost = {}
           /\ written = Cardinality(Done) /\ Ops = {}
<1>1. Ops = {} /\ Unseen = {}
  BY NothingInFlight DEF Live
<1>2. Handed = Grid
  <2>1. \A p \in Grid : p[1] \in Files /\ p[2] \in 0 .. PerFile - 1
    BY DEF Grid
  <2>2. \A p \in Grid : p[2] < file_off[p[1]]
    BY <2>1, Params
  <2> QED BY <2>2 DEF Handed
<1>3. Over = Grid /\ Done \cap Lost = {}
  BY <1>1, <1>2 DEF Live, BytesLive, Done, Lost, Over
<1>4. Counted = Done
  BY <1>1 DEF Counted
<1> QED BY <1>1, <1>3, <1>4 DEF Live

\* The main loop ends by its condition only with all bytes stored.
LEMMA AllCounted ==
    ASSUME TypeInv, Live, ~LoopAgain
    PROVE  /\ Over = Grid /\ Done \cap Lost = {}
           /\ written = Cardinality(Done) /\ Ops = {}
<1>1. written >= Total /\ ~(inflight > 0) /\ Total \in Nat /\ written \in Nat
      /\ inflight \in Int
  BY GridSize DEF LoopAgain, TypeInv
<1>2. Counted \in SUBSET Grid /\ Counted \subseteq Done /\ Done \subseteq Grid
  BY DEF Counted, Done
<1>3. /\ IsFiniteSet(Counted) /\ Cardinality(Counted) <= Cardinality(Grid)
      /\ Cardinality(Counted) = Cardinality(Grid) => Counted = Grid
  BY <1>2, GridSize, FS_Subset
<1>4. written = Cardinality(Counted) /\ Cardinality(Grid) = Total
  BY GridSize DEF Live
<1>5. written = Total
  BY <1>1, <1>3, <1>4
<1>6. Done = Grid
  BY <1>2, <1>3, <1>4, <1>5
<1>7. inflight \in Nat
  <2>1. /\ inflight = Cardinality(Ops) + Cardinality(Unseen)
        /\ IsFiniteSet(Ops) /\ IsFiniteSet(Unseen)
    BY SlotsAddUp DEF Live
  <2>2. Cardinality(Ops) \in Nat /\ Cardinality(Unseen) \in Nat
    BY <2>1, FS_CardinalityType
  <2> QED BY <2>1, <2>2
<1>8. inflight = 0
  BY <1>1, <1>7
<1>9. Ops = {}
  BY <1>8, NothingInFlight DEF Live
<1>10. Over = Grid /\ Done \cap Lost = {}
  BY <1>6 DEF Over, Lost, Live, BytesLive
<1> QED BY <1>4, <1>5, <1>6, <1>9, <1>10

\* The end of the enqueueing loop, when nothing is in flight: every file was
\* handed out in full.
LEMMA StopDrains ==
    ASSUME WholeScan, TypeInv, Live, EndInv, StopEnqueue
    PROVE  EndInv'
<1>1. /\ pc' = "submit" /\ pc = "fill"
      /\ UNCHANGED <<file_off, free_slots, inflight, written, ret, kernel, stored>>
  BY DEF StopEnqueue
<1>2. Settled'
  BY <1>1 DEF Settled, Running
<1>3. file_done # Files => Hits # {}
  <2> SUFFICES ASSUME file_done # Files PROVE Hits # {}
    OBVIOUS
  <2>1. PICK m \in Nat, i \in Files : LevelAt(m, i)
    BY DEF EndInv, Level
  <2>2. 0 \in Hits
    BY <2>1, FirstTry DEF EndInv
  <2> QED BY <2>2
<1>4. ~CanEnqueue
  BY <1>3 DEF StopEnqueue, CanEnqueue
<1>5. UNCHANGED <<rr, file_done>>
  BY <1>4 DEF StopEnqueue
<1>6. Level'
  BY <1>1, <1>5 DEF EndInv, Level, LevelAt, Upto, NoWrap, Blocks, Files
<1>7. Drained'
  <2> SUFFICES ASSUME inflight = 0 PROVE \A f \in Files : file_off[f] = PerFile
    BY <1>1 DEF Drained, Files
  <2>1. Len(free_slots) = QD
    BY Params DEF Live, SlotsLive, TypeInv
  <2>2. free_slots # <<>>
    BY <2>1, Params
  <2>3. file_done = Files
    BY <2>2, <1>4 DEF CanEnqueue
  <2> QED BY <2>3 DEF TypeInv
<1> QED BY <1>2, <1>6, <1>7 DEF EndInv

\* A step that hands nothing out, does not end the enqueueing loop and
\* settles what it leaves.
LEMMA EndSame ==
    ASSUME EndInv, UNCHANGED <<rr, file_off, file_done>>,
           pc' # "submit" \/ UNCHANGED <<pc, inflight>>, Settled'
    PROVE  EndInv'
<1>1. Level'
  BY DEF EndInv, Level, LevelAt, Upto, NoWrap, Blocks, Files
<1>2. Drained'
  BY DEF EndInv, Drained, Files
<1> QED BY <1>1, <1>2 DEF EndInv

\* A step that leaves the bytes alone keeps them settled.
LEMMA BytesKept ==
    ASSUME UNCHANGED <<stored, lost>>
    PROVE  Done' = Done /\ Lost' = Lost /\ Over' = Over /\ Grid' = Grid
BY DEF Done, Lost, Over, Grid, Files

\* Every step keeps what the end of the call rests on.
LEMMA EndStep == ASSUME WholeScan PROVE ManyInv /\ EndInv /\ [Next]_vars => EndInv'
<1> SUFFICES ASSUME ManyInv, EndInv, [Next]_vars PROVE EndInv'
  OBVIOUS
<1>1. TypeInv /\ (Running => Live) /\ Level /\ Drained /\ Settled
  BY DEF ManyInv, EndInv
<1>2. CASE Setup \/ Peek
  <2>1. /\ UNCHANGED <<rr, file_off, file_done>> /\ pc' \in {"fill", "reap"}
    BY <1>2 DEF Setup, Peek
  <2>2. Settled'
    BY <2>1 DEF Settled, Running
  <2> QED BY <2>1, <2>2, EndSame
<1>3. CASE Submit
  <2>1. /\ UNCHANGED <<rr, file_off, file_done, inflight, written, stored, lost>>
        /\ pc' = (IF inflight = 0 THEN "end" ELSE "wait") /\ kernel' = Ops
        /\ pc = "submit" /\ Running
    BY <1>3 DEF Submit, Running, Ops
  <2>2. ASSUME inflight = 0
        PROVE  /\ Over = Grid /\ Done \cap Lost = {}
               /\ written = Cardinality(Done) /\ Ops = {}
    BY <2>1, <2>2, <1>1, AllStored DEF Drained
  <2>3. Settled'
    BY <2>1, <2>2, BytesKept DEF Settled, Running
  <2> QED BY <2>1, <2>3, EndSame
<1>4. CASE BatchDone
  <2>1. /\ UNCHANGED <<rr, file_off, file_done, inflight, written, stored, lost, kernel>>
        /\ pc' = (IF LoopAgain THEN "fill" ELSE "end") /\ Running
    BY <1>4 DEF BatchDone, Running
  <2>2. ASSUME ~LoopAgain
        PROVE  /\ Over = Grid /\ Done \cap Lost = {}
               /\ written = Cardinality(Done) /\ Ops = {}
    BY <2>1, <2>2, <1>1, AllCounted
  <2>3. Ops = {} => kernel' = {}
    BY <2>1 DEF Ops
  <2>4. Settled'
    BY <2>1, <2>2, <2>3, BytesKept DEF Settled, Running
  <2> QED BY <2>1, <2>4, EndSame
<1>5. CASE Enqueue
  <2>1. Live /\ Places /\ SlotsLive
    BY <1>1, <1>5 DEF Running, Enqueue, Live
  <2>2. PICK n \in Op : Prepared(n)
    BY <1>1, <1>5, <2>1, EnqueueIs
  <2>3. Level'
    BY <1>1, <2>2, PreparedLevel
  <2>4. pc' = "fill"
    BY <2>2 DEF Prepared
  <2> QED BY <2>3, <2>4 DEF EndInv, Drained, Settled, Running
<1>6. CASE StopEnqueue
  <2>1. Live
    BY <1>1, <1>6 DEF Running, StopEnqueue
  <2> QED BY <2>1, <1>1, <1>6, StopDrains
<1>7. CASE SetupFails \/ SubmitFails \/ WaitFails
  <2>1. /\ UNCHANGED <<rr, file_off, file_done>> /\ pc' \in {"out", "done"}
        /\ ret' # "ok"
    BY <1>7 DEF SetupFails, SubmitFails, WaitFails
  <2>2. Settled'
    BY <2>1 DEF Settled, Running
  <2> QED BY <2>1, <2>2, EndSame
<1>8. ASSUME NEW c \in batch, ReapError(c) PROVE EndInv'
  <2>1. /\ UNCHANGED <<rr, file_off, file_done>> /\ pc' = "out" /\ ret' # "ok"
    BY <1>8 DEF ReapError
  <2>2. Settled'
    BY <2>1 DEF Settled, Running
  <2> QED BY <2>1, <2>2, EndSame
<1>9. ASSUME NEW c \in batch, Reap(c) PROVE EndInv'
  <2>1. /\ UNCHANGED <<rr, file_off, file_done>> /\ pc' = "reap"
    BY <1>9 DEF Reap
  <2>2. Settled'
    BY <2>1 DEF Settled, Running
  <2> QED BY <2>1, <2>2, EndSame
<1>10. CASE FsyncEnd \/ Exit
  <2>1. /\ UNCHANGED <<rr, file_off, file_done, written, stored, lost>>
        /\ pc' \in {"out", "done"} /\ kernel' \subseteq kernel
        /\ pc = "end" \/ (~Running /\ ret' = ret)
    BY <1>10 DEF FsyncEnd, Exit, Running
  <2>2. Settled'
    BY <1>1, <2>1, BytesKept DEF Settled, Running
  <2> QED BY <2>1, <2>2, EndSame
<1>11. ASSUME NEW o \in kernel, Complete(o) PROVE EndInv'
  <2>1. UNCHANGED <<rr, file_off, file_done, pc, inflight, ret>>
    BY <1>11 DEF Complete
  <2>2. Settled'
    BY <1>1, <2>1 DEF Settled, Running
  <2> QED BY <2>1, <2>2, EndSame
<1>12. CASE UNCHANGED vars
  <2>1. UNCHANGED <<rr, file_off, file_done, pc, inflight, ret, written, stored, lost,
                    kernel>>
    BY <1>12 DEF vars
  <2>2. Settled'
    BY <1>1, <2>1, BytesKept DEF Settled, Running
  <2> QED BY <2>1, <2>2, EndSame
<1> QED
  BY <1>2, <1>3, <1>4, <1>5, <1>6, <1>7, <1>8, <1>9, <1>10, <1>11, <1>12
     DEF Next, Writer, Kernel, Terminated

\* The files are level, at nothing, when the call starts.
LEMMA EndInit == Init => EndInv
<1> SUFFICES ASSUME Init PROVE EndInv
  OBVIOUS
<1>1. rr = 0 /\ pc = "setup" /\ file_off = [f \in Files |-> 0] /\ file_done = {}
  BY DEF Init
<1>2. /\ NFiles \in Nat \ {0} /\ PerFile \in Nat \ {0} /\ BlockSize \in Nat \ {0}
      /\ Files = 0 .. NFiles - 1
  BY Params
<1>3. 0 * BlockSize = 0 /\ NFiles * 0 + 0 = 0 /\ 0 % NFiles = 0 /\ 0 \in Files
  BY <1>2
<1>4. \A g \in Files : ~(g < 0)
  BY <1>2
<1>5. LevelAt(0, 0)
  BY <1>1, <1>2, <1>3, <1>4 DEF LevelAt
<1>6. Level
  BY <1>1, <1>2, <1>3, <1>5 DEF Level
<1> QED BY <1>1, <1>6 DEF EndInv, Drained, Settled, Running

\* What the end of the call says of the files.
LEMMA SettledFiles ==
    ASSUME TypeInv, Settled, pc = "done", ret = "ok"
    PROVE  /\ \A f \in Files : stored[f] = (0 .. PerFile - 1) \ lost[f]
           /\ StoredBytes = Done /\ written = Cardinality(Done)
<1>1. Over = Grid /\ Done \cap Lost = {} /\ written = Cardinality(Done)
  BY DEF Settled, Running
<1>2. ASSUME NEW f \in Files PROVE stored[f] = (0 .. PerFile - 1) \ lost[f]
  <2>1. \A x : /\ (x \in stored[f] <=> <<f, x>> \in Done)
               /\ (x \in lost[f] <=> <<f, x>> \in Lost)
    BY FileBytes
  <2>2. \A x : <<f, x>> \in Grid <=> x \in 0 .. PerFile - 1
    BY DEF Grid
  <2> QED BY <2>1, <2>2, <1>1 DEF Over
<1>3. StoredBytes = Done
  <2>1. \A f \in Files : stored[f] \subseteq 0 .. PerFile - 1
    BY DEF TypeInv
  <2>2. \A p : p \in StoredBytes <=> \E f \in Files : \E x \in stored[f] : p = <<f, x>>
    BY DEF StoredBytes
  <2>3. \A p : p \in Done <=> \E f \in Files : \E x \in stored[f] : p = <<f, x>>
    <3> TAKE p
    <3>1. p \in Grid <=> \E f \in Files, x \in 0 .. PerFile - 1 : p = <<f, x>>
      BY DEF Grid
    <3>2. \A f, x : p = <<f, x>> => p[1] = f /\ p[2] = x
      OBVIOUS
    <3> QED BY <3>1, <3>2, <2>1 DEF Done
  <2> QED BY <2>2, <2>3
<1> QED BY <1>1, <1>2, <1>3

\* A call that returns success has handed every byte of every file to the
\* kernel and waited for the answer, so that only what a short write left out
\* is missing, and returns the number of bytes stored, provided the
\* round-robin counter cannot wrap in the middle of a scan: an `unsigned rr`
\* that wraps at 2^32 blocks, with a number of files that does not divide
\* 2^32, can skip a file (uring_write_manyfiles).
THEOREM ManyAllWritten == ASSUME WholeScan PROVE Spec => []AllWritten
<1>1. ManyInv /\ EndInv => AllWritten
  BY SettledFiles DEF AllWritten, ManyInv, EndInv
<1>2. ManyInv /\ EndInv /\ [Next]_vars => EndInv'
  BY EndStep
<1> QED BY <1>1, <1>2, EndInit, ManyInit, ManyStep, PTL DEF Spec

\* Short writes are the only way for a successful call to leave a file
\* incomplete: when the kernel writes what it is given in full, every file is.
THEOREM ManyFilesComplete ==
    ASSUME WholeScan, "short" \notin Faults PROVE Spec => []FilesComplete
<1>1. ManyInv /\ EndInv => FilesComplete
  <2> SUFFICES ASSUME TypeInv, Settled, pc = "done", ret = "ok", NEW f \in Files
               PROVE  stored[f] = 0 .. PerFile - 1
    BY DEF FilesComplete, ManyInv, EndInv
  <2>1. lost[f] = {}
    BY DEF TypeInv
  <2> QED BY <2>1, SettledFiles
<1>2. ManyInv /\ EndInv /\ [Next]_vars => EndInv'
  BY EndStep
<1> QED BY <1>1, <1>2, EndInit, ManyInit, ManyStep, PTL DEF Spec
=============================================================================

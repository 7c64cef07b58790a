--------------------------- MODULE UringCtxProofs ---------------------------
(***************************************************************************)
(* Theorems about UringCtx: each operation is in one place, buffers are    *)
(* pinned exactly while they have to be, and a synchronous call that has   *)
(* the ring to itself returns its own results and leaves the ring empty.   *)
(*                                                                         *)
(* The many calls of the class change the ring in few ways.  The proofs    *)
(* first reduce every action to one of these (Effects), then show what     *)
(* each of them preserves.                                                 *)
(***************************************************************************)
EXTENDS UringCtx, SequenceTheorems, FiniteSetTheorems, TLAPS

Kinds == AsyncKinds \cup SyncKinds \cup {"msg"}
SyncFns == {"single", "batch", "link", "pair"}

Op == [id : Nat \ {0}, sqe : Nat, tag : Nat, kind : Kinds, after : Nat]
CqeType == [id : Nat \ {0}, sqe : Nat, tag : Nat, kind : Kinds, after : Nat,
            ok : BOOLEAN]

-----------------------------------------------------------------------------
(* The inductive invariant *)

RingTypes ==
    /\ sq \in Seq(Op) /\ kernel \in SUBSET Op /\ cq \in Seq(CqeType)
    /\ issued \in Nat

\* Operations are named once, by the numbers up to issued.
Named ==
    /\ \A o \in Outstanding : o.id <= issued
    /\ \A o, p \in Outstanding : o.id = p.id => o = p

RingInv == RingTypes /\ Named /\ OnePlace

CallTypes ==
    /\ call \in [fn : SyncFns \cup {"none", "wait", "submit_and_wait"},
                 own : SUBSET Nat, got : SUBSET Nat, need : Nat]
    /\ last \in [own : SUBSET Nat, got : SUBSET Nat,
                 outcome : {"none", "result", "error"}]
    /\ call.fn \in SyncFns <=> call.own # {}
    /\ call.own = {} => call.got = {}
    /\ call.fn = "single" => call.need = 1
    /\ call.fn \in {"link", "pair"} => call.need \in {1, 2}
    /\ call.fn = "batch" => call.need >= 1

PinTypes ==
    /\ state \in {"open", "closing", "closed"}
    /\ pins \in [Tags -> Nat]
    /\ raised \subseteq Nat
    /\ mess \subseteq Messes
    /\ state # "open" => \A t \in Tags : pins[t] = NoOp

\* A buffer whose SQE is still in the ring belongs to a call that raised, or
\* the SQE is there for the second time.
QueuedRaised ==
    \A o \in ToSet(sq) : (o.kind = "buf" /\ o.sqe = o.id) => o.id \in raised

\* Buffers come with a tag of the caller.
BufTags == \A o \in Outstanding : o.kind = "buf" => o.tag \in Tags

\* Until link_read_write runs out of room, the kernel runs what was prepared.
RunOnce == "stale" \notin mess => \A o \in Outstanding : o.sqe = o.id

\* Until a tag is reused, it names one operation.
TagsApart ==
    "dup" \notin mess =>
        \A o, p \in Outstanding : (o.tag = p.tag /\ o.tag \in Tags) => o = p

\* A synchronous call that found the ring empty keeps it for itself.
SyncAlone ==
    ("mixed" \notin mess /\ call.own # {}) =>
        \A o \in Outstanding : o.id \in call.own /\ o.kind \in SyncKinds

\* If besides nothing was left behind, what is outstanding is exactly what
\* the call still has to take.
SyncExact ==
    (mess \cap {"mixed", "left"} = {} /\ call.own # {}) =>
        /\ Ids(Outstanding) = call.own \ call.got
        /\ call.got \subseteq call.own
        /\ IsFiniteSet(call.own)
        /\ Cardinality(call.own \ call.got) = call.need
        /\ \A o \in Outstanding : o.kind \notin ShotKinds

\* Outside of synchronous calls nothing of theirs is left.
Quiet ==
    (mess \cap {"mixed", "left"} = {} /\ call.own = {}) =>
        \A o \in Outstanding : o.kind \notin SyncKinds

\* A context that is being closed is in no call.
ClosedIdle == state # "open" => call = Idle

\* The entries of the ring hold SQEs that some call prepared, or zeros.
SlotsOK ==
    /\ slots \in [1 .. Entries -> [sqe : Nat, tag : Nat, kind : Kinds]]
    /\ \A i \in 1 .. Entries :
          /\ slots[i].sqe <= issued
          /\ slots[i].kind = "buf" => slots[i].tag \in Tags

PinInv ==
    /\ PinTypes /\ QueuedRaised /\ BufTags /\ RunOnce /\ TagsApart
    /\ InFlightPinned
SyncInv == CallTypes /\ SyncAlone /\ SyncExact /\ Quiet /\ SyncOwn
CtxInv == RingInv /\ PinInv /\ SyncInv /\ NoLeakedPin

-----------------------------------------------------------------------------
(* Effects: what the actions do to the ring *)

\* The SQEs a call prepares: fresh names in order, different tags.
Fresh(ops) ==
    /\ ops \in Seq(Op) /\ Len(ops) >= 1
    /\ \A i \in 1 .. Len(ops) : ops[i].id = issued + i
    /\ \A i, j \in 1 .. Len(ops) : ops[i].tag = ops[j].tag => i = j

\* The kernel accepts them, and all that was still queued.
Accepted(ops) ==
    /\ Len(sq) + Len(ops) <= Entries
    /\ issued' = issued + Len(ops)
    /\ kernel' = kernel \cup ToSet(sq \o ops)
    /\ sq' = <<>>
    /\ UNCHANGED <<state, cq>>

\* As many as fit stay in the submission queue.
Kept(ops, n) ==
    /\ n \in 0 .. Len(ops) /\ Len(sq) + n <= Entries
    /\ issued' = issued + Len(ops)
    /\ sq' = sq \o SubSeq(ops, 1, n)
    /\ UNCHANGED <<state, kernel, cq>>

Flushed ==
    /\ kernel' = kernel \cup ToSet(sq)
    /\ sq' = <<>>
    /\ UNCHANGED <<state, cq, issued>>

Taken ==
    /\ cq # <<>>
    /\ cq' = Tail(cq)
    /\ UNCHANGED <<state, sq, kernel, issued>>

Destroyed ==
    /\ sq' = <<>> /\ kernel' = {} /\ cq' = <<>>
    /\ UNCHANGED issued

\* A CQE of no operation of this ring.
Messaged(t) ==
    /\ issued' = issued + 1
    /\ cq' = Append(cq, [id |-> issued + 1, sqe |-> issued + 1, tag |-> t,
                         kind |-> "msg", after |-> NoOp, ok |-> TRUE])
    /\ UNCHANGED <<state, sq, kernel>>

\* An operation of the kernel posts a CQE and, unless it stays armed, ends.
Posted(o, ok, armed) ==
    /\ armed => o.kind \in ShotKinds
    /\ kernel' = IF armed THEN kernel ELSE kernel \ {o}
    /\ cq' = Append(cq, Cqe(o, ok))
    /\ UNCHANGED <<state, sq, issued>>

\* Two operations end.
PostedTwo(o, p) ==
    /\ o # p
    /\ kernel' = kernel \ {o, p}
    /\ cq' = cq \o <<Cqe(o, TRUE), Cqe(p, TRUE)>>
    /\ UNCHANGED <<state, sq, issued>>

-----------------------------------------------------------------------------
(* Sequences as sets *)

\* The elements of a sequence are its indexed values, all of its type.
LEMMA ToSetIs ==
    ASSUME NEW S, NEW s \in Seq(S)
    PROVE  /\ ToSet(s) = {s[i] : i \in 1 .. Len(s)}
           /\ ToSet(s) \subseteq S
           /\ \A x \in ToSet(s) : \E i \in 1 .. Len(s) : x = s[i]
           /\ \A i \in 1 .. Len(s) : s[i] \in ToSet(s) /\ s[i] \in S
BY DEF ToSet

\* The elements of a concatenation are those of its parts.
LEMMA ToSetConcat ==
    ASSUME NEW S, NEW s \in Seq(S), NEW u \in Seq(S)
    PROVE  ToSet(s \o u) = ToSet(s) \cup ToSet(u)
<1>1. /\ s \o u \in Seq(S)
      /\ Len(s \o u) = Len(s) + Len(u)
      /\ \A i \in 1 .. Len(s) + Len(u) : (s \o u)[i] =
                  IF i <= Len(s) THEN s[i] ELSE u[i - Len(s)]
  BY ConcatProperties
<1>2. Len(s) \in Nat /\ Len(u) \in Nat
  OBVIOUS
<1>3. ToSet(s \o u) \subseteq ToSet(s) \cup ToSet(u)
  <2> SUFFICES ASSUME NEW i \in 1 .. Len(s) + Len(u)
               PROVE  (s \o u)[i] \in ToSet(s) \cup ToSet(u)
    BY <1>1 DEF ToSet
  <2>1. CASE i <= Len(s)
    BY <2>1, <1>1, <1>2 DEF ToSet
  <2>2. CASE i > Len(s)
    <3>1. i - Len(s) \in 1 .. Len(u)
      BY <2>2, <1>2
    <3> QED BY <2>2, <3>1, <1>1, <1>2 DEF ToSet
  <2> QED BY <2>1, <2>2, <1>2
<1>4. ToSet(s) \subseteq ToSet(s \o u)
  <2> SUFFICES ASSUME NEW i \in 1 .. Len(s)
               PROVE  s[i] \in ToSet(s \o u)
    BY DEF ToSet
  <2>1. i \in 1 .. Len(s) + Len(u) /\ (s \o u)[i] = s[i]
    BY <1>1, <1>2
  <2> QED BY <2>1, <1>1 DEF ToSet
<1>5. ToSet(u) \subseteq ToSet(s \o u)
  <2> SUFFICES ASSUME NEW i \in 1 .. Len(u)
               PROVE  u[i] \in ToSet(s \o u)
    BY DEF ToSet
  <2>1. PICK k \in 1 .. Len(s) + Len(u) : k = Len(s) + i
    BY <1>2
  <2>2. (s \o u)[k] = u[i]
    BY <2>1, <1>1, <1>2
  <2> QED BY <2>2, <1>1, ToSetIs
<1> QED BY <1>3, <1>4, <1>5

\* Appending adds one element.
LEMMA ToSetAppend ==
    ASSUME NEW S, NEW s \in Seq(S), NEW x \in S
    PROVE  /\ Append(s, x) \in Seq(S)
           /\ ToSet(Append(s, x)) = ToSet(s) \cup {x}
<1>1. /\ Append(s, x) \in Seq(S) /\ Len(Append(s, x)) = Len(s) + 1
      /\ \A i \in 1 .. Len(s) : Append(s, x)[i] = s[i]
      /\ Append(s, x)[Len(s) + 1] = x
      /\ Len(s) \in Nat
  OBVIOUS
<1>2. \A i \in 1 .. Len(s) + 1 : i \in 1 .. Len(s) \/ i = Len(s) + 1
  BY <1>1
<1> QED BY <1>1, <1>2 DEF ToSet

\* A non-empty sequence consists of its head and its tail.
LEMMA ToSetTail ==
    ASSUME NEW S, NEW s \in Seq(S), s # <<>>
    PROVE  /\ Tail(s) \in Seq(S) /\ Head(s) \in S
           /\ Len(Tail(s)) = Len(s) - 1 /\ Len(s) \in Nat \ {0}
           /\ Head(s) = s[1]
           /\ \A i \in 1 .. Len(Tail(s)) : Tail(s)[i] = s[i + 1]
           /\ ToSet(s) = {Head(s)} \cup ToSet(Tail(s))
<1>1. /\ Tail(s) \in Seq(S) /\ Head(s) \in S
      /\ Len(Tail(s)) = Len(s) - 1 /\ Len(s) \in Nat \ {0}
      /\ Head(s) = s[1]
      /\ \A i \in 1 .. Len(Tail(s)) : Tail(s)[i] = s[i + 1]
  BY HeadTailProperties, EmptySeq
<1>2. ToSet(Tail(s)) \subseteq ToSet(s)
  BY <1>1 DEF ToSet
<1>3. \A i \in 1 .. Len(s) : i = 1 \/ i - 1 \in 1 .. Len(Tail(s))
  BY <1>1
<1>4. \A i \in 1 .. Len(s) : s[i] \in {Head(s)} \cup ToSet(Tail(s))
  <2> SUFFICES ASSUME NEW i \in 1 .. Len(s), i # 1
               PROVE  s[i] \in ToSet(Tail(s))
    BY <1>1
  <2>1. PICK k \in 1 .. Len(Tail(s)) : k = i - 1
    BY <1>3
  <2>2. s[i] = Tail(s)[k]
    BY <2>1, <1>1
  <2> QED BY <2>2, <1>1, ToSetIs
<1>5. ToSet(s) \subseteq {Head(s)} \cup ToSet(Tail(s))
  BY <1>4 DEF ToSet
<1>6. Head(s) \in ToSet(s)
  BY <1>1 DEF ToSet
<1> QED BY <1>1, <1>2, <1>5, <1>6
-----------------------------------------------------------------------------
(* The ring *)

\* OnePlace, element by element.
Once ==
    /\ Len(sq) <= Entries
    /\ \A i, j \in 1 .. Len(cq) : cq[i].id = cq[j].id =>
          i = j \/ cq[i].kind \in ShotKinds
    /\ \A i, j \in 1 .. Len(sq) : sq[i].id = sq[j].id => i = j
    /\ \A i \in 1 .. Len(sq) : \A o \in kernel : sq[i].id # o.id
    /\ \A j \in 1 .. Len(cq) : \A i \in 1 .. Len(sq) : cq[j].id # sq[i].id
    /\ \A j \in 1 .. Len(cq) : \A o \in kernel :
          cq[j].id = o.id => cq[j].kind \in ShotKinds

\* The two forms say the same.
LEMMA OnceIs == RingTypes => (OnePlace <=> Once)
<1> SUFFICES ASSUME RingTypes PROVE OnePlace <=> Once
  OBVIOUS
<1>1. /\ \A x \in ToSet(sq) : \E i \in 1 .. Len(sq) : x = sq[i]
      /\ \A i \in 1 .. Len(sq) : sq[i] \in ToSet(sq)
      /\ \A x \in ToSet(cq) : \E i \in 1 .. Len(cq) : x = cq[i]
      /\ \A i \in 1 .. Len(cq) : cq[i] \in ToSet(cq)
  BY ToSetIs DEF RingTypes
<1>2. Ids(ToSet(sq)) \cap Ids(kernel) = {}
        <=> \A i \in 1 .. Len(sq) : \A o \in kernel : sq[i].id # o.id
  <2>1. Ids(ToSet(sq)) \cap Ids(kernel) = {}
          <=> \A x \in ToSet(sq) : \A o \in kernel : x.id # o.id
    BY DEF Ids
  <2> QED BY <1>1, <2>1
<1>3. (\A c \in ToSet(cq) : c.id \notin Ids(ToSet(sq)))
        <=> \A j \in 1 .. Len(cq) : \A i \in 1 .. Len(sq) : cq[j].id # sq[i].id
  BY <1>1 DEF Ids
<1>4. (\A c \in ToSet(cq) : c.kind \notin ShotKinds => c.id \notin Ids(kernel))
        <=> \A j \in 1 .. Len(cq) : \A o \in kernel :
               cq[j].id = o.id => cq[j].kind \in ShotKinds
  BY <1>1 DEF Ids
<1> QED BY <1>2, <1>3, <1>4 DEF OnePlace, Once

\* An operation is recovered from its CQE.
LEMMA OriginOf ==
    /\ \A c \in CqeType : /\ Origin(c) \in Op
                          /\ Origin(c).id = c.id /\ Origin(c).tag = c.tag
                          /\ Origin(c).kind = c.kind /\ Origin(c).sqe = c.sqe
    /\ \A o \in Op : \A ok \in BOOLEAN :
          /\ Cqe(o, ok) \in CqeType /\ Origin(Cqe(o, ok)) = o
          /\ Cqe(o, ok).id = o.id /\ Cqe(o, ok).kind = o.kind
BY DEF Origin, Cqe, Op, CqeType

\* What is outstanding, element by element.
LEMMA OutIs ==
    RingTypes =>
        /\ Outstanding \subseteq Op
        /\ \A o \in Outstanding :
              \/ \E i \in 1 .. Len(sq) : o = sq[i]
              \/ o \in kernel
              \/ \E j \in 1 .. Len(cq) : o = Origin(cq[j])
        /\ \A i \in 1 .. Len(sq) : sq[i] \in Outstanding /\ sq[i] \in Op
        /\ \A o \in kernel : o \in Outstanding /\ o \in Op
        /\ \A j \in 1 .. Len(cq) :
              /\ Origin(cq[j]) \in Outstanding /\ cq[j] \in CqeType
              /\ Origin(cq[j]).id = cq[j].id /\ Origin(cq[j]).kind = cq[j].kind
              /\ Origin(cq[j]).tag = cq[j].tag
        /\ Len(sq) \in Nat /\ Len(cq) \in Nat
<1> SUFFICES ASSUME RingTypes
             PROVE  OutIs!2
  OBVIOUS
<1>1. /\ \A x \in ToSet(sq) : \E i \in 1 .. Len(sq) : x = sq[i]
      /\ \A i \in 1 .. Len(sq) : sq[i] \in ToSet(sq) /\ sq[i] \in Op
      /\ \A x \in ToSet(cq) : \E i \in 1 .. Len(cq) : x = cq[i]
      /\ \A i \in 1 .. Len(cq) : cq[i] \in ToSet(cq) /\ cq[i] \in CqeType
      /\ ToSet(sq) \subseteq Op /\ ToSet(cq) \subseteq CqeType
      /\ Len(sq) \in Nat /\ Len(cq) \in Nat
  BY ToSetIs DEF RingTypes
<1>2. kernel \subseteq Op
  BY DEF RingTypes
<1> QED BY <1>1, <1>2, OriginOf DEF Outstanding
\* Where an outstanding operation is.
Located ==
    \A p \in Outstanding : \/ \E i \in 1 .. Len(sq) : p = sq[i]
                           \/ p \in kernel
                           \/ \E j \in 1 .. Len(cq) : p.id = cq[j].id

\* It is in one of the three queues.
LEMMA OutWhere == RingTypes => Located
BY OutIs DEF Located

\* The names of new SQEs are used nowhere.
LEMMA FreshNames ==
    ASSUME RingInv, NEW ops, Fresh(ops)
    PROVE  /\ \A i \in 1 .. Len(ops) : ops[i] \in Op /\ ops[i].id = issued + i
           /\ \A i \in 1 .. Len(ops) : \A o \in Outstanding : ops[i].id # o.id
           /\ \A i, j \in 1 .. Len(ops) : ops[i].id = ops[j].id => i = j
           /\ \A i \in 1 .. Len(ops) : ops[i].id <= issued + Len(ops)
           /\ Len(ops) \in Nat \ {0}
<1>1. Len(ops) \in Nat /\ \A i \in 1 .. Len(ops) : ops[i] \in Op
  BY DEF Fresh
<1>2. \A o \in Outstanding : o.id \in Nat /\ o.id <= issued
  BY OutIs DEF RingInv, Named, Op
<1> QED BY <1>1, <1>2 DEF Fresh, RingInv, RingTypes

\* A submit that succeeds hands every queued operation over, once.
LEMMA AcceptedRing ==
    ASSUME RingInv, NEW ops, Fresh(ops), Accepted(ops)
    PROVE  /\ RingInv'
           /\ Outstanding' = Outstanding \cup ToSet(ops)
           /\ kernel' = kernel \cup ToSet(sq) \cup ToSet(ops)
<1>1. /\ sq \in Seq(Op) /\ ops \in Seq(Op)
      /\ ToSet(sq) \subseteq Op /\ ToSet(ops) \subseteq Op
      /\ \A x \in ToSet(sq) : \E i \in 1 .. Len(sq) : x = sq[i]
      /\ \A x \in ToSet(ops) : \E i \in 1 .. Len(ops) : x = ops[i]
  BY ToSetIs DEF RingInv, RingTypes, Fresh
<1>2. kernel' = kernel \cup ToSet(sq) \cup ToSet(ops)
  BY <1>1, ToSetConcat DEF Accepted
<1>3. sq' = <<>> /\ Len(sq') = 0 /\ ToSet(sq') = {}
  BY DEF Accepted, ToSet
<1>4. Outstanding' = Outstanding \cup ToSet(ops)
  BY <1>2, <1>3 DEF Outstanding, Accepted
<1>5. RingTypes'
  BY <1>1, <1>2, <1>3, FreshNames DEF RingInv, RingTypes, Accepted
<1>6. Named'
  <2>1. \A o \in ToSet(ops) : o.id <= issued' /\ \A p \in Outstanding : o.id # p.id
    BY <1>1, FreshNames DEF Accepted
  <2>2. \A o, p \in ToSet(ops) : o.id = p.id => o = p
    BY <1>1, FreshNames
  <2>3. \A o \in Outstanding : o.id <= issued'
    BY FreshNames, OutIs DEF RingInv, Named, Accepted, RingTypes, Op
  <2> QED BY <1>4, <2>1, <2>2, <2>3 DEF Named, RingInv
<1>7. Once'
  <2>1. cq' = cq /\ Len(sq') <= Entries
    BY <1>3, UringCtxAssumption DEF Accepted
  <2>2. \A j \in 1 .. Len(cq) : \A o \in kernel' :
           cq[j].id = o.id => cq[j].kind \in ShotKinds
    <3> SUFFICES ASSUME NEW j \in 1 .. Len(cq), NEW o \in kernel',
                        cq[j].id = o.id
                 PROVE  cq[j].kind \in ShotKinds
      OBVIOUS
    <3>1. CASE o \in kernel
      BY <3>1, OnceIs DEF RingInv, Once
    <3>2. CASE o \in ToSet(sq)
      BY <3>2, <1>1, OnceIs DEF RingInv, Once
    <3>3. CASE o \in ToSet(ops)
      BY <3>3, <1>1, FreshNames, OutIs DEF RingInv
    <3> QED BY <3>1, <3>2, <3>3, <1>2
  <2>3. Once
    BY OnceIs DEF RingInv
  <2> QED BY <2>1, <2>2, <2>3, <1>3 DEF Once
<1>8. OnePlace'
  BY <1>5, <1>7, OnceIs, PTL
<1> QED BY <1>2, <1>4, <1>5, <1>6, <1>8 DEF RingInv

\* A call that gives up half-way leaves the SQEs that fit in the queue.
LEMMA KeptRing ==
    ASSUME RingInv, NEW ops, Fresh(ops), NEW n, Kept(ops, n)
    PROVE  /\ RingInv'
           /\ ToSet(sq') \subseteq ToSet(sq) \cup ToSet(ops)
           /\ Outstanding \subseteq Outstanding'
           /\ Outstanding' \subseteq Outstanding \cup ToSet(ops)
<1> DEFINE sub == SubSeq(ops, 1, n)
<1>1. /\ sq \in Seq(Op) /\ ops \in Seq(Op) /\ n \in 0 .. Len(ops)
      /\ ToSet(sq) \subseteq Op
      /\ \A x \in ToSet(sq) : \E i \in 1 .. Len(sq) : x = sq[i]
      /\ \A x \in ToSet(ops) : \E i \in 1 .. Len(ops) : x = ops[i]
      /\ Len(sq) \in Nat /\ Len(ops) \in Nat
      /\ \A i \in 1 .. Len(ops) : ops[i] \in ToSet(ops)
  BY ToSetIs DEF RingInv, RingTypes, Fresh, Kept
<1>2. sub \in Seq(Op) /\ Len(sub) = n /\ \A i \in 1 .. n : sub[i] = ops[i]
  <2>1. \A i \in 1 .. n : ops[i] \in Op
    BY <1>1
  <2>2. /\ SubSeq(ops, 1, n) \in Seq(Op)
        /\ Len(SubSeq(ops, 1, n)) = IF 1 <= n THEN n - 1 + 1 ELSE 0
        /\ \A i \in 1 .. n - 1 + 1 : SubSeq(ops, 1, n)[i] = ops[1 + i - 1]
    BY <2>1, <1>1, SubSeqProperties
  <2> QED BY <2>2, <1>1
<1>3. sq' = sq \o sub /\ kernel' = kernel /\ cq' = cq /\ issued' = issued + Len(ops)
  BY DEF Kept
<1> HIDE DEF sub
<1>4. /\ sq' \in Seq(Op) /\ Len(sq') = Len(sq) + n
      /\ \A i \in 1 .. Len(sq) + n : sq'[i] =
            IF i <= Len(sq) THEN sq[i] ELSE sub[i - Len(sq)]
  <2>1. /\ sq \o sub \in Seq(Op) /\ Len(sq \o sub) = Len(sq) + Len(sub)
        /\ \A i \in 1 .. Len(sq) + Len(sub) : (sq \o sub)[i] =
              IF i <= Len(sq) THEN sq[i] ELSE sub[i - Len(sq)]
    BY <1>1, <1>2, ConcatProperties
  <2> QED BY <2>1, <1>2, <1>3
<1>5. \A i \in 1 .. Len(sq') :
         \/ i \in 1 .. Len(sq) /\ sq'[i] = sq[i]
         \/ \E k \in 1 .. Len(ops) : i = Len(sq) + k /\ sq'[i] = ops[k]
  <2> TAKE i \in 1 .. Len(sq')
  <2>1. CASE i <= Len(sq)
    BY <2>1, <1>1, <1>4
  <2>2. CASE i > Len(sq)
    <3>1. PICK k \in 1 .. n : k = i - Len(sq)
      BY <2>2, <1>1, <1>4
    <3>2. sq'[i] = sub[k] /\ sub[k] = ops[k] /\ k \in 1 .. Len(ops)
      BY <3>1, <2>2, <1>1, <1>2, <1>4
    <3> QED BY <3>1, <3>2, <1>1
  <2> QED BY <2>1, <2>2, <1>1
<1>6. ToSet(sub) \subseteq ToSet(ops)
  BY <1>1, <1>2, ToSetIs
<1>7. ToSet(sq') = ToSet(sq) \cup ToSet(sub)
  BY <1>1, <1>2, <1>3, ToSetConcat
<1>8. Outstanding' = Outstanding \cup ToSet(sub)
  BY <1>3, <1>7 DEF Outstanding
<1>9. RingTypes'
  BY <1>1, <1>3, <1>4 DEF RingInv, RingTypes
<1>10. Named'
  <2>1. \A o \in ToSet(ops) : o.id <= issued' /\ \A p \in Outstanding : o.id # p.id
    BY <1>1, <1>3, FreshNames
  <2>2. \A o, p \in ToSet(ops) : o.id = p.id => o = p
    BY <1>1, FreshNames
  <2>3. \A o \in Outstanding : o.id <= issued'
    BY <1>3, FreshNames, OutIs DEF RingInv, Named, RingTypes, Op
  <2> QED BY <1>6, <1>8, <2>1, <2>2, <2>3 DEF Named, RingInv
<1>11. Once'
  <2>1. Once
    BY OnceIs DEF RingInv
  <2>2. Len(sq') <= Entries
    BY <1>4 DEF Kept
  <2>3. \A i, j \in 1 .. Len(sq') : sq'[i].id = sq'[j].id => i = j
    <3> SUFFICES ASSUME NEW i \in 1 .. Len(sq'), NEW j \in 1 .. Len(sq'),
                        sq'[i].id = sq'[j].id
                 PROVE  i = j
      OBVIOUS
    <3>1. \A k \in 1 .. Len(ops) : \A m \in 1 .. Len(sq) : ops[k].id # sq[m].id
      BY FreshNames, OutIs DEF RingInv
    <3>2. \A k, m \in 1 .. Len(ops) : ops[k].id = ops[m].id => k = m
      BY FreshNames
    <3>3. \A k, m \in 1 .. Len(sq) : sq[k].id = sq[m].id => k = m
      BY <2>1 DEF Once
    <3>4. CASE i \in 1 .. Len(sq) /\ sq'[i] = sq[i]
      BY <3>4, <3>1, <3>3, <1>5
    <3>5. CASE \E k \in 1 .. Len(ops) : i = Len(sq) + k /\ sq'[i] = ops[k]
      BY <3>5, <3>1, <3>2, <1>5
    <3> QED BY <3>4, <3>5, <1>5
  <2>4. \A i \in 1 .. Len(sq') : \A o \in kernel : sq'[i].id # o.id
    <3>1. \A k \in 1 .. Len(ops) : \A o \in kernel : ops[k].id # o.id
      BY FreshNames, OutIs DEF RingInv
    <3>2. \A k \in 1 .. Len(sq) : \A o \in kernel : sq[k].id # o.id
      BY <2>1 DEF Once
    <3> TAKE i \in 1 .. Len(sq')
    <3>3. CASE i \in 1 .. Len(sq) /\ sq'[i] = sq[i]
      BY <3>3, <3>2
    <3>4. CASE \E k \in 1 .. Len(ops) : sq'[i] = ops[k]
      BY <3>4, <3>1
    <3> QED BY <3>3, <3>4, <1>5
  <2>5. \A j \in 1 .. Len(cq) : \A i \in 1 .. Len(sq') : cq[j].id # sq'[i].id
    <3>1. \A k \in 1 .. Len(ops) : \A j \in 1 .. Len(cq) : ops[k].id # cq[j].id
      BY FreshNames, OutIs DEF RingInv
    <3>2. \A k \in 1 .. Len(sq) : \A j \in 1 .. Len(cq) : cq[j].id # sq[k].id
      BY <2>1 DEF Once
    <3> QED BY <3>1, <3>2, <1>5
  <2>6. kernel' = kernel /\ cq' = cq
    BY <1>3
  <2> QED BY <2>6, <2>1, <2>2, <2>3, <2>4, <2>5 DEF Once
<1>12. OnePlace'
  BY <1>9, <1>11, OnceIs, PTL
<1> QED BY <1>6, <1>7, <1>8, <1>9, <1>10, <1>12 DEF RingInv

\* submit and submit_and_wait hand over what is queued.
LEMMA FlushedRing ==
    ASSUME RingInv, Flushed
    PROVE  /\ RingInv'
           /\ Outstanding' = Outstanding
<1>1. /\ sq \in Seq(Op) /\ ToSet(sq) \subseteq Op
      /\ \A x \in ToSet(sq) : \E i \in 1 .. Len(sq) : x = sq[i]
  BY ToSetIs DEF RingInv, RingTypes
<1>2. sq' = <<>> /\ Len(sq') = 0 /\ ToSet(sq') = {} /\ cq' = cq
      /\ kernel' = kernel \cup ToSet(sq) /\ issued' = issued
  BY DEF Flushed, ToSet
<1>3. Outstanding' = Outstanding
  BY <1>2 DEF Outstanding
<1>4. RingTypes' /\ Named'
  BY <1>1, <1>2, <1>3 DEF RingInv, RingTypes, Named
<1>5. Once'
  <2>1. Once
    BY OnceIs DEF RingInv
  <2>2. \A j \in 1 .. Len(cq) : \A o \in kernel' :
           cq[j].id = o.id => cq[j].kind \in ShotKinds
    BY <1>1, <1>2, <2>1 DEF Once
  <2> QED BY <1>2, <2>1, <2>2, UringCtxAssumption DEF Once
<1>6. OnePlace'
  BY <1>4, <1>5, OnceIs, PTL
<1> QED BY <1>3, <1>4, <1>6 DEF RingInv

\* The thread takes the oldest CQE: what it was about is gone, unless it is
\* a multishot request.
LEMMA TakenRing ==
    ASSUME RingInv, Taken
    PROVE  /\ RingInv'
           /\ Origin(Head(cq)) \in Outstanding
           /\ Head(cq) \in CqeType
           /\ Outstanding' \subseteq Outstanding
           /\ Outstanding \subseteq Outstanding' \cup {Origin(Head(cq))}
           /\ Head(cq).kind \notin ShotKinds =>
                 \A o \in Outstanding' : o.id # Head(cq).id
<1>1. /\ Tail(cq) \in Seq(CqeType) /\ Head(cq) \in CqeType
      /\ Len(Tail(cq)) = Len(cq) - 1 /\ Len(cq) \in Nat \ {0}
      /\ Head(cq) = cq[1]
      /\ \A i \in 1 .. Len(Tail(cq)) : Tail(cq)[i] = cq[i + 1]
      /\ ToSet(cq) = {Head(cq)} \cup ToSet(Tail(cq))
  BY ToSetTail DEF RingInv, RingTypes, Taken
<1>2. sq' = sq /\ kernel' = kernel /\ issued' = issued /\ cq' = Tail(cq)
  BY DEF Taken
<1>3. /\ Outstanding' \subseteq Outstanding
      /\ Outstanding \subseteq Outstanding' \cup {Origin(Head(cq))}
      /\ Origin(Head(cq)) \in Outstanding
  BY <1>1, <1>2 DEF Outstanding
<1>4. RingTypes' /\ Named'
  BY <1>1, <1>2, <1>3 DEF RingInv, RingTypes, Named
<1>5. Once
  BY OnceIs DEF RingInv
<1>6. \A i \in 1 .. Len(cq') : i + 1 \in 1 .. Len(cq) /\ cq'[i] = cq[i + 1]
  BY <1>1, <1>2
<1>7. Once'
  <2>1. \A i, j \in 1 .. Len(cq') : cq'[i].id = cq'[j].id =>
           i = j \/ cq'[i].kind \in ShotKinds
    <3> SUFFICES ASSUME NEW i \in 1 .. Len(cq'), NEW j \in 1 .. Len(cq'),
                        cq'[i].id = cq'[j].id, cq'[i].kind \notin ShotKinds
                 PROVE  i = j
      OBVIOUS
    <3>1. PICK k \in 1 .. Len(cq), m \in 1 .. Len(cq) : k = i + 1 /\ m = j + 1
      BY <1>6
    <3>2. cq'[i] = cq[k] /\ cq'[j] = cq[m]
      BY <3>1, <1>6
    <3>3. k = m
      BY <3>2, <1>5 DEF Once
    <3> QED BY <3>1, <3>3
  <2>2. \A j \in 1 .. Len(cq') : \E k \in 1 .. Len(cq) : cq'[j] = cq[k]
    BY <1>6
  <2> QED BY <2>1, <2>2, <1>2, <1>5 DEF Once
<1>8. OnePlace'
  BY <1>4, <1>7, OnceIs, PTL
<1>9. ASSUME Head(cq).kind \notin ShotKinds, NEW o \in Outstanding'
      PROVE  o.id # Head(cq).id
  <2>1. \/ \E i \in 1 .. Len(sq) : o = sq[i]
        \/ o \in kernel
        \/ \E j \in 1 .. Len(cq') : o.id = cq'[j].id
    <3>1. Located'
      BY <1>4, OutWhere, PTL
    <3> QED BY <3>1, <1>2 DEF Located
  <2>2. \A j \in 1 .. Len(cq') : cq'[j].id # Head(cq).id
    <3> SUFFICES ASSUME NEW j \in 1 .. Len(cq'), cq'[j].id = Head(cq).id
                 PROVE  FALSE
      OBVIOUS
    <3>1. PICK k \in 1 .. Len(cq) : k = j + 1
      BY <1>6
    <3>2. cq'[j] = cq[k] /\ 1 \in 1 .. Len(cq)
      BY <3>1, <1>1, <1>6
    <3> QED BY <3>1, <3>2, <1>1, <1>5, <1>9 DEF Once
  <2>3. 1 \in 1 .. Len(cq)
    BY <1>1
  <2> QED BY <2>1, <2>2, <2>3, <1>1, <1>5, <1>9 DEF Once
<1> QED BY <1>1, <1>3, <1>4, <1>8, <1>9 DEF RingInv

\* A CQE is added whose operation is outstanding or new: the shape common to
\* completions, shots and messages.
LEMMA PostedOne ==
    ASSUME RingInv, NEW c \in CqeType, NEW K \in SUBSET kernel, NEW n \in Nat,
           c.id <= n, issued <= n,
           \A o \in Outstanding : o.id = c.id => o = Origin(c),
           \A i \in 1 .. Len(sq) : sq[i].id # c.id,
           \/ /\ \A j \in 1 .. Len(cq) :
                    cq[j].id = c.id => cq[j].kind \in ShotKinds
              /\ \A o \in K : o.id # c.id
           \/ c.kind \in ShotKinds,
           cq' = Append(cq, c), sq' = sq, kernel' = K, issued' = n
    PROVE  /\ RingInv'
           /\ Outstanding' = ToSet(sq) \cup K \cup {Origin(d) : d \in ToSet(cq)}
                                \cup {Origin(c)}
<1>1. cq' \in Seq(CqeType) /\ ToSet(cq') = ToSet(cq) \cup {c}
  BY ToSetAppend DEF RingInv, RingTypes
<1>2. Outstanding' = ToSet(sq) \cup K \cup {Origin(d) : d \in ToSet(cq)}
                        \cup {Origin(c)}
  BY <1>1 DEF Outstanding
<1>3. Outstanding' \subseteq Outstanding \cup {Origin(c)}
  BY <1>2 DEF Outstanding
<1>4. RingTypes'
  BY <1>1 DEF RingInv, RingTypes
<1>5. Named'
  <2>1. \A o \in Outstanding : o.id \in Nat /\ o.id <= n
    BY OutIs DEF RingInv, RingTypes, Named, Op
  <2>2. Origin(c).id = c.id
    BY OriginOf
  <2> QED BY <1>3, <2>1, <2>2 DEF Named, RingInv
<1>6. Once
  BY OnceIs DEF RingInv
<1>7. /\ Len(cq') = Len(cq) + 1 /\ Len(cq) \in Nat
      /\ \A j \in 1 .. Len(cq) : cq'[j] = cq[j]
      /\ cq'[Len(cq) + 1] = c
      /\ \A j \in 1 .. Len(cq') : j \in 1 .. Len(cq) \/ j = Len(cq) + 1
  BY DEF RingInv, RingTypes
<1>8. \A j \in 1 .. Len(cq) : cq[j].id = c.id => cq[j].kind = c.kind
  BY OutIs, OriginOf DEF RingInv
<1>9. Once'
  <2>1. \A i, j \in 1 .. Len(cq') : cq'[i].id = cq'[j].id =>
           i = j \/ cq'[i].kind \in ShotKinds
    <3> SUFFICES ASSUME NEW i \in 1 .. Len(cq'), NEW j \in 1 .. Len(cq'),
                        cq'[i].id = cq'[j].id, i # j
                 PROVE  cq'[i].kind \in ShotKinds
      OBVIOUS
    <3>1. CASE i \in 1 .. Len(cq) /\ j \in 1 .. Len(cq)
      BY <3>1, <1>6, <1>7 DEF Once
    <3>2. CASE i \in 1 .. Len(cq) /\ j = Len(cq) + 1
      BY <3>2, <1>7, <1>8
    <3>3. CASE i = Len(cq) + 1 /\ j \in 1 .. Len(cq)
      BY <3>3, <1>7, <1>8
    <3> QED BY <3>1, <3>2, <3>3, <1>7
  <2>2. \A j \in 1 .. Len(cq') : \A i \in 1 .. Len(sq) : cq'[j].id # sq[i].id
    BY <1>6, <1>7 DEF Once
  <2>3. \A j \in 1 .. Len(cq') : \A o \in K :
          cq'[j].id = o.id => cq'[j].kind \in ShotKinds
    BY <1>6, <1>7 DEF Once
  <2>4. sq' = sq /\ kernel' = K /\ \A o \in K : o \in kernel
    OBVIOUS
  <2> QED BY <2>1, <2>2, <2>3, <2>4, <1>6 DEF Once
<1>10. OnePlace'
  BY <1>4, <1>9, OnceIs, PTL
<1> QED BY <1>2, <1>4, <1>5, <1>10 DEF RingInv

\* A completion or a shot.
LEMMA PostedRing ==
    ASSUME RingInv, NEW o \in kernel, NEW ok \in BOOLEAN, NEW armed \in BOOLEAN,
           Posted(o, ok, armed)
    PROVE  RingInv' /\ Outstanding' = Outstanding
<1> DEFINE K == IF armed THEN kernel ELSE kernel \ {o}
<1>1. o \in Op /\ o \in Outstanding /\ K \in SUBSET kernel /\ issued \in Nat
  BY OutIs DEF RingInv, RingTypes
<1>2. PICK c \in CqeType : c = Cqe(o, ok)
  BY <1>1, OriginOf
<1>3. Origin(c) = o /\ c.id = o.id /\ c.kind = o.kind
  BY <1>1, <1>2, OriginOf
<1>4. Once
  BY OnceIs DEF RingInv
<1>5. c.id <= issued /\ \A p \in Outstanding : p.id = c.id => p = Origin(c)
  BY <1>1, <1>3 DEF RingInv, Named
<1>6. \A i \in 1 .. Len(sq) : sq[i].id # c.id
  BY <1>3, <1>4 DEF Once
<1>7. \A j \in 1 .. Len(cq) : cq[j].id = c.id => cq[j].kind \in ShotKinds
  BY <1>3, <1>4 DEF Once
<1>8. c.kind \in ShotKinds \/ \A p \in K : p.id # c.id
  BY <1>1, <1>3, OutIs DEF Posted, RingInv, Named
<1>9. cq' = Append(cq, c) /\ sq' = sq /\ kernel' = K /\ issued' = issued
  BY <1>2 DEF Posted
<1>10. issued <= issued
  BY <1>1
<1> HIDE DEF K
<1>11. /\ RingInv'
       /\ Outstanding' = ToSet(sq) \cup K \cup {Origin(d) : d \in ToSet(cq)}
                            \cup {Origin(c)}
  BY <1>1, <1>5, <1>6, <1>7, <1>8, <1>9, <1>10, PostedOne
<1>12. K \cup {o} = kernel
  BY DEF K
<1> QED BY <1>3, <1>11, <1>12 DEF Outstanding

\* A cancellation and its target end together.
LEMMA PostedTwoRing ==
    ASSUME RingInv, NEW o \in kernel, NEW p \in kernel, PostedTwo(o, p)
    PROVE  RingInv' /\ Outstanding' = Outstanding
<1>1. /\ o \in Op /\ o \in Outstanding /\ p \in Op /\ p \in Outstanding
      /\ o # p /\ o.id # p.id
  BY OutIs DEF RingInv, Named, PostedTwo
<1>2. PICK c \in CqeType, d \in CqeType : c = Cqe(o, TRUE) /\ d = Cqe(p, TRUE)
  BY <1>1, OriginOf
<1>3. /\ Origin(c) = o /\ c.id = o.id /\ c.kind = o.kind
      /\ Origin(d) = p /\ d.id = p.id /\ d.kind = p.kind
  BY <1>1, <1>2, OriginOf
<1>4. Once
  BY OnceIs DEF RingInv
<1>5. PICK u : u = <<c, d>>
  OBVIOUS
<1>6. u \in Seq(CqeType) /\ Len(u) = 2 /\ u[1] = c /\ u[2] = d /\ ToSet(u) = {c, d}
  <2>1. u \in Seq(CqeType) /\ Len(u) = 2 /\ u[1] = c /\ u[2] = d
    BY <1>5
  <2>2. ToSet(u) = {u[i] : i \in 1 .. 2}
    BY <2>1, ToSetIs
  <2>3. 1 .. 2 = {1, 2}
    OBVIOUS
  <2> QED BY <2>1, <2>2, <2>3
<1>7. /\ cq' = cq \o u /\ sq' = sq /\ kernel' = kernel \ {o, p}
      /\ issued' = issued /\ cq \in Seq(CqeType)
  BY <1>2, <1>5 DEF PostedTwo, RingInv, RingTypes
<1>8. /\ cq' \in Seq(CqeType) /\ ToSet(cq') = ToSet(cq) \cup {c, d}
      /\ Len(cq') = Len(cq) + 2 /\ Len(cq) \in Nat
      /\ \A j \in 1 .. Len(cq) : cq'[j] = cq[j]
      /\ cq'[Len(cq) + 1] = c /\ cq'[Len(cq) + 2] = d
      /\ \A j \in 1 .. Len(cq') : \/ j \in 1 .. Len(cq)
                                  \/ j = Len(cq) + 1 \/ j = Len(cq) + 2
  <2>1. /\ cq \o u \in Seq(CqeType) /\ Len(cq \o u) = Len(cq) + Len(u)
        /\ \A i \in 1 .. Len(cq) + Len(u) : (cq \o u)[i] =
              IF i <= Len(cq) THEN cq[i] ELSE u[i - Len(cq)]
    BY <1>6, <1>7, ConcatProperties
  <2>2. Len(cq) \in Nat
    BY <1>7
  <2>3. ToSet(cq \o u) = ToSet(cq) \cup {c, d}
    BY <1>6, <1>7, ToSetConcat
  <2>4. /\ (Len(cq) + 1) - Len(cq) = 1 /\ (Len(cq) + 2) - Len(cq) = 2
        /\ Len(cq) + 1 \in 1 .. Len(cq) + 2 /\ Len(cq) + 2 \in 1 .. Len(cq) + 2
    BY <2>2
  <2> QED BY <2>1, <2>2, <2>3, <2>4, <1>6, <1>7
<1>9. Outstanding' = Outstanding
  <2>1. (kernel \ {o, p}) \cup {o, p} = kernel
    OBVIOUS
  <2> QED BY <2>1, <1>3, <1>7, <1>8 DEF Outstanding
<1>10. RingTypes' /\ Named'
  BY <1>7, <1>8, <1>9 DEF RingInv, RingTypes, Named
<1>11. /\ \A j \in 1 .. Len(cq) : cq[j].id \in {c.id, d.id} =>
             cq[j].kind \in ShotKinds
       /\ \A i \in 1 .. Len(sq) : sq[i].id # c.id /\ sq[i].id # d.id
       /\ \A q \in kernel \ {o, p} : q.id # c.id /\ q.id # d.id
       /\ c.id # d.id
  <2>1. \A q \in kernel : (q.id = o.id => q = o) /\ (q.id = p.id => q = p)
    BY <1>1, OutIs DEF RingInv, Named
  <2> QED BY <2>1, <1>1, <1>3, <1>4 DEF Once
<1>12. \A j \in 1 .. Len(cq) :
          /\ cq[j].id = c.id => cq[j].kind = c.kind
          /\ cq[j].id = d.id => cq[j].kind = d.kind
  BY <1>1, <1>3, OutIs DEF RingInv, Named
<1>13. Once'
  <2>1. \A i, j \in 1 .. Len(cq') : cq'[i].id = cq'[j].id =>
           i = j \/ cq'[i].kind \in ShotKinds
    <3> SUFFICES ASSUME NEW i \in 1 .. Len(cq'), NEW j \in 1 .. Len(cq'),
                        cq'[i].id = cq'[j].id, i # j
                 PROVE  cq'[i].kind \in ShotKinds
      OBVIOUS
    <3>1. CASE i \in 1 .. Len(cq) /\ j \in 1 .. Len(cq)
      BY <3>1, <1>4, <1>8 DEF Once
    <3>2. CASE i \in 1 .. Len(cq) /\ j \notin 1 .. Len(cq)
      <4>1. cq'[j] = c \/ cq'[j] = d
        BY <3>2, <1>8
      <4> QED BY <4>1, <3>2, <1>8, <1>11
    <3>3. CASE i \notin 1 .. Len(cq) /\ j \in 1 .. Len(cq)
      <4>1. cq'[i] = c \/ cq'[i] = d
        BY <3>3, <1>8
      <4> QED BY <4>1, <3>3, <1>8, <1>11, <1>12
    <3>4. CASE i \notin 1 .. Len(cq) /\ j \notin 1 .. Len(cq)
      BY <3>4, <1>8, <1>11
    <3> QED BY <3>1, <3>2, <3>3, <3>4
  <2>2. \A j \in 1 .. Len(cq') : cq'[j] = c \/ cq'[j] = d \/
           \E k \in 1 .. Len(cq) : cq'[j] = cq[k]
    BY <1>8
  <2>3. \A j \in 1 .. Len(cq') : \A i \in 1 .. Len(sq) : cq'[j].id # sq[i].id
    BY <2>2, <1>4, <1>11 DEF Once
  <2>4. \A j \in 1 .. Len(cq') : \A q \in kernel' :
          cq'[j].id = q.id => cq'[j].kind \in ShotKinds
    <3> SUFFICES ASSUME NEW j \in 1 .. Len(cq'), NEW q \in kernel \ {o, p},
                        cq'[j].id = q.id
                 PROVE  cq'[j].kind \in ShotKinds
      BY <1>7
    <3>1. PICK k \in 1 .. Len(cq) : cq'[j] = cq[k]
      BY <2>2, <1>11
    <3> QED BY <3>1, <1>4 DEF Once
  <2>5. /\ sq' = sq /\ \A q \in kernel' : q \in kernel
        /\ Len(sq) <= Entries
        /\ \A i, j \in 1 .. Len(sq) : sq[i].id = sq[j].id => i = j
        /\ \A i \in 1 .. Len(sq) : \A q \in kernel' : sq[i].id # q.id
    BY <1>4, <1>7 DEF Once
  <2> QED BY <2>1, <2>3, <2>4, <2>5 DEF Once
<1>14. OnePlace'
  BY <1>10, <1>13, OnceIs, PTL
<1> QED BY <1>9, <1>10, <1>14 DEF RingInv

\* A message of another ring.
LEMMA MessagedRing ==
    ASSUME RingInv, NEW t \in Tags, Messaged(t)
    PROVE  /\ RingInv'
           /\ \E m \in Op : /\ m.tag = t /\ m.kind = "msg" /\ m.id = issued + 1
                            /\ m.sqe = m.id
                            /\ Outstanding' = Outstanding \cup {m}
<1>1. PICK c \in CqeType : c = [id |-> issued + 1, sqe |-> issued + 1, tag |-> t,
                                kind |-> "msg", after |-> NoOp, ok |-> TRUE]
  <2>1. issued + 1 \in Nat \ {0} /\ t \in Nat
    BY UringCtxAssumption DEF RingInv, RingTypes
  <2> QED BY <2>1 DEF CqeType, Kinds, NoOp
<1>2. /\ c.id = issued + 1 /\ c.sqe = issued + 1 /\ c.tag = t /\ c.kind = "msg"
      /\ issued \in Nat
  BY <1>1 DEF RingInv, RingTypes
<1>3. \A o \in Outstanding : o.id \in Nat /\ o.id <= issued
  BY OutIs DEF RingInv, Named, Op
<1>4. /\ \A o \in Outstanding : o.id # c.id
      /\ \A i \in 1 .. Len(sq) : sq[i].id # c.id
      /\ \A j \in 1 .. Len(cq) : cq[j].id # c.id
      /\ \A o \in kernel : o.id # c.id
  BY <1>2, <1>3, OutIs DEF RingInv
<1>5. PICK n \in Nat : n = issued + 1
  BY <1>2
<1>6. /\ cq' = Append(cq, c) /\ sq' = sq /\ kernel' = kernel /\ issued' = n
      /\ c.id <= n /\ issued <= n /\ kernel \in SUBSET kernel
  BY <1>1, <1>2, <1>5 DEF Messaged
<1>7. /\ RingInv'
      /\ Outstanding' = ToSet(sq) \cup kernel \cup {Origin(d) : d \in ToSet(cq)}
                            \cup {Origin(c)}
  BY <1>4, <1>6, PostedOne
<1>8. Outstanding' = Outstanding \cup {Origin(c)}
  BY <1>7 DEF Outstanding
<1> QED BY <1>2, <1>7, <1>8, OriginOf

\* uring_destroy takes everything with it.
LEMMA DestroyedRing ==
    ASSUME RingInv, Destroyed
    PROVE  RingInv' /\ Outstanding' = {}
<1>1. /\ sq' = <<>> /\ cq' = <<>> /\ kernel' = {} /\ issued' = issued
      /\ Len(sq') = 0 /\ Len(cq') = 0 /\ ToSet(sq') = {} /\ ToSet(cq') = {}
  BY DEF Destroyed, ToSet
<1>2. Outstanding' = {}
  BY <1>1 DEF Outstanding
<1>3. RingTypes' /\ Named'
  BY <1>1, <1>2 DEF RingTypes, Named, RingInv
<1>4. Once'
  BY <1>1, UringCtxAssumption DEF Once
<1>5. OnePlace'
  BY <1>3, <1>4, OnceIs, PTL
<1> QED BY <1>2, <1>3, <1>5 DEF RingInv

-----------------------------------------------------------------------------
(* The calls as effects *)

\* What a synchronous call prepares.
SyncOps(fn, ops) ==
    /\ Fresh(ops)
    /\ fn = "single" => Len(ops) = 1
    /\ fn \in {"link", "pair"} => Len(ops) = 2
    /\ \A i \in 1 .. Len(ops) :
          ops[i].kind \in SyncKinds /\ ops[i].sqe = ops[i].id
    /\ ops[1].kind # "shots" =>
          \A i \in 1 .. Len(ops) : ops[i].kind \notin ShotKinds

\* They run as prepared, and stay in the entries of the ring that they took.
Written(ops) ==
    /\ \A i \in 1 .. Len(ops) : ops[i].sqe = ops[i].id
    /\ slots' = Filled(Fitting(ops))

\* A call raises with its SQEs, or some of them, in the submission queue.
GaveUp(ops) ==
    /\ \E n \in 0 .. Len(ops) : Kept(ops, n)
    /\ last' = [own |-> Ids(ToSet(ops)), got |-> {}, outcome |-> "error"]
    /\ raised' = raised \cup Ids({o \in ToSet(ops) : o.kind = "buf"})
    /\ mess' = mess \cup {"left"} \cup Reused({o.tag : o \in ToSet(ops)})
    /\ UNCHANGED <<pins, call>>

Blocks(fn, ops) == Prepare(ops, Block(fn, ops))

LinkSubmits == LinkCall /\ Room # 1
LinkLeaves == LinkCall /\ LeaveStale({"left", "stale"})

SyncStart ==
    \/ \E m \in Methods : SyncCall(m)
    \/ LinkSubmits \/ PairCall
    \/ \E n \in 1 .. Entries : BatchCall(n)

\* link_read_write submits both SQEs or leaves one.
LEMMA LinkCases == LinkCall => LinkSubmits \/ LinkLeaves
BY DEF LinkCall, LinkSubmits, LinkLeaves

\* get_sqe and submit have these two outcomes.
LEMMA BlocksCases ==
    ASSUME RingInv, NEW fn, NEW ops \in Seq(Op), Blocks(fn, ops)
    PROVE  /\ (Accepted(ops) /\ Block(fn, ops)) \/ GaveUp(ops)
           /\ slots' = Filled(Fitting(ops))
<1>1. /\ Len(ops) \in Nat /\ Len(sq) \in Nat /\ Len(sq) <= Entries
      /\ Entries \in Nat
  BY UringCtxAssumption DEF RingInv, RingTypes, OnePlace
<1>5. slots' = Filled(Fitting(ops))
  BY DEF Blocks, Prepare
<1> DEFINE n == IF Len(ops) > Room THEN Room ELSE Len(ops)
<1>2. n \in 0 .. Len(ops) /\ Len(sq) + n <= Entries
  BY <1>1 DEF Room
<1>3. CASE /\ issued' = issued + Len(ops)
           /\ Len(ops) <= Room
           /\ kernel' = kernel \cup ToSet(sq \o ops)
           /\ sq' = <<>>
           /\ Block(fn, ops)
           /\ UNCHANGED <<state, cq>>
  BY <1>1, <1>3, <1>5 DEF Accepted, Room
<1>4. CASE /\ issued' = issued + Len(ops)
           /\ sq' = sq \o SubSeq(ops, 1, n)
           /\ Return(Ids(ToSet(ops)), {}, "error")
           /\ raised' = raised \cup Ids({o \in ToSet(ops) : o.kind = "buf"})
           /\ mess' = mess \cup {"left"} \cup Reused({o.tag : o \in ToSet(ops)})
           /\ UNCHANGED <<kernel, pins, call>>
           /\ UNCHANGED <<state, cq>>
  <2>1. Kept(ops, n)
    BY <1>2, <1>4 DEF Kept
  <2> QED BY <2>1, <1>2, <1>4, <1>5 DEF GaveUp, Return
<1> QED BY <1>3, <1>4, <1>5 DEF Blocks, Prepare, Fitting

\* A new operation is one.
LEMMA OperationIs ==
    ASSUME RingInv, NEW n \in Nat \ {0}, NEW t \in Nat, NEW k \in Kinds, NEW a \in Nat
    PROVE  /\ Operation(n, t, k, a) \in Op
           /\ Operation(n, t, k, a).id = issued + n
           /\ Operation(n, t, k, a).sqe = issued + n
           /\ Operation(n, t, k, a).tag = t
           /\ Operation(n, t, k, a).kind = k
<1>1. issued + n \in Nat \ {0}
  BY DEF RingInv, RingTypes
<1> QED BY <1>1 DEF Operation, Op

\* A method of one SQE prepares it with the tag 1.
LEMMA OneSqeIs ==
    ASSUME RingInv, NEW m, SyncCall(m)
    PROVE  /\ call = Idle /\ state = "open"
           /\ \E ops \in Seq(Op) : SyncOps("single", ops) /\ Blocks("single", ops)
<1>1. PICK kind \in SyncKinds : kind = MethodKind(m)
  BY DEF MethodKind, SyncKinds
<1>2. PICK o \in Op : /\ o = Operation(1, 1, kind, NoOp)
                       /\ o.id = issued + 1 /\ o.kind = kind /\ o.sqe = o.id
  BY OperationIs DEF Kinds, NoOp
<1>3. PICK ops : ops = <<o>>
  OBVIOUS
<1>4. ops \in Seq(Op) /\ Len(ops) = 1 /\ ops[1] = o
  BY <1>3
<1>5. \A i \in 1 .. Len(ops) : i = 1
  BY <1>4
<1>6. SyncOps("single", ops)
  BY <1>2, <1>4, <1>5 DEF SyncOps, Fresh, SyncKinds, ShotKinds
<1>7. Blocks("single", ops)
  BY <1>1, <1>2, <1>3 DEF SyncCall, Blocks, Prepare, Block
<1> QED BY <1>2, <1>4, <1>5, <1>6, <1>7 DEF SyncCall, Enter

\* A pair of SQEs of one call.
LEMMA TwoSqesAre ==
    ASSUME RingInv, NEW fn \in {"link", "pair"}, NEW t \in Nat, NEW u \in Nat, t # u,
           NEW a \in Nat,
           NEW ops, ops = <<Operation(1, t, "many", NoOp), Operation(2, u, "many", a)>>
    PROVE  ops \in Seq(Op) /\ SyncOps(fn, ops)
<1>1. PICK o \in Op : /\ o = Operation(1, t, "many", NoOp) /\ o.sqe = o.id
                       /\ o.id = issued + 1 /\ o.tag = t /\ o.kind = "many"
  BY OperationIs DEF Kinds, SyncKinds, NoOp
<1>2. PICK p \in Op : /\ p = Operation(2, u, "many", a) /\ p.sqe = p.id
                       /\ p.id = issued + 2 /\ p.tag = u /\ p.kind = "many"
  <2>1. 2 \in Nat \ {0} /\ "many" \in Kinds
    BY DEF Kinds, SyncKinds
  <2> QED BY <2>1, OperationIs
<1>3. ops \in Seq(Op) /\ Len(ops) = 2 /\ ops[1] = o /\ ops[2] = p
  BY <1>1, <1>2
<1>4. /\ o.id = issued + 1 /\ p.id = issued + 2 /\ o.tag # p.tag
      /\ o.kind = "many" /\ p.kind = "many" /\ o.sqe = o.id /\ p.sqe = p.id
  BY <1>1, <1>2
<1>5. \A i \in 1 .. Len(ops) : i = 1 \/ i = 2
  BY <1>3
<1> QED BY <1>3, <1>4, <1>5 DEF SyncOps, Fresh, SyncKinds, ShotKinds

\* Every synchronous call starts by preparing such operations.
LEMMA SyncStarts ==
    ASSUME RingInv, SyncStart
    PROVE  /\ call = Idle /\ state = "open"
           /\ \E fn \in SyncFns : \E ops \in Seq(Op) :
                 /\ SyncOps(fn, ops) /\ Written(ops)
                 /\ (Accepted(ops) /\ Block(fn, ops)) \/ GaveUp(ops)
<1> SUFFICES /\ call = Idle /\ state = "open"
             /\ \E fn \in SyncFns : \E ops \in Seq(Op) :
                   SyncOps(fn, ops) /\ Blocks(fn, ops)
  BY BlocksCases DEF Written, SyncOps
<1> issued \in Nat
  BY DEF RingInv, RingTypes
<1>1. ASSUME NEW m \in Methods, SyncCall(m)
      PROVE  /\ call = Idle /\ state = "open"
             /\ \E ops \in Seq(Op) : SyncOps("single", ops) /\ Blocks("single", ops)
  BY <1>1, OneSqeIs
<1>2. CASE LinkSubmits
  <2>1. PICK ops : ops = <<Operation(1, LinkRead, "many", NoOp),
                           Operation(2, LinkWrite, "many", issued + 1)>>
    OBVIOUS
  <2>2. PICK a \in Nat : a = issued + 1
    OBVIOUS
  <2>3. LinkRead \in Nat /\ LinkWrite \in Nat /\ LinkRead # LinkWrite
    BY DEF LinkRead, LinkWrite
  <2>4. ops \in Seq(Op) /\ SyncOps("link", ops)
    BY <2>1, <2>2, <2>3, TwoSqesAre
  <2>5. Blocks("link", ops)
    BY <1>2, <2>1 DEF LinkSubmits, LinkCall, LeaveStale, Blocks, Prepare, Block
  <2> QED BY <1>2, <2>4, <2>5 DEF LinkSubmits, LinkCall, Enter, SyncFns
<1>3. CASE PairCall
  <2>1. PICK ops : ops = <<Operation(1, PairTimeout, "many", NoOp),
                           Operation(2, PairTimeout + 1, "many", NoOp)>>
    OBVIOUS
  <2>3. PairTimeout \in Nat /\ PairTimeout + 1 \in Nat /\ NoOp \in Nat
        /\ PairTimeout # PairTimeout + 1
    BY DEF PairTimeout, NoOp
  <2>4. ops \in Seq(Op) /\ SyncOps("pair", ops)
    BY <2>1, <2>3, TwoSqesAre
  <2>5. Blocks("pair", ops)
    BY <1>3, <2>1 DEF PairCall, Blocks, Prepare, Block
  <2> QED BY <1>3, <2>4, <2>5 DEF PairCall, Enter, SyncFns
<1>4. ASSUME NEW n \in 1 .. Entries, BatchCall(n)
      PROVE  /\ call = Idle /\ state = "open"
             /\ \E ops \in Seq(Op) : SyncOps("batch", ops) /\ Blocks("batch", ops)
  <2>1. PICK ops : ops = [i \in 1 .. n |-> Operation(i, i, "many", NoOp)]
    OBVIOUS
  <2>2. n \in Nat /\ n >= 1
    BY UringCtxAssumption
  <2>3. \A i \in 1 .. n : Operation(i, i, "many", NoOp) \in Op
    BY <2>2 DEF Operation, Op, Kinds, SyncKinds, NoOp
  <2>4. \A i \in 1 .. n : /\ ops[i] \in Op /\ ops[i].id = issued + i
                          /\ ops[i].sqe = ops[i].id
                          /\ ops[i].tag = i /\ ops[i].kind = "many"
    BY <2>1, <2>3 DEF Operation
  <2>5. ops \in Seq(Op) /\ Len(ops) = n
    BY <2>1, <2>2, <2>4
  <2>6. SyncOps("batch", ops)
    BY <2>2, <2>4, <2>5 DEF SyncOps, Fresh, SyncKinds, ShotKinds
  <2>7. Blocks("batch", ops)
    BY <1>4, <2>1 DEF BatchCall, Blocks, Prepare, Block
  <2> QED BY <1>4, <2>4, <2>5, <2>6, <2>7 DEF BatchCall, Enter
<1> QED BY <1>1, <1>2, <1>3, <1>4 DEF SyncStart, SyncFns

\* What an asynchronous call does after a successful submit.
AsyncDone(t, k) ==
    /\ IF k = "buf" THEN Track(t) ELSE UNCHANGED <<pins, raised>>
    /\ mess' = mess \cup Reused({t})
    /\ last' = NoReturn
    /\ UNCHANGED call

AsyncStart(t) == SubmitBuf(t) \/ SubmitPtr(t) \/ SubmitShots(t)

\* Every asynchronous call prepares one SQE with the caller's tag.
LEMMA AsyncStarts ==
    ASSUME RingInv, NEW t \in Tags, AsyncStart(t)
    PROVE  /\ call = Idle /\ state = "open"
           /\ \E k \in AsyncKinds : \E o \in Op : \E ops \in Seq(Op) :
                 /\ Fresh(ops) /\ ToSet(ops) = {o} /\ Written(ops)
                 /\ o.id = issued + 1 /\ o.tag = t /\ o.kind = k
                 /\ (Accepted(ops) /\ AsyncDone(t, k)) \/ GaveUp(ops)
<1>1. PICK k \in AsyncKinds : \/ k = "buf" /\ SubmitBuf(t)
                              \/ k = "ptr" /\ SubmitPtr(t)
                              \/ k = "multi" /\ SubmitShots(t)
  BY DEF AsyncStart, AsyncKinds
<1>2. t \in Nat /\ NoOp \in Nat /\ 1 \in Nat \ {0} /\ k \in Kinds
  BY UringCtxAssumption DEF NoOp, Kinds
<1>3. PICK o \in Op : /\ o = Operation(1, t, k, NoOp) /\ o.sqe = o.id
                      /\ o.id = issued + 1 /\ o.tag = t /\ o.kind = k
  BY <1>2, OperationIs
<1>4. PICK ops : ops = <<o>>
  OBVIOUS
<1>5. ops \in Seq(Op) /\ Len(ops) = 1 /\ ops[1] = o
  BY <1>4
<1>6. \A i \in 1 .. Len(ops) : i = 1
  BY <1>5
<1>7. Fresh(ops)
  BY <1>3, <1>5, <1>6 DEF Fresh
<1>8. ToSet(ops) = {o}
  BY <1>5, <1>6, ToSetIs
<1>9. Prepare(ops, AsyncDone(t, k))
  <2>1. CASE k = "buf" /\ SubmitBuf(t)
    BY <2>1, <1>3, <1>4 DEF SubmitBuf, Prepare, AsyncDone
  <2>2. CASE k = "ptr" /\ SubmitPtr(t)
    BY <2>2, <1>3, <1>4 DEF SubmitPtr, Prepare, AsyncDone, Untracked
  <2>3. CASE k = "multi" /\ SubmitShots(t)
    BY <2>3, <1>3, <1>4 DEF SubmitShots, Prepare, AsyncDone, Untracked
  <2> QED BY <1>1, <2>1, <2>2, <2>3
<1>10. call = Idle /\ state = "open"
  BY <1>1 DEF SubmitBuf, SubmitPtr, SubmitShots, Enter
<1>11. (Accepted(ops) /\ AsyncDone(t, k)) \/ GaveUp(ops)
  <2>1. /\ Len(ops) \in Nat /\ Len(sq) \in Nat /\ Len(sq) <= Entries
        /\ Entries \in Nat
    BY <1>5, UringCtxAssumption DEF RingInv, RingTypes, OnePlace
  <2> DEFINE n == IF Len(ops) > Room THEN Room ELSE Len(ops)
  <2>2. n \in 0 .. Len(ops) /\ Len(sq) + n <= Entries
    BY <2>1 DEF Room
  <2>3. CASE /\ issued' = issued + Len(ops)
             /\ Len(ops) <= Room
             /\ kernel' = kernel \cup ToSet(sq \o ops)
             /\ sq' = <<>>
             /\ AsyncDone(t, k)
             /\ UNCHANGED <<state, cq>>
    BY <2>1, <2>3 DEF Accepted, Room
  <2>4. CASE /\ issued' = issued + Len(ops)
             /\ sq' = sq \o SubSeq(ops, 1, n)
             /\ Return(Ids(ToSet(ops)), {}, "error")
             /\ raised' = raised \cup Ids({q \in ToSet(ops) : q.kind = "buf"})
             /\ mess' = mess \cup {"left"} \cup Reused({q.tag : q \in ToSet(ops)})
             /\ UNCHANGED <<kernel, pins, call>>
             /\ UNCHANGED <<state, cq>>
    <3>1. Kept(ops, n)
      BY <2>2, <2>4 DEF Kept
    <3> QED BY <3>1, <2>2, <2>4 DEF GaveUp, Return
  <2> QED BY <2>3, <2>4, <1>9 DEF Prepare, Fitting
<1>12. Written(ops)
  BY <1>3, <1>5, <1>6, <1>9 DEF Written, Prepare
<1> QED BY <1>3, <1>5, <1>7, <1>8, <1>10, <1>11, <1>12

SyncReap == SyncTake \/ BatchTake \/ LinkTake \/ PairTake

\* A blocked synchronous call takes a CQE and goes on or returns; it returns
\* a result only with its last CQE.
LEMMA SyncReaps ==
    ASSUME CallTypes, SyncReap
    PROVE  /\ Taken /\ UNCHANGED <<pins, raised>>
           /\ call.own # {} /\ call.need >= 1
           /\ \/ call.need > 1 /\ TakeMore
              \/ \E out \in {"result", "error"} :
                    Leave(out) /\ (out = "result" => call.need = 1)
<1>1. Take /\ call.fn \in SyncFns
  BY DEF SyncReap, SyncTake, BatchTake, LinkTake, PairTake, SyncFns
<1>2. Taken /\ UNCHANGED <<pins, raised>>
  BY <1>1 DEF Take, Taken
<1>3. call.own # {} /\ call.need >= 1 /\ call.need \in Nat
  BY <1>1 DEF CallTypes, SyncFns
<1>4. \/ call.need > 1 /\ TakeMore
      \/ \E out \in {"result", "error"} :
            Leave(out) /\ (out = "result" => call.need = 1)
  <2>1. CASE SyncTake
    BY <2>1 DEF SyncTake, CallTypes
  <2>2. CASE BatchTake
    BY <2>2, <1>3 DEF BatchTake
  <2>3. CASE LinkTake
    BY <2>3, <1>3 DEF LinkTake, CallTypes
  <2>4. CASE PairTake
    BY <2>4, <1>3 DEF PairTake, CallTypes
  <2> QED BY <2>1, <2>2, <2>3, <2>4 DEF SyncReap
<1> QED BY <1>2, <1>3, <1>4

-----------------------------------------------------------------------------
(* What each effect preserves *)

\* The tags stay apart when new operations come with tags of their own, a
\* reused tag being recorded.
LEMMA TagsStayApart ==
    ASSUME TagsApart, NEW N, \A o, p \in N : o.tag = p.tag => o = p,
           Outstanding' \subseteq Outstanding \cup N,
           mess \subseteq mess',
           "dup" \in mess' \/ \A o \in Outstanding : \A p \in N :
                                 o.tag \in Tags => o.tag # p.tag
    PROVE  TagsApart'
BY DEF TagsApart

\* What Reused records.
LEMMA ReusedIs ==
    ASSUME NEW ts
    PROVE  /\ Reused(ts) \subseteq {"dup"}
           /\ "dup" \in Reused(ts) \/ \A o \in Outstanding : o.tag \notin ts \cap Tags
BY DEF Reused

\* The same, for the operations of a call.
LEMMA SubmittedTags ==
    ASSUME RingInv, TagsApart, NEW ops, Fresh(ops),
           Outstanding' \subseteq Outstanding \cup ToSet(ops),
           mess \cup Reused({o.tag : o \in ToSet(ops)}) \subseteq mess'
    PROVE  TagsApart'
<1>1. \A o, p \in ToSet(ops) : o.tag = p.tag => o = p
  <2>1. \A x \in ToSet(ops) : \E i \in 1 .. Len(ops) : x = ops[i]
    BY ToSetIs DEF Fresh
  <2> QED BY <2>1 DEF Fresh
<1>2. \/ "dup" \in mess'
      \/ \A o \in Outstanding : o.tag \notin {p.tag : p \in ToSet(ops)} \cap Tags
  BY ReusedIs
<1>3. "dup" \in mess' \/ \A o \in Outstanding : \A p \in ToSet(ops) :
                            o.tag \in Tags => o.tag # p.tag
  BY <1>2
<1>4. mess \subseteq mess'
  OBVIOUS
<1> QED BY <1>1, <1>3, <1>4, TagsStayApart

\* A call that gives up half-way.
LEMMA GaveUpInv ==
    ASSUME CtxInv, call = Idle, NEW ops, Fresh(ops), GaveUp(ops),
           \A o \in ToSet(ops) : o.sqe = o.id /\ (o.kind = "buf" => o.tag \in Tags)
    PROVE  CtxInv'
<1>1. PICK n \in 0 .. Len(ops) : Kept(ops, n)
  BY DEF GaveUp
<1>2. /\ RingInv'
      /\ ToSet(sq') \subseteq ToSet(sq) \cup ToSet(ops)
      /\ Outstanding \subseteq Outstanding'
      /\ Outstanding' \subseteq Outstanding \cup ToSet(ops)
  BY <1>1, KeptRing DEF CtxInv
<1>3. \A o \in ToSet(ops) : o.id \in Nat
  <2>1. ToSet(ops) \subseteq Op
    BY ToSetIs DEF Fresh
  <2> QED BY <2>1 DEF Op
<1>4. call' = Idle /\ state' = state /\ kernel' = kernel /\ pins' = pins
  BY <1>1 DEF GaveUp, Kept
<1>5. PinInv'
  <2>0. raised' \subseteq Nat /\ mess' \subseteq Messes
    <3>1. Ids({o \in ToSet(ops) : o.kind = "buf"}) \subseteq Nat
      BY <1>3 DEF Ids
    <3>2. Reused({o.tag : o \in ToSet(ops)}) \subseteq {"dup"}
      BY ReusedIs
    <3> QED BY <3>1, <3>2 DEF CtxInv, PinInv, PinTypes, GaveUp, Messes
  <2>1. PinTypes'
    BY <2>0, <1>4 DEF CtxInv, PinInv, PinTypes
  <2>2. QueuedRaised' /\ BufTags' /\ RunOnce'
    BY <1>2 DEF CtxInv, PinInv, QueuedRaised, BufTags, RunOnce, GaveUp, Ids
  <2>3. TagsApart'
    <3>1. mess \cup Reused({o.tag : o \in ToSet(ops)}) \subseteq mess'
      BY DEF GaveUp
    <3> QED BY <3>1, <1>2, SubmittedTags DEF CtxInv, PinInv
  <2>4. InFlightPinned'
    BY <1>4 DEF CtxInv, PinInv, InFlightPinned, GaveUp
  <2> QED BY <2>1, <2>2, <2>3, <2>4 DEF PinInv
<1>6. SyncInv'
  <2>1. CallTypes'
    BY <1>3, <1>4 DEF CtxInv, SyncInv, CallTypes, GaveUp, Ids
  <2>2. call'.own = {} /\ "left" \in mess'
    BY <1>4 DEF Idle, GaveUp
  <2> QED BY <2>1, <2>2 DEF SyncInv, SyncAlone, SyncExact, Quiet, SyncOwn
<1>7. NoLeakedPin'
  <2>1. mess \subseteq mess'
    BY DEF GaveUp
  <2> QED BY <2>1, <1>2, <1>4 DEF CtxInv, NoLeakedPin
<1> QED BY <1>2, <1>5, <1>6, <1>7 DEF CtxInv

\* A synchronous call starts.
LEMMA SyncStartInv ==
    ASSUME CtxInv, SyncStart
    PROVE  CtxInv'
<1>1. call = Idle
  BY SyncStarts DEF CtxInv
<1>2. PICK fn \in SyncFns, ops \in Seq(Op) :
         /\ SyncOps(fn, ops) /\ Written(ops)
         /\ (Accepted(ops) /\ Block(fn, ops)) \/ GaveUp(ops)
  BY SyncStarts DEF CtxInv
<1>3. Fresh(ops)
  BY <1>2 DEF SyncOps
<1>4. /\ \A x \in ToSet(ops) : \E i \in 1 .. Len(ops) : x = ops[i]
      /\ \A i \in 1 .. Len(ops) : ops[i] \in ToSet(ops) /\ ops[i] \in Op
  BY ToSetIs
<1>5. \A o \in ToSet(ops) : o.kind \in SyncKinds /\ o.kind # "buf" /\ o.sqe = o.id
  BY <1>2, <1>4 DEF SyncOps, SyncKinds, Written
<1>6. CASE GaveUp(ops)
  BY <1>1, <1>3, <1>5, <1>6, GaveUpInv
<1>7. CASE Accepted(ops) /\ Block(fn, ops)
  <2>1. /\ RingInv'
        /\ Outstanding' = Outstanding \cup ToSet(ops)
        /\ kernel' = kernel \cup ToSet(sq) \cup ToSet(ops)
    BY <1>3, <1>7, AcceptedRing DEF CtxInv
  <2>2. /\ sq' = <<>> /\ ToSet(sq') = {} /\ state' = state /\ pins' = pins
        /\ raised' = raised /\ last' = NoReturn
        /\ mess' = mess \cup (IF Outstanding # {} THEN {"mixed"} ELSE {})
                        \cup (IF ops[1].kind = "shots" THEN {"left"} ELSE {})
                        \cup Reused({o.tag : o \in ToSet(ops)})
    BY <1>7 DEF Accepted, Block, ToSet
  <2>3. call' = [fn |-> fn, own |-> Ids(ToSet(ops)), got |-> {}, need |-> Len(ops)]
    BY <1>7 DEF Block
  <2>4. mess \subseteq mess' /\ mess' \subseteq mess \cup Messes
    BY <2>2, ReusedIs DEF Messes
  <2>5. PinInv'
    <3>1. PinTypes'
      BY <2>2, <2>4 DEF CtxInv, PinInv, PinTypes
    <3>2. QueuedRaised' /\ BufTags' /\ RunOnce'
      BY <1>5, <2>1, <2>2, <2>4 DEF CtxInv, PinInv, QueuedRaised, BufTags, RunOnce
    <3>3. TagsApart'
      <4>1. mess \cup Reused({o.tag : o \in ToSet(ops)}) \subseteq mess'
        BY <2>2
      <4> QED BY <4>1, <1>3, <2>1, SubmittedTags DEF CtxInv, PinInv
    <3>4. InFlightPinned'
      BY <1>5, <2>1, <2>2, <2>4
      DEF CtxInv, PinInv, InFlightPinned, QueuedRaised
    <3> QED BY <3>1, <3>2, <3>3, <3>4 DEF PinInv
  <2>6. /\ Ids(ToSet(ops)) = (issued + 1) .. (issued + Len(ops))
        /\ Ids(ToSet(ops)) \subseteq Nat
        /\ IsFiniteSet(Ids(ToSet(ops)))
        /\ Cardinality(Ids(ToSet(ops))) = Len(ops)
        /\ Len(ops) \in Nat \ {0} /\ Ids(ToSet(ops)) # {}
    <3>1. issued \in Nat /\ Len(ops) \in Nat \ {0}
      BY <1>3 DEF Fresh, CtxInv, RingInv, RingTypes
    <3>2. \A i \in 1 .. Len(ops) : ops[i].id = issued + i
      BY <1>3 DEF Fresh
    <3>3. Ids(ToSet(ops)) = {issued + i : i \in 1 .. Len(ops)}
      BY <1>4, <3>2 DEF Ids
    <3>4. \A m \in (issued + 1) .. (issued + Len(ops)) :
             m - issued \in 1 .. Len(ops) /\ m = issued + (m - issued)
      BY <3>1
    <3>5. \A i \in 1 .. Len(ops) : issued + i \in (issued + 1) .. (issued + Len(ops))
      BY <3>1
    <3>6. Ids(ToSet(ops)) = (issued + 1) .. (issued + Len(ops))
      BY <3>3, <3>4, <3>5
    <3>7. /\ IsFiniteSet((issued + 1) .. (issued + Len(ops)))
          /\ Cardinality((issued + 1) .. (issued + Len(ops))) = Len(ops)
      <4>1. issued + 1 \in Int /\ issued + Len(ops) \in Int
        BY <3>1
      <4>2. ~(issued + 1 > issued + Len(ops))
            /\ (issued + Len(ops)) - (issued + 1) + 1 = Len(ops)
        BY <3>1
      <4>3. /\ IsFiniteSet((issued + 1) .. (issued + Len(ops)))
            /\ Cardinality((issued + 1) .. (issued + Len(ops))) =
                 IF issued + 1 > issued + Len(ops) THEN 0
                 ELSE (issued + Len(ops)) - (issued + 1) + 1
        BY <4>1, FS_Interval
      <4> QED BY <4>2, <4>3
    <3>8. issued + 1 \in (issued + 1) .. (issued + Len(ops))
          /\ (issued + 1) .. (issued + Len(ops)) \subseteq Nat
      BY <3>1
    <3> QED BY <3>1, <3>6, <3>7, <3>8
  <2>7. CallTypes'
    BY <1>2, <2>2, <2>3, <2>6
    DEF CallTypes, SyncOps, SyncFns, NoReturn, CtxInv, SyncInv
  <2>8. SyncInv'
    <3>1. call'.own = Ids(ToSet(ops)) /\ call'.got = {} /\ call'.need = Len(ops)
      BY <2>3
    <3>2. "mixed" \notin mess' => Outstanding' = ToSet(ops)
      BY <2>1, <2>2
    <3>3. SyncAlone'
      BY <3>1, <3>2, <1>5 DEF SyncAlone, Ids
    <3>4. SyncExact'
      <4> SUFFICES ASSUME mess' \cap {"mixed", "left"} = {}
                   PROVE  /\ Ids(Outstanding') = call'.own \ call'.got
                          /\ call'.got \subseteq call'.own
                          /\ IsFiniteSet(call'.own)
                          /\ Cardinality(call'.own \ call'.got) = call'.need
                          /\ \A o \in Outstanding' : o.kind \notin ShotKinds
        BY DEF SyncExact, Ids
      <4>1. Outstanding' = ToSet(ops) /\ ops[1].kind # "shots"
        BY <3>2, <2>2
      <4>2. \A o \in Outstanding' : o.kind \notin ShotKinds
        BY <4>1, <1>2, <1>4 DEF SyncOps
      <4>3. call'.own \ call'.got = Ids(ToSet(ops))
        BY <3>1
      <4> QED BY <4>1, <4>2, <4>3, <3>1, <2>6
    <3>5. Quiet' /\ SyncOwn'
      BY <3>1, <2>2, <2>6 DEF Quiet, SyncOwn, NoReturn
    <3> QED BY <3>3, <3>4, <3>5, <2>7 DEF SyncInv
  <2>9. NoLeakedPin'
    BY <2>1, <2>2, <2>4 DEF CtxInv, NoLeakedPin
  <2> QED BY <2>1, <2>5, <2>8, <2>9 DEF CtxInv
<1> QED BY <1>2, <1>6, <1>7

\* An asynchronous call.
LEMMA AsyncStartInv ==
    ASSUME CtxInv, NEW t \in Tags, AsyncStart(t)
    PROVE  CtxInv'
<1>1. call = Idle /\ state = "open" /\ RingInv /\ TagsApart
  BY AsyncStarts DEF CtxInv, PinInv
<1>2. PICK k \in AsyncKinds, o \in Op, ops \in Seq(Op) :
         /\ Fresh(ops) /\ ToSet(ops) = {o} /\ Written(ops)
         /\ o.id = issued + 1 /\ o.tag = t /\ o.kind = k
         /\ (Accepted(ops) /\ AsyncDone(t, k)) \/ GaveUp(ops)
  BY <1>1, AsyncStarts
<1>5. o.sqe = o.id
  <2>1. \E i \in 1 .. Len(ops) : o = ops[i]
    BY <1>2, ToSetIs
  <2> QED BY <2>1, <1>2 DEF Written
<1>3. CASE GaveUp(ops)
  BY <1>1, <1>2, <1>3, <1>5, GaveUpInv
<1>4. CASE Accepted(ops) /\ AsyncDone(t, k)
  <2>1. /\ RingInv'
        /\ Outstanding' = Outstanding \cup {o}
        /\ kernel' = kernel \cup ToSet(sq) \cup {o}
    BY <1>1, <1>2, <1>4, AcceptedRing
  <2>2. /\ sq' = <<>> /\ ToSet(sq') = {} /\ state' = state /\ call' = call
        /\ last' = NoReturn /\ mess' = mess \cup Reused({t})
    BY <1>4 DEF Accepted, AsyncDone, ToSet
  <2>3. mess \subseteq mess' /\ mess' \subseteq mess \cup {"dup"}
    BY <2>2, ReusedIs
  <2>4. /\ pins \in [Tags -> Nat] /\ issued \in Nat /\ NoOp = 0
        /\ issued + 1 \in Nat \ {0}
    BY <1>1 DEF CtxInv, PinInv, PinTypes, RingInv, RingTypes, NoOp
  <2>5. \/ /\ k # "buf" /\ pins' = pins /\ raised' = raised
        \/ /\ pins' = pins /\ raised' = raised \cup {issued + 1}
        \/ /\ k = "buf" /\ pins[t] = NoOp /\ raised' = raised
           /\ pins' = [pins EXCEPT ![t] = issued + 1]
    BY <1>4 DEF AsyncDone, Track
  <2>6. PinInv'
    <3>1. PinTypes'
      BY <1>1, <2>2, <2>3, <2>4, <2>5 DEF CtxInv, PinInv, PinTypes, Messes
    <3>2. QueuedRaised' /\ BufTags' /\ RunOnce'
      BY <1>2, <1>5, <2>1, <2>2, <2>3
      DEF CtxInv, PinInv, QueuedRaised, BufTags, RunOnce
    <3>3. TagsApart'
      <4>1. {p.tag : p \in ToSet(ops)} = {t}
        BY <1>2
      <4>2. mess \cup Reused({p.tag : p \in ToSet(ops)}) \subseteq mess'
        BY <4>1, <2>2
      <4> QED BY <4>2, <1>1, <1>2, <2>1, SubmittedTags
    <3>4. InFlightPinned'
      <4> SUFFICES ASSUME "dup" \notin mess', NEW p \in kernel',
                          p.kind = "buf", p.id \notin raised', p.sqe = p.id
                   PROVE  pins'[p.tag] = p.id
        BY DEF InFlightPinned
      <4>1. raised \subseteq raised' /\ "dup" \notin mess
        BY <2>3, <2>5
      <4>2. CASE p \in kernel
        <5>1. pins[p.tag] = p.id
          BY <4>1, <4>2, <1>1 DEF CtxInv, PinInv, InFlightPinned
        <5>2. p.tag \in Tags /\ p.id # NoOp
          BY <4>2, <1>1, <2>4, OutIs DEF CtxInv, PinInv, BufTags, RingInv, Op
        <5> QED BY <5>1, <5>2, <2>4, <2>5
      <4>3. CASE p \in ToSet(sq)
        BY <4>1, <4>3 DEF CtxInv, PinInv, QueuedRaised
      <4>4. CASE p = o
        BY <4>4, <1>2, <2>4, <2>5
      <4> QED BY <4>2, <4>3, <4>4, <2>1
    <3> QED BY <3>1, <3>2, <3>3, <3>4 DEF PinInv
  <2>7. SyncInv'
    <3>1. CallTypes'
      BY <2>2 DEF CtxInv, SyncInv, CallTypes, NoReturn
    <3>2. call'.own = {} /\ call.own = {}
      BY <1>1, <2>2 DEF Idle
    <3>3. Quiet'
      BY <3>2, <1>2, <2>1, <2>3
      DEF CtxInv, SyncInv, Quiet, AsyncKinds, SyncKinds
    <3> QED BY <3>1, <3>2, <3>3, <2>2
        DEF SyncInv, SyncAlone, SyncExact, SyncOwn, NoReturn
  <2>8. NoLeakedPin'
    <3> SUFFICES ASSUME mess' \cap {"mixed", "dup"} = {}, NEW u \in Tags,
                        pins'[u] # NoOp
                 PROVE  \E p \in Outstanding' :
                           p.id = pins'[u] /\ p.tag = u /\ p.kind = "buf"
      BY DEF NoLeakedPin
    <3>1. CASE pins'[u] = pins[u]
      BY <3>1, <2>1, <2>3 DEF CtxInv, NoLeakedPin
    <3>2. CASE pins'[u] # pins[u]
      <4>1. u = t /\ pins'[t] = issued + 1 /\ k = "buf"
        BY <3>2, <2>4, <2>5
      <4> QED BY <4>1, <1>2, <2>1
    <3> QED BY <3>1, <3>2
  <2> QED BY <2>1, <2>6, <2>7, <2>8 DEF CtxInv
<1> QED BY <1>2, <1>3, <1>4

\* What is left for a call that had the ring to itself, after one more CQE.
LEMMA TakenExact ==
    ASSUME RingInv, SyncInv, Taken, call.own # {},
           mess \cap {"mixed", "left"} = {}
    PROVE  /\ Ids(Outstanding') = call.own \ Got
           /\ Got \subseteq call.own
           /\ IsFiniteSet(call.own)
           /\ Cardinality(call.own \ Got) = call.need - 1
           /\ \A o \in Outstanding' : o.kind \notin ShotKinds
           /\ call.need = 1 => call.own \ Got = {}
<1> DEFINE h == Head(cq)
           D == call.own \ call.got
<1>1. /\ Origin(h) \in Outstanding /\ h \in CqeType
      /\ Outstanding' \subseteq Outstanding
      /\ Outstanding \subseteq Outstanding' \cup {Origin(h)}
      /\ h.kind \notin ShotKinds => \A o \in Outstanding' : o.id # h.id
  BY TakenRing
<1>2. Origin(h).id = h.id /\ Origin(h).kind = h.kind
  BY <1>1, OriginOf
<1>3. /\ Ids(Outstanding) = D
      /\ call.got \subseteq call.own
      /\ IsFiniteSet(call.own)
      /\ Cardinality(D) = call.need
      /\ \A o \in Outstanding : o.kind \notin ShotKinds
  BY DEF SyncInv, SyncExact
<1>4. h.id \in D
  BY <1>1, <1>2, <1>3 DEF Ids
<1>5. Ids(Outstanding') = D \ {h.id}
  <2>1. \A o \in Outstanding' : o.id # h.id
    BY <1>1, <1>2, <1>3
  <2>2. \A o \in Outstanding : o.id # h.id => o \in Outstanding'
    BY <1>1, <1>2
  <2> QED BY <2>1, <2>2, <1>1, <1>3 DEF Ids
<1>6. call.own \ Got = D \ {h.id}
  BY DEF Got
<1>7. IsFiniteSet(D)
  BY <1>3, FS_Subset
<1>8. Cardinality(D \ {h.id}) = Cardinality(D) - 1 /\ IsFiniteSet(D \ {h.id})
      /\ Cardinality(D) \in Nat
  BY <1>4, <1>7, FS_RemoveElement, FS_CardinalityType
<1>9. call.need = 1 => D \ {h.id} = {}
  BY <1>3, <1>8, FS_EmptySet
<1> QED BY <1>1, <1>3, <1>4, <1>5, <1>6, <1>8, <1>9 DEF Got

\* A synchronous call takes a CQE.
LEMMA SyncReapInv ==
    ASSUME CtxInv, SyncReap
    PROVE  CtxInv'
<1>1. /\ Taken /\ UNCHANGED <<pins, raised>>
      /\ call.own # {} /\ call.need >= 1
      /\ \/ call.need > 1 /\ TakeMore
         \/ \E out \in {"result", "error"} :
               Leave(out) /\ (out = "result" => call.need = 1)
  BY SyncReaps DEF CtxInv, SyncInv
<1>2. /\ RingInv' /\ Head(cq) \in CqeType
      /\ Outstanding' \subseteq Outstanding
      /\ sq' = sq /\ kernel' = kernel /\ state' = state
  BY <1>1, TakenRing DEF CtxInv, Taken
<1>3. mess \subseteq mess' /\ mess' \subseteq mess \cup {"left"}
  BY <1>1 DEF TakeMore, Leave
<1>4. PinInv'
  BY <1>1, <1>2, <1>3
  DEF CtxInv, PinInv, PinTypes, QueuedRaised, BufTags, RunOnce,
      TagsApart,
      InFlightPinned, Messes
<1>5. NoLeakedPin'
  <2> SUFFICES ASSUME mess' \cap {"mixed", "dup"} = {}, NEW t \in Tags
               PROVE  pins'[t] = NoOp
    BY DEF NoLeakedPin
  <2>1. \A o \in Outstanding : o.kind # "buf"
    BY <1>1, <1>3 DEF CtxInv, SyncInv, SyncAlone, SyncKinds
  <2> QED BY <2>1, <1>1, <1>3 DEF CtxInv, NoLeakedPin
<1>6. Got \subseteq Nat /\ call.own \subseteq Nat /\ call.need \in Nat
  BY <1>2 DEF Got, CqeType, CtxInv, SyncInv, CallTypes
<1>7. CASE call.need > 1 /\ TakeMore
  <2>1. /\ call'.fn = call.fn /\ call'.own = call.own /\ call'.got = Got
        /\ call'.need = call.need - 1 /\ last' = last /\ mess' = mess
        /\ call' \in [fn : SyncFns \cup {"none", "wait", "submit_and_wait"},
                      own : SUBSET Nat, got : SUBSET Nat, need : Nat]
    <3>1. /\ call' = [call EXCEPT !.got = Got, !.need = call.need - 1]
          /\ last' = last /\ mess' = mess
      BY <1>7 DEF TakeMore
    <3>2. call.need - 1 \in Nat
      BY <1>6, <1>7
    <3>3. call \in [fn : SyncFns \cup {"none", "wait", "submit_and_wait"},
                    own : SUBSET Nat, got : SUBSET Nat, need : Nat]
      BY DEF CtxInv, SyncInv, CallTypes
    <3> QED BY <3>1, <3>2, <3>3, <1>6
  <2>2. CallTypes'
    BY <2>1, <1>1, <1>6, <1>7 DEF CtxInv, SyncInv, CallTypes
  <2>3. SyncAlone'
    BY <2>1, <1>2 DEF CtxInv, SyncInv, SyncAlone
  <2>4. SyncExact'
    <3> SUFFICES ASSUME mess \cap {"mixed", "left"} = {}
                 PROVE  /\ Ids(Outstanding') = call'.own \ call'.got
                        /\ call'.got \subseteq call'.own
                        /\ IsFiniteSet(call'.own)
                        /\ Cardinality(call'.own \ call'.got) = call'.need
                        /\ \A o \in Outstanding' : o.kind \notin ShotKinds
      BY <2>1 DEF SyncExact, Ids
    <3>1. /\ Ids(Outstanding') = call.own \ Got
          /\ Got \subseteq call.own
          /\ IsFiniteSet(call.own)
          /\ Cardinality(call.own \ Got) = call.need - 1
          /\ \A o \in Outstanding' : o.kind \notin ShotKinds
      BY <1>1, TakenExact DEF CtxInv
    <3> QED BY <3>1, <2>1
  <2>5. Quiet' /\ SyncOwn'
    BY <2>1, <1>1 DEF Quiet, CtxInv, SyncInv, SyncOwn
  <2> QED BY <2>2, <2>3, <2>4, <2>5, <1>2, <1>4, <1>5 DEF CtxInv, SyncInv
<1>8. ASSUME NEW out \in {"result", "error"}, Leave(out),
             out = "result" => call.need = 1
      PROVE  SyncInv'
  <2>1. /\ call' = Idle /\ call'.own = {}
        /\ last' = [own |-> call.own, got |-> Got, outcome |-> out]
        /\ mess' = mess \cup (IF out = "error" /\ call.need > 1
                              THEN {"left"} ELSE {})
    BY <1>8 DEF Leave, Return, Idle
  <2>2. CallTypes'
    BY <2>1, <1>6 DEF CallTypes, Idle, SyncFns
  <2>3. ASSUME mess' \cap {"mixed", "left"} = {}
        PROVE  /\ Outstanding' = {}
               /\ last'.got \subseteq last'.own
               /\ last'.outcome = "result" => last'.got = last'.own
    <3>1. call.need = 1 /\ mess \cap {"mixed", "left"} = {}
      BY <2>1, <2>3, <1>1, <1>6, <1>8
    <3>2. Ids(Outstanding') = {} /\ Got \subseteq call.own /\ call.own \ Got = {}
      BY <3>1, <1>1, TakenExact DEF CtxInv
    <3> QED BY <3>2, <2>1 DEF Ids
  <2> QED BY <2>1, <2>2, <2>3
      DEF SyncInv, SyncAlone, SyncExact, Quiet, SyncOwn
<1> QED BY <1>1, <1>2, <1>4, <1>5, <1>7, <1>8 DEF CtxInv

\* A completion is handed to the caller.
LEMMA DeliverInv ==
    ASSUME CtxInv, Deliver, call.own = {}, call' = Idle
    PROVE  CtxInv'
<1> DEFINE h == Head(cq)
<1>1. Taken /\ pins' = Release(h.tag) /\ raised' = raised /\ mess' = mess
      /\ last' = NoReturn
  BY DEF Deliver, Taken, ghostVars
<1>2. /\ RingInv' /\ h \in CqeType /\ Origin(h) \in Outstanding
      /\ Outstanding' \subseteq Outstanding
      /\ Outstanding \subseteq Outstanding' \cup {Origin(h)}
      /\ sq' = sq /\ kernel' = kernel /\ state' = state
  BY <1>1, TakenRing DEF CtxInv, Taken
<1>3. Origin(h).id = h.id /\ Origin(h).kind = h.kind /\ Origin(h).tag = h.tag
  BY <1>2, OriginOf
<1>4. /\ pins \in [Tags -> Nat] /\ pins' \in [Tags -> Nat]
      /\ \A t \in Tags : pins'[t] = IF t = h.tag THEN NoOp ELSE pins[t]
  BY <1>1 DEF Release, NoOp, CtxInv, PinInv, PinTypes
<1>5. InFlightPinned'
  <2> SUFFICES ASSUME state = "open", "dup" \notin mess, NEW o \in kernel,
                      o.kind = "buf", o.id \notin raised, o.sqe = o.id
               PROVE  pins'[o.tag] = o.id
    BY <1>1, <1>2 DEF InFlightPinned
  <2>1. pins[o.tag] = o.id
    BY DEF CtxInv, PinInv, InFlightPinned
  <2>2. o \in Outstanding /\ o.tag \in Tags
    BY OutIs DEF CtxInv, PinInv, BufTags, RingInv
  <2>3. o.tag # h.tag
    <3> SUFFICES ASSUME o.tag = h.tag PROVE FALSE
      OBVIOUS
    <3>1. Origin(h) = o
      BY <2>2, <1>2, <1>3 DEF CtxInv, PinInv, TagsApart
    <3>2. cq \in Seq(CqeType) /\ cq # <<>>
      BY DEF CtxInv, RingInv, RingTypes, Deliver
    <3>3. h = cq[1] /\ 1 \in 1 .. Len(cq)
      BY <3>2, ToSetTail
    <3>4. h.kind \in ShotKinds
      BY <3>1, <3>3, <1>3, OnceIs DEF CtxInv, RingInv, Once
    <3> QED BY <3>1, <3>4, <1>3 DEF ShotKinds
  <2> QED BY <2>1, <2>2, <2>3, <1>4
<1>6. PinInv'
  BY <1>1, <1>2, <1>4, <1>5
  DEF CtxInv, PinInv, PinTypes, QueuedRaised, BufTags, RunOnce,
      TagsApart
<1>7. NoLeakedPin'
  <2> SUFFICES ASSUME mess \cap {"mixed", "dup"} = {}, NEW t \in Tags,
                      pins'[t] # NoOp
               PROVE  \E o \in Outstanding' :
                         o.id = pins'[t] /\ o.tag = t /\ o.kind = "buf"
    BY <1>1 DEF NoLeakedPin
  <2>1. t # h.tag /\ pins'[t] = pins[t]
    BY <1>4
  <2>2. PICK o \in Outstanding : o.id = pins[t] /\ o.tag = t /\ o.kind = "buf"
    BY <2>1 DEF CtxInv, NoLeakedPin
  <2>3. o \in Outstanding'
    BY <2>1, <2>2, <1>2, <1>3
  <2> QED BY <2>1, <2>2, <2>3
<1>8. SyncInv'
  <2>1. CallTypes' /\ call'.own = {}
    BY <1>1 DEF CallTypes, Idle, NoReturn, SyncFns
  <2> QED BY <2>1, <1>1, <1>2
      DEF CtxInv, SyncInv, SyncAlone, SyncExact, Quiet, SyncOwn, NoReturn
<1> QED BY <1>2, <1>6, <1>7, <1>8 DEF CtxInv

\* Steps that change nothing but the thread's place: not in a synchronous
\* call before, nor after.
LEMMA IdlingInv ==
    ASSUME CtxInv, UNCHANGED <<state, ringVars, pins, issued, ghostVars>>,
           last' = NoReturn, call.own = {},
           call' \in [fn : {"none", "wait", "submit_and_wait"},
                      own : {{}}, got : {{}}, need : Nat]
    PROVE  CtxInv'
<1>1. /\ state' = state /\ sq' = sq /\ kernel' = kernel /\ cq' = cq
      /\ pins' = pins /\ issued' = issued /\ raised' = raised /\ mess' = mess
      /\ Outstanding' = Outstanding
  BY DEF ringVars, ghostVars, Outstanding
<1>2. RingInv'
  BY <1>1 DEF CtxInv, RingInv, RingTypes, Named, OnePlace
<1>3. PinInv' /\ NoLeakedPin'
  BY <1>1 DEF CtxInv, PinInv, PinTypes, QueuedRaised, BufTags, RunOnce,
      TagsApart,
              InFlightPinned, NoLeakedPin
<1>4. CallTypes'
  BY DEF CallTypes, NoReturn, SyncFns
<1>5. SyncInv'
  BY <1>1, <1>4
  DEF CtxInv, SyncInv, SyncAlone, SyncExact, Quiet, SyncOwn, NoReturn
<1> QED BY <1>2, <1>3, <1>5 DEF CtxInv

\* The queued SQEs are handed over.
LEMMA FlushInv ==
    ASSUME CtxInv, Flushed, UNCHANGED <<pins, ghostVars>>,
           last' = NoReturn, call.own = {},
           call' \in [fn : {"none", "wait", "submit_and_wait"},
                      own : {{}}, got : {{}}, need : Nat]
    PROVE  CtxInv'
<1>1. RingInv' /\ Outstanding' = Outstanding
  BY FlushedRing DEF CtxInv
<1>2. /\ state' = state /\ sq' = <<>> /\ kernel' = kernel \cup ToSet(sq)
      /\ pins' = pins /\ raised' = raised /\ mess' = mess /\ ToSet(sq') = {}
  BY DEF Flushed, ghostVars, ToSet
<1>3. PinInv' /\ NoLeakedPin'
  BY <1>1, <1>2
  DEF CtxInv, PinInv, PinTypes, QueuedRaised, BufTags, RunOnce,
      TagsApart,
      InFlightPinned, NoLeakedPin
<1>4. CallTypes'
  BY DEF CallTypes, NoReturn, SyncFns
<1>5. SyncInv'
  BY <1>1, <1>2, <1>4
  DEF CtxInv, SyncInv, SyncAlone, SyncExact, Quiet, SyncOwn, NoReturn
<1> QED BY <1>1, <1>3, <1>5 DEF CtxInv

\* An operation of the kernel ends or posts.
LEMMA KernelInv ==
    ASSUME CtxInv, RingInv', Outstanding' = Outstanding,
           kernel' \subseteq kernel,
           UNCHANGED <<state, sq, pins, call, last, ghostVars>>
    PROVE  CtxInv'
<1>1. /\ state' = state /\ sq' = sq /\ pins' = pins /\ call' = call
      /\ last' = last /\ raised' = raised /\ mess' = mess
  BY DEF ghostVars
<1>2. PinInv' /\ NoLeakedPin'
  BY <1>1
  DEF CtxInv, PinInv, PinTypes, QueuedRaised, BufTags, RunOnce,
      TagsApart,
      InFlightPinned, NoLeakedPin
<1>3. SyncInv'
  BY <1>1
  DEF CtxInv, SyncInv, CallTypes, SyncAlone, SyncExact, Quiet, SyncOwn, Ids
<1> QED BY <1>2, <1>3 DEF CtxInv

\* A wait fails: the call leaves its operations where they are.
LEMMA WaitFailsInv ==
    ASSUME CtxInv, WaitFails
    PROVE  CtxInv'
<1>1. /\ state' = state /\ sq' = sq /\ kernel' = kernel /\ cq' = cq
      /\ pins' = pins /\ issued' = issued /\ raised' = raised
      /\ Outstanding' = Outstanding
      /\ mess' = mess \cup (IF call.own # {} THEN {"left"} ELSE {})
      /\ call' = Idle
      /\ last' = [own |-> call.own, got |-> call.got, outcome |-> "error"]
  BY DEF WaitFails, Return, ringVars, Outstanding
<1>2. RingInv'
  BY <1>1 DEF CtxInv, RingInv, RingTypes, Named, OnePlace
<1>3. PinInv' /\ NoLeakedPin'
  BY <1>1 DEF CtxInv, PinInv, PinTypes, QueuedRaised, BufTags, RunOnce,
      TagsApart,
              InFlightPinned, NoLeakedPin, Messes
<1>4. CallTypes' /\ call'.own = {}
  BY <1>1 DEF CtxInv, SyncInv, CallTypes, SyncFns, Idle
<1>5. call.own = {} => call.got = {}
  BY DEF CtxInv, SyncInv, CallTypes
<1>6. SyncInv'
  BY <1>1, <1>4, <1>5
  DEF CtxInv, SyncInv, SyncAlone, SyncExact, Quiet, SyncOwn
<1> QED BY <1>2, <1>3, <1>6 DEF CtxInv

\* close drops the pins, then uring_destroy takes the ring down.
LEMMA CloseInv ==
    ASSUME CtxInv, ClosedIdle, Close \/ Destroy
    PROVE  CtxInv'
<1>1. CASE Close
  <2>1. /\ sq' = sq /\ kernel' = kernel /\ cq' = cq /\ issued' = issued
        /\ raised' = raised /\ mess' = mess /\ Outstanding' = Outstanding
        /\ call' = call /\ call = Idle /\ last' = NoReturn
        /\ state' = "closing" /\ pins' = [t \in Tags |-> NoOp]
    BY <1>1 DEF Close, Enter, ringVars, ghostVars, Outstanding
  <2>2. RingInv'
    BY <2>1 DEF CtxInv, RingInv, RingTypes, Named, OnePlace
  <2>3. PinInv' /\ NoLeakedPin'
    BY <2>1 DEF CtxInv, PinInv, PinTypes, QueuedRaised, BufTags, RunOnce,
      TagsApart,
                InFlightPinned, NoLeakedPin, NoOp
  <2>4. CallTypes' /\ call'.own = {} /\ call.own = {}
    BY <2>1 DEF CallTypes, NoReturn, Idle, SyncFns
  <2>5. SyncInv'
    BY <2>1, <2>4
    DEF CtxInv, SyncInv, SyncAlone, SyncExact, Quiet, SyncOwn, NoReturn
  <2> QED BY <2>2, <2>3, <2>5 DEF CtxInv
<1>2. CASE Destroy
  <2>1. /\ Destroyed /\ state = "closing" /\ state' = "closed" /\ kernel' = {}
        /\ pins' = pins /\ call' = call /\ last' = last /\ raised' = raised
        /\ mess' = mess /\ ToSet(sq') = {}
    BY <1>2 DEF Destroy, Destroyed, ghostVars, ToSet
  <2>2. RingInv' /\ Outstanding' = {}
    BY <2>1, DestroyedRing DEF CtxInv
  <2>3. PinInv' /\ NoLeakedPin'
    BY <2>1, <2>2
    DEF CtxInv, PinInv, PinTypes, QueuedRaised, BufTags, RunOnce,
      TagsApart,
        InFlightPinned, NoLeakedPin
  <2>4. call.own = {}
    BY <2>1 DEF ClosedIdle, Idle
  <2>5. SyncInv'
    BY <2>1, <2>2, <2>4
    DEF CtxInv, SyncInv, CallTypes, SyncAlone, SyncExact, Quiet, SyncOwn
  <2> QED BY <2>2, <2>3, <2>5 DEF CtxInv
<1> QED BY <1>1, <1>2

\* A message of another ring arrives.
LEMMA MessageInv ==
    ASSUME CtxInv, NEW t \in Tags, MessageArrives(t)
    PROVE  CtxInv'
<1>1. /\ Messaged(t) /\ state' = state /\ sq' = sq /\ kernel' = kernel
      /\ pins' = pins /\ call' = call /\ last' = last /\ raised' = raised
      /\ mess' = mess \cup (IF call.own # {} THEN {"mixed"} ELSE {})
                      \cup Reused({t})
  BY DEF MessageArrives, Messaged
<1>2. RingInv'
  BY <1>1, MessagedRing DEF CtxInv
<1>3. PICK m \in Op : /\ m.tag = t /\ m.kind = "msg" /\ m.id = issued + 1
                      /\ m.sqe = m.id
                      /\ Outstanding' = Outstanding \cup {m}
  BY <1>1, MessagedRing DEF CtxInv
<1>4. mess \subseteq mess' /\ mess' \subseteq mess \cup {"mixed", "dup"}
  BY <1>1, ReusedIs
<1>5. TagsApart'
  <2>1. "dup" \in mess' \/ \A o \in Outstanding : o.tag \notin {t} \cap Tags
    BY <1>1, ReusedIs
  <2>2. "dup" \in mess' \/ \A o \in Outstanding : \A p \in {m} :
                              o.tag \in Tags => o.tag # p.tag
    BY <2>1, <1>3
  <2>3. Outstanding' \subseteq Outstanding \cup {m}
        /\ \A o, p \in {m} : o.tag = p.tag => o = p
    BY <1>3
  <2> QED BY <2>2, <2>3, <1>4, TagsStayApart DEF CtxInv, PinInv
<1>6. PinInv'
  BY <1>1, <1>3, <1>4, <1>5
  DEF CtxInv, PinInv, PinTypes, QueuedRaised, BufTags, RunOnce, InFlightPinned,
      Messes
<1>7. NoLeakedPin'
  BY <1>1, <1>3, <1>4 DEF CtxInv, NoLeakedPin
<1>8. SyncInv'
  <2>1. CallTypes'
    BY <1>1 DEF CtxInv, SyncInv, CallTypes
  <2>2. call.own # {} => "mixed" \in mess'
    BY <1>1
  <2>3. SyncAlone' /\ SyncExact'
    BY <2>2, <1>1 DEF SyncAlone, SyncExact
  <2>4. Quiet' /\ SyncOwn'
    BY <1>1, <1>3, <1>4 DEF CtxInv, SyncInv, Quiet, SyncOwn, SyncKinds
  <2> QED BY <2>1, <2>3, <2>4 DEF SyncInv
<1> QED BY <1>2, <1>6, <1>7, <1>8 DEF CtxInv

\* The SQE that link_read_write leaves is a new operation, and is kept.
LEMMA StaleKept ==
    ASSUME RingInv, SlotsOK, NEW history, LeaveStale(history)
    PROVE  /\ Stale \in Op /\ Fresh(<<Stale>>) /\ Kept(<<Stale>>, 1)
           /\ ToSet(<<Stale>>) = {Stale}
           /\ Stale.kind = "buf" => Stale.tag \in Tags
           /\ Stale.id = issued + 1 /\ Stale.sqe <= issued
<1>1. /\ issued \in Nat /\ Entries \in Nat /\ 1 \in 1 .. Entries
      /\ Len(sq) \in Nat /\ sq \in Seq(Op)
  BY UringCtxAssumption DEF RingInv, RingTypes
<1>2. PICK o \in Op : /\ o = Stale /\ o.id = issued + 1 /\ o.sqe <= issued
                      /\ o.kind = "buf" => o.tag \in Tags
  <2>1. PICK u : u = slots[1]
    OBVIOUS
  <2>2. /\ u \in [sqe : Nat, tag : Nat, kind : Kinds] /\ u.sqe <= issued
        /\ u.kind = "buf" => u.tag \in Tags
    BY <1>1, <2>1 DEF SlotsOK
  <2>3. Stale = [id |-> issued + 1, sqe |-> u.sqe, tag |-> u.tag, kind |-> u.kind,
                 after |-> 0]
    BY <2>1 DEF Stale, NoOp
  <2>4. issued + 1 \in Nat \ {0}
    BY <1>1
  <2> QED BY <2>2, <2>3, <2>4 DEF Op
<1>3. PICK ops : ops = <<o>>
  OBVIOUS
<1>4. ops \in Seq(Op) /\ Len(ops) = 1 /\ ops[1] = o
  BY <1>3
<1>5. \A i \in 1 .. Len(ops) : i = 1
  BY <1>4
<1>6. Fresh(ops)
  BY <1>1, <1>2, <1>4, <1>5 DEF Fresh
<1>7. ToSet(ops) = {o}
  BY <1>4, <1>5, ToSetIs
<1>8. SubSeq(ops, 1, 1) = ops
  BY <1>4
<1>9. Append(sq, o) = sq \o ops
  BY <1>1, <1>3, AppendIsConcat
<1>10. Kept(ops, 1)
  <2>1. sq' = sq \o SubSeq(ops, 1, 1)
    BY <1>2, <1>8, <1>9 DEF LeaveStale
  <2>2. 1 \in 0 .. Len(ops) /\ Len(sq) + 1 <= Entries
    BY <1>1, <1>4 DEF LeaveStale, Room
  <2>3. issued' = issued + Len(ops)
    BY <1>4 DEF LeaveStale
  <2> QED BY <2>1, <2>2, <2>3 DEF Kept, LeaveStale
<1>11. ops = <<Stale>>
  BY <1>2, <1>3
<1> QED BY <1>2, <1>6, <1>7, <1>10, <1>11

\* link_read_write gives up between its two SQEs.
LEMMA StaleInv ==
    ASSUME CtxInv, SlotsOK, LinkLeaves
    PROVE  CtxInv'
<1>0. call = Idle
  BY DEF LinkLeaves, LinkCall, Enter
<1>1. /\ Stale \in Op /\ Fresh(<<Stale>>) /\ Kept(<<Stale>>, 1)
      /\ ToSet(<<Stale>>) = {Stale}
      /\ Stale.kind = "buf" => Stale.tag \in Tags
      /\ Stale.id = issued + 1 /\ Stale.sqe <= issued
  BY StaleKept DEF CtxInv, LinkLeaves
<1>2. /\ RingInv'
      /\ ToSet(sq') \subseteq ToSet(sq) \cup {Stale}
      /\ Outstanding \subseteq Outstanding'
      /\ Outstanding' \subseteq Outstanding \cup {Stale}
  BY <1>1, KeptRing DEF CtxInv
<1>3. /\ call' = Idle /\ state' = state /\ kernel' = kernel /\ pins' = pins
      /\ raised' = raised
      /\ last' = [own |-> {}, got |-> {}, outcome |-> "error"]
      /\ mess' = mess \cup {"left", "stale"} \cup Reused({Stale.tag})
  BY <1>0 DEF LinkLeaves, LeaveStale, Return
<1>4. Stale.sqe # Stale.id
  BY <1>1 DEF CtxInv, RingInv, RingTypes, Op
<1>5. PinInv'
  <2>1. PinTypes'
    BY <1>3, ReusedIs DEF CtxInv, PinInv, PinTypes, Messes
  <2>2. QueuedRaised' /\ BufTags' /\ RunOnce'
    BY <1>1, <1>2, <1>3, <1>4 DEF CtxInv, PinInv, QueuedRaised, BufTags, RunOnce
  <2>3. TagsApart'
    <3>1. {o.tag : o \in ToSet(<<Stale>>)} = {Stale.tag}
      BY <1>1
    <3>2. mess \cup Reused({o.tag : o \in ToSet(<<Stale>>)}) \subseteq mess'
      BY <3>1, <1>3
    <3> QED BY <3>2, <1>1, <1>2, SubmittedTags DEF CtxInv, PinInv
  <2>4. InFlightPinned'
    BY <1>3 DEF CtxInv, PinInv, InFlightPinned
  <2> QED BY <2>1, <2>2, <2>3, <2>4 DEF PinInv
<1>6. SyncInv'
  <2>1. CallTypes'
    BY <1>0, <1>3 DEF CtxInv, SyncInv, CallTypes
  <2>2. call'.own = {} /\ "left" \in mess'
    BY <1>3 DEF Idle
  <2> QED BY <2>1, <2>2 DEF SyncInv, SyncAlone, SyncExact, Quiet, SyncOwn
<1>7. NoLeakedPin'
  BY <1>2, <1>3 DEF CtxInv, NoLeakedPin
<1> QED BY <1>2, <1>5, <1>6, <1>7 DEF CtxInv

\* The entries of the ring after ops were written.
LEMMA FilledOK ==
    ASSUME SlotsOK, NEW ops \in Seq(Op), Len(ops) <= Entries,
           issued \in Nat, issued' \in Nat, issued <= issued',
           \A i \in 1 .. Len(ops) : /\ ops[i].sqe <= issued'
                                    /\ ops[i].kind = "buf" => ops[i].tag \in Tags,
           slots' = Filled(ops)
    PROVE  SlotsOK'
<1> SUFFICES ASSUME NEW i \in 1 .. Entries
             PROVE  /\ slots'[i] \in [sqe : Nat, tag : Nat, kind : Kinds]
                    /\ slots'[i].sqe <= issued'
                    /\ slots'[i].kind = "buf" => slots'[i].tag \in Tags
  BY DEF SlotsOK, Filled
<1>1. Len(ops) \in Nat /\ Entries \in Nat /\ i \in Nat /\ i <= Entries /\ i >= 1
  BY UringCtxAssumption
<1>2. CASE i + Len(ops) <= Entries
  <2>1. PICK k \in 1 .. Entries : k = i + Len(ops)
    BY <1>1, <1>2
  <2>2. slots'[i] = slots[k]
    BY <2>1, <1>2 DEF Filled
  <2>3. /\ slots[k] \in [sqe : Nat, tag : Nat, kind : Kinds]
        /\ slots[k].sqe <= issued
        /\ slots[k].kind = "buf" => slots[k].tag \in Tags
    BY DEF SlotsOK
  <2> QED BY <2>2, <2>3
<1>3. CASE i + Len(ops) > Entries
  <2>1. PICK k \in 1 .. Len(ops) : k = i + Len(ops) - Entries
    BY <1>1, <1>3
  <2>2. ops[k] \in Op
    OBVIOUS
  <2>3. slots'[i] = [sqe |-> ops[k].sqe, tag |-> ops[k].tag, kind |-> ops[k].kind]
    BY <2>1, <1>1, <1>3 DEF Filled
  <2> QED BY <2>2, <2>3 DEF Op
<1> QED BY <1>1, <1>2, <1>3

\* The same for the SQEs of a call, as many as fit.
LEMMA WrittenOK ==
    ASSUME RingInv, SlotsOK, NEW ops, Fresh(ops), Written(ops),
           issued' = issued + Len(ops),
           \A o \in ToSet(ops) : o.kind = "buf" => o.tag \in Tags
    PROVE  SlotsOK'
<1>1. /\ ops \in Seq(Op) /\ Len(ops) \in Nat /\ issued \in Nat
      /\ Len(sq) \in Nat /\ Len(sq) <= Entries /\ Entries \in Nat
      /\ issued' \in Nat /\ issued <= issued'
  BY UringCtxAssumption DEF RingInv, RingTypes, OnePlace, Fresh
<1>2. \A i \in 1 .. Len(ops) : /\ ops[i] \in Op /\ ops[i].sqe <= issued'
                               /\ ops[i].kind = "buf" => ops[i].tag \in Tags
  BY <1>1, ToSetIs DEF Fresh, Written
<1>3. PICK n \in 0 .. Len(ops) : Fitting(ops) = SubSeq(ops, 1, n) /\ n <= Entries
  BY <1>1 DEF Fitting, Room
<1>4. PICK f : f = SubSeq(ops, 1, n)
  OBVIOUS
<1>5. f \in Seq(Op) /\ Len(f) = n /\ \A i \in 1 .. n : f[i] = ops[i]
  <2>1. /\ SubSeq(ops, 1, n) \in Seq(Op)
        /\ Len(SubSeq(ops, 1, n)) = IF 1 <= n THEN n - 1 + 1 ELSE 0
        /\ \A i \in 1 .. n - 1 + 1 : SubSeq(ops, 1, n)[i] = ops[1 + i - 1]
    BY <1>1, <1>2, SubSeqProperties
  <2> QED BY <2>1, <1>1, <1>4
<1>6. \A i \in 1 .. Len(f) : /\ f[i].sqe <= issued'
                             /\ f[i].kind = "buf" => f[i].tag \in Tags
  BY <1>1, <1>2, <1>5
<1>7. slots' = Filled(f)
  BY <1>3, <1>4 DEF Written
<1> QED BY <1>1, <1>3, <1>5, <1>6, <1>7, FilledOK

\* Calls write what they prepare into the ring, and nothing else does.
LEMMA SlotsStep == CtxInv /\ SlotsOK /\ [Next]_vars => SlotsOK'
<1> SUFFICES ASSUME CtxInv, SlotsOK, [Next]_vars PROVE SlotsOK'
  OBVIOUS
<1>0. RingInv /\ issued \in Nat
  BY DEF CtxInv, RingInv, RingTypes
<1>1. CASE SyncStart
  <2>1. PICK fn \in SyncFns, ops \in Seq(Op) :
           /\ SyncOps(fn, ops) /\ Written(ops)
           /\ (Accepted(ops) /\ Block(fn, ops)) \/ GaveUp(ops)
    BY <1>0, <1>1, SyncStarts
  <2>2. Fresh(ops) /\ issued' = issued + Len(ops)
    BY <2>1 DEF SyncOps, Accepted, GaveUp, Kept
  <2>3. \A o \in ToSet(ops) : o.kind # "buf"
    BY <2>1, ToSetIs DEF SyncOps, SyncKinds
  <2> QED BY <1>0, <2>1, <2>2, <2>3, WrittenOK
<1>2. ASSUME NEW t \in Tags, AsyncStart(t) PROVE SlotsOK'
  <2>1. PICK k \in AsyncKinds, o \in Op, ops \in Seq(Op) :
           /\ Fresh(ops) /\ ToSet(ops) = {o} /\ Written(ops) /\ o.tag = t
           /\ (Accepted(ops) /\ AsyncDone(t, k)) \/ GaveUp(ops)
    BY <1>0, <1>2, AsyncStarts
  <2>2. issued' = issued + Len(ops)
    BY <2>1 DEF Accepted, GaveUp, Kept
  <2> QED BY <1>0, <2>1, <2>2, WrittenOK
<1>3. CASE LinkLeaves
  <2>1. PICK o \in Op : /\ o = Stale /\ o.sqe <= issued
                        /\ o.kind = "buf" => o.tag \in Tags
    BY <1>0, <1>3, StaleKept DEF LinkLeaves
  <2>2. PICK ops : ops = <<o>>
    OBVIOUS
  <2>3. ops \in Seq(Op) /\ Len(ops) = 1 /\ ops[1] = o /\ Len(ops) <= Entries
    BY <2>2, UringCtxAssumption
  <2>4. \A i \in 1 .. Len(ops) : i = 1
    BY <2>3
  <2>7. ops = <<Stale>>
    BY <2>1, <2>2
  <2>5. slots' = Filled(ops) /\ issued' = issued + 1
    BY <1>3, <2>7 DEF LinkLeaves, LeaveStale
  <2>6. issued' \in Nat /\ issued <= issued' /\ o.sqe <= issued'
    BY <1>0, <2>1, <2>5 DEF Op
  <2>8. \A i \in 1 .. Len(ops) : /\ ops[i].sqe <= issued'
                                 /\ ops[i].kind = "buf" => ops[i].tag \in Tags
    BY <2>1, <2>3, <2>4, <2>6
  <2> QED BY <1>0, <2>3, <2>5, <2>6, <2>8, FilledOK
<1>4. ASSUME NEW t \in Tags, MessageArrives(t) PROVE SlotsOK'
  BY <1>0, <1>4 DEF MessageArrives, SlotsOK
<1>5. CASE Destroy
  <2>1. slots' = [i \in 1 .. Entries |-> ZeroSqe] /\ issued' = issued
    BY <1>5 DEF Destroy
  <2> QED BY <1>0, <2>1 DEF SlotsOK, ZeroSqe, NoOp, Kinds, AsyncKinds
<1>6. ASSUME slots' = slots, issued' = issued PROVE SlotsOK'
  BY <1>6 DEF SlotsOK
<1>7. CASE SyncReap \/ WaitFails \/ WaitTake \/ SubmitAndWaitDone \/ Refused
  BY <1>6, <1>7 DEF SyncReap, SyncTake, BatchTake, LinkTake, PairTake, Take,
     WaitFails, WaitTake, Deliver, SubmitAndWaitDone, Refused, ringVars
<1>8. CASE WaitCompletion \/ PeekCompletion \/ SubmitQueued \/ SubmitFails \/ Close
  BY <1>6, <1>8 DEF WaitCompletion, PeekCompletion, Deliver, SubmitQueued,
     SubmitFails, Close, ringVars
<1>9. ASSUME NEW n \in 1 .. Entries, SubmitAndWait(n) PROVE SlotsOK'
  BY <1>6, <1>9 DEF SubmitAndWait
<1>10. ASSUME NEW o \in kernel, Complete(o) \/ Shot(o) PROVE SlotsOK'
  BY <1>6, <1>10 DEF Complete, Shot
<1>11. ASSUME NEW o \in kernel, NEW v \in kernel, CompleteTarget(o, v)
       PROVE SlotsOK'
  BY <1>6, <1>11 DEF CompleteTarget
<1>12. CASE UNCHANGED vars
  BY <1>6, <1>12 DEF vars, ringVars
<1> QED
  <2>1. CASE Next
    BY <2>1, <1>1, <1>2, <1>3, <1>4, <1>5, <1>7, <1>8, <1>9, <1>10, <1>11,
       LinkCases
    DEF Next, SyncStart, SyncReap, AsyncStart
  <2> QED BY <2>1, <1>12

\* The context starts with nothing outstanding.
LEMMA CtxInit == Init => CtxInv
<1> SUFFICES ASSUME Init PROVE CtxInv
  OBVIOUS
<1>1. /\ sq = <<>> /\ kernel = {} /\ cq = <<>> /\ Len(sq) = 0 /\ Len(cq) = 0
      /\ ToSet(sq) = {} /\ ToSet(cq) = {}
  BY DEF Init, ToSet
<1>2. Outstanding = {}
  BY <1>1 DEF Outstanding
<1>3. RingTypes
  BY <1>1 DEF Init, RingTypes
<1>4. Once
  BY <1>1, UringCtxAssumption DEF Once
<1>5. RingInv
  BY <1>2, <1>3, <1>4, OnceIs DEF RingInv, Named
<1>6. PinInv /\ NoLeakedPin
  BY <1>1, <1>2
  DEF Init, PinInv, PinTypes, QueuedRaised, BufTags, RunOnce,
      TagsApart,
      InFlightPinned, NoLeakedPin, NoOp
<1>7. CallTypes /\ call.own = {}
  BY DEF Init, CallTypes, Idle, NoReturn, SyncFns
<1>8. SyncInv
  BY <1>2, <1>7
  DEF Init, SyncInv, SyncAlone, SyncExact, Quiet, SyncOwn, NoReturn
<1> QED BY <1>5, <1>6, <1>8 DEF CtxInv

\* The invariant is inductive: every step of the thread, of the kernel and of
\* other rings is one of the effects.
LEMMA CtxStep == CtxInv /\ ClosedIdle /\ SlotsOK /\ [Next]_vars => CtxInv'
<1> SUFFICES ASSUME CtxInv, ClosedIdle, SlotsOK, [Next]_vars PROVE CtxInv'
  OBVIOUS
<1>0. CASE LinkLeaves
  BY <1>0, StaleInv
<1>1. CASE SyncStart
  BY <1>1, SyncStartInv
<1>2. CASE SyncReap
  BY <1>2, SyncReapInv
<1>3. CASE WaitFails
  BY <1>3, WaitFailsInv
<1>4. ASSUME NEW t \in Tags, AsyncStart(t) PROVE CtxInv'
  BY <1>4, AsyncStartInv
<1>5. ASSUME NEW t \in Tags, MessageArrives(t) PROVE CtxInv'
  BY <1>5, MessageInv
<1>6. CASE Close \/ Destroy
  BY <1>6, CloseInv
<1>7. CASE WaitTake
  <2>1. Deliver /\ call' = Idle /\ call.own = {}
    BY <1>7 DEF WaitTake, CtxInv, SyncInv, CallTypes, SyncFns
  <2> QED BY <2>1, DeliverInv
<1>8. CASE PeekCompletion
  <2>1. call = Idle /\ call' = Idle /\ call.own = {}
    BY <1>8 DEF PeekCompletion, Enter, Idle
  <2>2. CASE Deliver
    BY <2>1, <2>2, DeliverInv
  <2>3. CASE last' = NoReturn /\ UNCHANGED <<state, ringVars, pins, issued, ghostVars>>
    BY <2>1, <2>3, IdlingInv DEF Idle
  <2> QED BY <1>8, <2>2, <2>3 DEF PeekCompletion
<1>9. CASE Refused \/ SubmitFails
  <2>1. /\ call = Idle /\ call' = Idle /\ last' = NoReturn
        /\ UNCHANGED <<state, ringVars, pins, issued, ghostVars>>
    BY <1>9 DEF Refused, SubmitFails, Enter
  <2> QED BY <2>1, IdlingInv DEF Idle
<1>10. CASE WaitCompletion
  <2>1. /\ call = Idle /\ call' = [Idle EXCEPT !.fn = "wait", !.need = 1]
        /\ last' = NoReturn
        /\ UNCHANGED <<state, ringVars, pins, issued, ghostVars>>
    BY <1>10 DEF WaitCompletion, Enter
  <2> QED BY <2>1, IdlingInv DEF Idle
<1>11. CASE SubmitAndWaitDone
  <2>1. /\ call.own = {} /\ call' = Idle /\ last' = NoReturn
        /\ UNCHANGED <<state, ringVars, pins, issued, ghostVars>>
    BY <1>11 DEF SubmitAndWaitDone, CtxInv, SyncInv, CallTypes, SyncFns
  <2> QED BY <2>1, IdlingInv DEF Idle
<1>12. CASE SubmitQueued
  <2>1. /\ Flushed /\ call = Idle /\ call' = Idle /\ last' = NoReturn
        /\ UNCHANGED <<pins, ghostVars>>
    BY <1>12 DEF SubmitQueued, Enter, Flushed
  <2> QED BY <2>1, FlushInv DEF Idle
<1>13. ASSUME NEW n \in 1 .. Entries, SubmitAndWait(n) PROVE CtxInv'
  <2>1. /\ Flushed /\ call = Idle /\ last' = NoReturn
        /\ call' = [Idle EXCEPT !.fn = "submit_and_wait", !.need = n]
        /\ UNCHANGED <<pins, ghostVars>>
    BY <1>13 DEF SubmitAndWait, Enter, Flushed
  <2>2. n \in Nat
    BY UringCtxAssumption
  <2> QED BY <2>1, <2>2, FlushInv DEF Idle
<1>14. ASSUME NEW o \in kernel, Complete(o) PROVE CtxInv'
  <2>1. PICK ok \in BOOLEAN : cq' = Append(cq, Cqe(o, ok))
    BY <1>14 DEF Complete
  <2>2. /\ Posted(o, ok, FALSE) /\ kernel' \subseteq kernel
        /\ UNCHANGED <<state, sq, pins, call, last, ghostVars>>
    BY <1>14, <2>1 DEF Complete, Posted
  <2>3. RingInv' /\ Outstanding' = Outstanding
    BY <2>2, PostedRing DEF CtxInv
  <2> QED BY <2>2, <2>3, KernelInv
<1>15. ASSUME NEW o \in kernel, Shot(o) PROVE CtxInv'
  <2>2. /\ Posted(o, TRUE, TRUE) /\ kernel' \subseteq kernel
        /\ UNCHANGED <<state, sq, pins, call, last, ghostVars>>
    BY <1>15 DEF Shot, Posted
  <2>3. RingInv' /\ Outstanding' = Outstanding
    BY <2>2, PostedRing DEF CtxInv
  <2> QED BY <2>2, <2>3, KernelInv
<1>16. ASSUME NEW o \in kernel, NEW v \in kernel, CompleteTarget(o, v) PROVE CtxInv'
  <2>1. o # v
    BY <1>16 DEF CompleteTarget, AsyncKinds
  <2>2. /\ PostedTwo(v, o) \/ PostedTwo(o, v)
        /\ kernel' \subseteq kernel
        /\ UNCHANGED <<state, sq, pins, call, last, ghostVars>>
    <3>1. kernel \ {o, v} = kernel \ {v, o}
      OBVIOUS
    <3> QED BY <3>1, <2>1, <1>16 DEF CompleteTarget, PostedTwo
  <2>3. RingInv' /\ Outstanding' = Outstanding
    BY <2>2, PostedTwoRing DEF CtxInv
  <2> QED BY <2>2, <2>3, KernelInv
<1>17. CASE UNCHANGED vars
  <2>1. /\ UNCHANGED <<state, sq, pins, call, last, ghostVars>>
        /\ kernel' = kernel /\ cq' = cq /\ issued' = issued
        /\ sq' = sq
    BY <1>17 DEF vars, ringVars
  <2>2. Outstanding' = Outstanding
    BY <2>1 DEF Outstanding
  <2>3. RingInv'
    BY <2>1, <2>2 DEF CtxInv, RingInv, RingTypes, Named, OnePlace
  <2> QED BY <2>1, <2>2, <2>3, KernelInv
<1> QED
  <2>1. CASE Next
    BY <2>1, <1>0, <1>1, <1>2, <1>3, <1>4, <1>5, <1>6, <1>7, <1>8, <1>9, <1>10,
       <1>11, <1>12, <1>13, <1>14, <1>15, <1>16, LinkCases
    DEF Next, SyncStart, SyncReap, AsyncStart
  <2> QED BY <2>1, <1>17

\* close is refused inside a call, and calls are refused once it has begun.
LEMMA ClosedIdleStep == CtxInv /\ ClosedIdle /\ [Next]_vars => ClosedIdle'
<1> SUFFICES ASSUME CtxInv, ClosedIdle, [Next]_vars PROVE ClosedIdle'
  OBVIOUS
<1>0. CASE LinkLeaves
  BY <1>0 DEF LinkLeaves, LinkCall, LeaveStale, Enter, ClosedIdle
<1>1. CASE Close \/ Destroy
  BY <1>1 DEF Close, Destroy, Enter, ClosedIdle, ringVars, ghostVars
<1>2. CASE SyncStart
  <2>1. state = "open"
    BY <1>2, SyncStarts DEF CtxInv
  <2>2. state' = state
    BY <1>2, SyncStarts DEF CtxInv, Accepted, GaveUp, Kept
  <2> QED BY <2>1, <2>2 DEF ClosedIdle
<1>3. ASSUME NEW t \in Tags, AsyncStart(t) PROVE ClosedIdle'
  <2>1. state = "open"
    BY <1>3, AsyncStarts DEF CtxInv
  <2>2. state' = state
    BY <1>3, AsyncStarts DEF CtxInv, Accepted, GaveUp, Kept
  <2> QED BY <2>1, <2>2 DEF ClosedIdle
<1>4. CASE SyncReap
  <2>1. state' = state /\ call.own # {}
    BY <1>4, SyncReaps DEF CtxInv, SyncInv, Taken
  <2> QED BY <2>1 DEF ClosedIdle, Idle
<1>5. ASSUME NEW t \in Tags, MessageArrives(t) PROVE ClosedIdle'
  BY <1>5 DEF MessageArrives, ClosedIdle
<1>6. CASE Refused \/ WaitFails \/ WaitTake \/ SubmitAndWaitDone
  BY <1>6 DEF Refused, WaitFails, WaitTake, SubmitAndWaitDone, Deliver, ClosedIdle
<1>7. CASE WaitCompletion \/ PeekCompletion \/ SubmitQueued \/ SubmitFails
  BY <1>7 DEF WaitCompletion, PeekCompletion, SubmitQueued, SubmitFails, Enter,
              Deliver, ClosedIdle
<1>8. ASSUME NEW n \in 1 .. Entries, SubmitAndWait(n) PROVE ClosedIdle'
  BY <1>8 DEF SubmitAndWait, Enter, ClosedIdle
<1>9. ASSUME NEW o \in kernel, Complete(o) \/ Shot(o) PROVE ClosedIdle'
  BY <1>9 DEF Complete, Shot, ClosedIdle
<1>10. ASSUME NEW o \in kernel, NEW v \in kernel, CompleteTarget(o, v)
       PROVE ClosedIdle'
  BY <1>10 DEF CompleteTarget, ClosedIdle
<1>11. CASE UNCHANGED vars
  BY <1>11 DEF vars, ClosedIdle
<1> QED
  <2>1. CASE Next
    BY <2>1, <1>0, <1>1, <1>2, <1>3, <1>4, <1>5, <1>6, <1>7, <1>8, <1>9, <1>10,
       LinkCases
    DEF Next, SyncStart, SyncReap, AsyncStart
  <2> QED BY <2>1, <1>11

-----------------------------------------------------------------------------
(* Theorems *)

\* The inductive invariant holds of every use of a context, link_read_write
\* without room for its second SQE included.
THEOREM CtxInvariant == Spec => [](CtxInv /\ ClosedIdle /\ SlotsOK)
<1>1. Init => CtxInv /\ ClosedIdle /\ SlotsOK
  <2>1. Init => ClosedIdle
    BY DEF Init, ClosedIdle
  <2>2. Init => SlotsOK
    BY DEF Init, SlotsOK, ZeroSqe, NoOp, Kinds, AsyncKinds
  <2> QED BY <2>1, <2>2, CtxInit
<1>2. CtxInv /\ ClosedIdle /\ SlotsOK /\ [Next]_vars
        => (CtxInv /\ ClosedIdle /\ SlotsOK)'
  BY CtxStep, ClosedIdleStep, SlotsStep
<1> QED BY <1>1, <1>2, PTL DEF Spec

\* However calls fail and are retried, an operation is in one queue at a time
\* and completes once; and the kernel runs each SQE once, as a method of the
\* context prepared it, until link_read_write fails between its two SQEs.
THEOREM CtxEachOnce == Spec => []EachOnce
<1>1. CtxInv => EachOnce
  BY DEF CtxInv, RingInv, PinInv, RunOnce, EachOnce
<1> QED BY <1>1, CtxInvariant, PTL

\* _async_io_keepalive holds the buffer of every read_async and write_async
\* the kernel is working on, as long as the program does not reuse a tag and
\* the kernel does not run the SQE a second time.
THEOREM CtxInFlightPinned == Spec => []InFlightPinned
<1>1. CtxInv => InFlightPinned
  BY DEF CtxInv, PinInv
<1> QED BY <1>1, CtxInvariant, PTL

\* _async_io_keepalive holds no buffer whose completion was handed out.
THEOREM CtxNoLeakedPin == Spec => []NoLeakedPin
<1>1. CtxInv => NoLeakedPin
  BY DEF CtxInv
<1> QED BY <1>1, CtxInvariant, PTL

\* A synchronous method that has the ring to itself returns the results of
\* its own operations.
THEOREM CtxSyncOwn == Spec => []SyncOwn
<1>1. CtxInv => SyncOwn
  BY DEF CtxInv, SyncInv
<1> QED BY <1>1, CtxInvariant, PTL

\* Such a method leaves nothing of its own in the ring.
THEOREM CtxQuiet == Spec => []QuietBetweenCalls
<1>1. CtxInv => QuietBetweenCalls
  BY DEF CtxInv, SyncInv, Quiet, QuietBetweenCalls, Idle
<1> QED BY <1>1, CtxInvariant, PTL
=============================================================================

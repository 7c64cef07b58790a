-------------------------- MODULE AsyncFileProofs --------------------------
(***************************************************************************)
(* Proofs about AsyncFile, for every number of tasks and calls, every mode *)
(* and size, over a ring and over an executor.                             *)
(***************************************************************************)
EXTENDS AsyncFile, SequenceTheorems, TLAPS

-----------------------------------------------------------------------------
(* The inductive invariant *)

Fns == {"read", "write", "aclose"}
Calls == [fn : Fns \cup {"none"}, st : {"idle", "lock", "await"},
          want : Int, size : Int]
Ops == [ud : Nat, fn : Fns, off : Nat, len : Int]
Cqes == [ud : Nat, res : Int, at : Nat]
Entries == [fn : Fns, ud : Nat, of : Nat, at : Nat, len : Nat]

TypeInv ==
    /\ mode \in AllModes /\ opened \in {"new", "open", "closed"}
    /\ path \in {"uring", "thread"}
    /\ pos \in Nat /\ ud \in Nat
    /\ queue \in Seq(Tasks) /\ holder \in Tasks \cup {Nobody}
    /\ call \in [Tasks -> Calls]
    /\ fut \in {"none", "pending", "result", "cancelled", "swallowed"}
    /\ val \in Cqes /\ must \in BOOLEAN
    /\ kernel \subseteq Ops /\ cq \in Seq(Cqes)
    /\ file \in Seq(Nat) /\ log \in Seq(Entries) /\ cancelled \in BOOLEAN

\* A task is in the queue once, and then neither idle nor the holder.
QueueInv ==
    /\ \A i \in 1 .. Len(queue) : call[queue[i]].st = "lock"
    /\ \A i, j \in 1 .. Len(queue) : queue[i] = queue[j] => i = j

\* The holder awaits a future, and there is no other.  Only a file object is
\* closed with the lock held; nothing has happened before the file is opened.
HolderInv ==
    /\ holder = Nobody => fut = "none" /\ ~must
    /\ holder # Nobody => /\ call[holder].st = "await" /\ fut # "none"
                          /\ call[holder].fn \in Fns
                          /\ call[holder].fn = "aclose" => path = "thread"
    /\ must => fut = "result"
    /\ opened = "new" => /\ holder = Nobody /\ queue = <<>> /\ log = <<>>
                         /\ kernel = {} /\ cq = <<>>
                         /\ path = "uring" /\ ~cancelled

\* Tags drawn so far; with a ring and without O_APPEND, what carries the last
\* of them is at the position.
TagInv ==
    /\ \A o \in kernel : o.ud <= ud
    /\ \A i \in 1 .. Len(cq) : cq[i].ud <= ud
Placed ==
    (path = "uring" /\ ~Appends(mode) /\ holder # Nobody) =>
        /\ \A o \in kernel : o.ud = ud => o.off = pos
        /\ \A i \in 1 .. Len(cq) : cq[i].ud = ud => cq[i].at = pos
        /\ (fut = "result" /\ val.ud = ud) => val.at = pos

\* The last transfer accepted ends at p.
EndsAt(p) == log # <<>> => p = log[Len(log)].at + log[Len(log)].len

\* The position between two transfers.
Settled == EndsAt(pos) /\ ((Appends(mode) /\ opened # "new") => pos = Len(file))

\* The effect of the holder's operation that completed as c: with a ring the
\* position is yet to be moved, a file object has moved its own.
Landed(c) ==
    /\ c.ud = ud
    /\ path = "uring" =>
          /\ c.at = pos /\ EndsAt(pos)
          /\ Appends(mode) => Len(file) = IF c.res > 0 THEN pos + c.res ELSE pos
    /\ path = "thread" =>
          /\ IF c.res >= 0 /\ call[holder].fn # "aclose"
             THEN pos = c.at + c.res /\ EndsAt(c.at)
             ELSE EndsAt(pos)
          /\ Appends(mode) => pos = Len(file)
    /\ (call[holder].fn = "write" /\ c.res > 0) =>
          /\ c.at + c.res <= Len(file)
          /\ \A x \in c.at + 1 .. c.at + c.res : file[x] = c.ud

\* Until a call is cancelled only the holder's operation is outstanding: in the
\* kernel, completed, or in the holder's future.
NoneOut == kernel = {} /\ cq = <<>> /\ Settled
InKernel ==
    /\ cq = <<>> /\ fut = "pending" /\ Settled
    /\ \E o \in kernel : /\ kernel = {o} /\ o.ud = ud /\ o.fn = call[holder].fn
                         /\ path = "uring" => o.off = pos
InCq == kernel = {} /\ fut = "pending" /\ Len(cq) = 1 /\ Landed(cq[1])
InFuture == kernel = {} /\ cq = <<>> /\ fut = "result" /\ Landed(val)
Alone ==
    ~cancelled =>
        /\ ~must
        /\ holder = Nobody => NoneOut
        /\ holder # Nobody => InKernel \/ InCq \/ InFuture

\* Until a call is cancelled, transfers accepted lie before the position, and
\* what was written within the file.
Behind ==
    ~cancelled =>
        \A i \in 1 .. Len(log) :
            /\ log[i].at + log[i].len <= pos
            /\ (log[i].fn = "write" /\ log[i].len > 0) =>
                  log[i].at + log[i].len <= Len(file)

FileInv ==
    /\ TypeInv /\ QueueInv /\ HolderInv /\ TagInv /\ Placed /\ Alone /\ Behind
    /\ NoUseAfterClose /\ StreamExact /\ WriteStays

-----------------------------------------------------------------------------
(* Sequences *)

\* The rest of a queue.
LEMMA TailIs ==
    ASSUME NEW S, NEW s \in Seq(S), s # <<>>
    PROVE  /\ Tail(s) \in Seq(S) /\ Len(s) \in Nat \ {0} /\ Len(Tail(s)) = Len(s) - 1
           /\ Head(s) = s[1] /\ Head(s) \in S
           /\ \A i \in 1 .. Len(Tail(s)) :
                 i + 1 \in 1 .. Len(s) /\ i + 1 # 1 /\ Tail(s)[i] = s[i + 1]
<1>1. Len(s) \in Nat \ {0}
  BY EmptySeq
<1>2. /\ Tail(s) \in Seq(S) /\ Len(Tail(s)) = Len(s) - 1
      /\ Head(s) = s[1] /\ Head(s) \in S
  BY <1>1
<1>3. \A i \in 1 .. Len(s) - 1 : i + 1 \in 1 .. Len(s) /\ i + 1 # 1
  BY <1>1
<1>4. \A i \in 1 .. Len(s) - 1 : Tail(s)[i] = s[i + 1]
  BY <1>1
<1> QED BY <1>1, <1>2, <1>3, <1>4

\* A sequence with one more member.
LEMMA AppendIs ==
    ASSUME NEW S, NEW s \in Seq(S), NEW e \in S
    PROVE  /\ Append(s, e) \in Seq(S) /\ Len(s) \in Nat
           /\ Len(Append(s, e)) = Len(s) + 1 /\ Append(s, e) # <<>>
           /\ Append(s, e)[Len(s) + 1] = e
           /\ \A i \in 1 .. Len(s) : Append(s, e)[i] = s[i]
           /\ \A i \in 1 .. Len(s) + 1 : i \in 1 .. Len(s) \/ i = Len(s) + 1
<1>1. Len(s) \in Nat
  OBVIOUS
<1>2. \A i \in 1 .. Len(s) + 1 : i \in 1 .. Len(s) \/ i = Len(s) + 1
  BY <1>1
<1> QED BY <1>1, <1>2

\* A queue that one member leaves: the others keep their order.
LEMMA RemoveAtIs ==
    ASSUME NEW S, NEW s \in Seq(S), NEW m \in 1 .. Len(s)
    PROVE  /\ RemoveAt(s, m) \in Seq(S) /\ Len(RemoveAt(s, m)) = Len(s) - 1
           /\ \A i \in 1 .. Len(s) - 1 :
                 RemoveAt(s, m)[i] = IF i < m THEN s[i] ELSE s[i + 1]
<1>1. Len(s) \in Nat /\ m \in Nat /\ 1 <= m /\ m <= Len(s)
      /\ \A i \in 1 .. Len(s) : s[i] \in S
  OBVIOUS
<1>2. /\ SubSeq(s, 1, m - 1) \in Seq(S) /\ Len(SubSeq(s, 1, m - 1)) = m - 1
      /\ \A i \in 1 .. m - 1 : SubSeq(s, 1, m - 1)[i] = s[i]
  <2>1. m - 1 \in Nat /\ m - 1 <= Len(s)
    BY <1>1
  <2>2. \A i \in 1 .. m - 1 : s[i] \in S
    BY <1>1
  <2> QED BY <2>1, <2>2, <1>1
<1>3. /\ SubSeq(s, m + 1, Len(s)) \in Seq(S)
      /\ Len(SubSeq(s, m + 1, Len(s))) = Len(s) - m
      /\ \A i \in 1 .. Len(s) - m : SubSeq(s, m + 1, Len(s))[i] = s[m + i]
  <2>1. \A i \in m + 1 .. Len(s) : s[i] \in S
    BY <1>1
  <2>2. /\ SubSeq(s, m + 1, Len(s)) \in Seq(S)
        /\ Len(SubSeq(s, m + 1, Len(s))) = Len(s) - m
    BY <1>1, <2>1
  <2>3. \A i \in 1 .. Len(s) - m : SubSeq(s, m + 1, Len(s))[i] = s[(m + 1) + i - 1]
    BY <1>1
  <2>4. \A i \in 1 .. Len(s) - m : (m + 1) + i - 1 = m + i
    BY <1>1
  <2> QED BY <2>2, <2>3, <2>4
<1>4. PICK a \in Seq(S), b \in Seq(S) :
         a = SubSeq(s, 1, m - 1) /\ b = SubSeq(s, m + 1, Len(s))
  BY <1>2, <1>3
<1>5. /\ Len(a) = m - 1 /\ \A i \in 1 .. m - 1 : a[i] = s[i]
      /\ Len(b) = Len(s) - m /\ \A i \in 1 .. Len(s) - m : b[i] = s[m + i]
      /\ RemoveAt(s, m) = a \o b
  BY <1>2, <1>3, <1>4 DEF RemoveAt
<1>6. a \o b \in Seq(S) /\ Len(a \o b) = Len(s) - 1
  <2>1. a \o b \in Seq(S) /\ Len(a \o b) = Len(a) + Len(b)
    OBVIOUS
  <2>2. Len(a) + Len(b) = Len(s) - 1
    BY <1>1, <1>5
  <2> QED BY <2>1, <2>2
<1>7. ASSUME NEW i \in 1 .. Len(s) - 1
      PROVE  (a \o b)[i] = IF i < m THEN s[i] ELSE s[i + 1]
  <2>1. CASE i < m
    <3>1. i \in 1 .. Len(a) /\ i \in 1 .. m - 1
      BY <2>1, <1>1, <1>5
    <3>2. (a \o b)[i] = a[i]
      BY <3>1
    <3> QED BY <3>1, <3>2, <2>1, <1>5
  <2>2. CASE ~(i < m)
    <3>1. PICK j \in 1 .. Len(s) - m : j = i - Len(a)
      BY <2>2, <1>1, <1>5
    <3>2. i = Len(a) + j /\ m + j = i + 1 /\ j \in 1 .. Len(b)
      BY <3>1, <1>1, <1>5
    <3>3. (a \o b)[Len(a) + j] = b[j]
      BY <3>2
    <3> QED BY <3>1, <3>2, <3>3, <2>2, <1>5
  <2> QED BY <2>1, <2>2
<1> QED BY <1>5, <1>6, <1>7

\* A write of n bytes at `at` stores its tag there, and leaves what is before.
LEMMA StoredIs ==
    ASSUME TypeInv, NEW o \in Ops, NEW at \in Nat, NEW n \in Nat
    PROVE  /\ Stored(o, at, n) \in Seq(Nat)
           /\ at + n <= Len(Stored(o, at, n)) /\ Len(file) <= Len(Stored(o, at, n))
           /\ at = Len(file) => Len(Stored(o, at, n)) = at + n
           /\ \A x \in at + 1 .. at + n : Stored(o, at, n)[x] = o.ud
           /\ \A x \in 1 .. Len(file) : x <= at => Stored(o, at, n)[x] = file[x]
<1>1. Len(file) \in Nat /\ o.ud \in Nat /\ \A x \in 1 .. Len(file) : file[x] \in Nat
  BY DEF TypeInv, Ops
<1>2. PICK m \in Nat : m = IF at + n > Len(file) THEN at + n ELSE Len(file)
  BY <1>1
<1>3. at + n <= m /\ Len(file) <= m /\ (at = Len(file) => m = at + n)
  BY <1>1, <1>2
<1>4. Stored(o, at, n) = [i \in 1 .. m |-> IF i \in at + 1 .. at + n THEN o.ud
                                  ELSE IF i <= Len(file) THEN file[i] ELSE 0]
  BY <1>2 DEF Stored
<1>5. PICK f : f = Stored(o, at, n)
  OBVIOUS
<1>6. f \in [1 .. m -> Nat]
  BY <1>1, <1>4, <1>5
<1>7. f \in Seq(Nat) /\ Len(f) = m
  BY <1>6
<1>8. \A x \in at + 1 .. at + n : x \in 1 .. m /\ f[x] = o.ud
  BY <1>1, <1>3, <1>4, <1>5
<1>9. \A x \in 1 .. Len(file) : x <= at => f[x] = file[x]
  <2> TAKE x \in 1 .. Len(file)
  <2> HAVE x <= at
  <2>1. x \in 1 .. m /\ x \notin at + 1 .. at + n /\ x <= Len(file)
    BY <1>1, <1>3
  <2> QED BY <2>1, <1>4, <1>5
<1> QED BY <1>3, <1>5, <1>7, <1>8, <1>9

-----------------------------------------------------------------------------
(* Effects *)

\* A task is a positive number.
LEMMA TasksAre == NTasks \in Nat /\ Nobody \notin Tasks /\ Tasks \subseteq Nat
  BY AsyncFileAssumption DEF Tasks, Nobody

\* Submit makes t the holder of one more operation, under a tag of its own.
LEMMA SubmitIs ==
    ASSUME TypeInv, NEW t \in Tasks, NEW fn \in Fns, NEW p \in Nat, NEW want \in Int,
           NEW n \in Int, Submit(t, fn, p, want, n)
    PROVE  /\ ud' = ud + 1 /\ ud' \in Nat /\ fut' = "pending" /\ holder' = t
           /\ kernel' \subseteq Ops
           /\ \E o \in Ops : /\ kernel' = kernel \cup {o}
                             /\ o.ud = ud' /\ o.fn = fn /\ o.off = p /\ o.len = n
           /\ call' \in [Tasks -> Calls]
           /\ call'[t].st = "await" /\ call'[t].fn = fn
           /\ \A u \in Tasks : u # t => call'[u] = call[u]
<1>1. ud \in Nat /\ kernel \subseteq Ops /\ call \in [Tasks -> Calls]
  BY DEF TypeInv
<1>2. PICK o : o = [ud |-> ud + 1, fn |-> fn, off |-> p, len |-> n]
  OBVIOUS
<1>3. /\ o \in Ops /\ o.ud = ud + 1 /\ o.fn = fn /\ o.off = p /\ o.len = n
  BY <1>1, <1>2 DEF Ops
<1>4. PICK c : c = [fn |-> fn, st |-> "await", want |-> want, size |-> n]
  OBVIOUS
<1>5. c \in Calls /\ c.st = "await" /\ c.fn = fn
  BY <1>4 DEF Calls
<1>6. /\ ud' = ud + 1 /\ fut' = "pending" /\ holder' = t /\ kernel' = kernel \cup {o}
      /\ call' = [call EXCEPT ![t] = c]
  BY <1>2, <1>4 DEF Submit
<1>7. kernel' \subseteq Ops /\ ud' \in Nat
  BY <1>1, <1>3, <1>6
<1>8. call' \in [Tasks -> Calls] /\ call'[t] = c /\ \A u \in Tasks : u # t => call'[u] = call[u]
  BY <1>1, <1>5, <1>6
<1> QED BY <1>3, <1>5, <1>6, <1>7, <1>8

\* Release ends t's call and frees the lock.
LEMMA ReleaseIs ==
    ASSUME TypeInv, NEW t \in Tasks, Release(t)
    PROVE  /\ call' \in [Tasks -> Calls] /\ holder' = Nobody
           /\ call'[t].st = "idle"
           /\ \A u \in Tasks : u # t => call'[u] = call[u]
<1>1. Idle \in Calls /\ Idle.st = "idle"
  BY DEF Idle, Calls
<1> QED BY <1>1 DEF Release, TypeInv

\* A completion accepted moves the position of a ring's file, and is logged
\* unless it ends the close; then the call ends or asks for its next slice.
LEMMA ResumeDoneIs ==
    ASSUME TypeInv, HolderInv, ResumeDone
    PROVE  /\ holder \in Tasks /\ fut = "result" /\ ~must /\ call[holder].fn \in Fns
           /\ val.ud = ud /\ val.res \in Nat /\ val.at \in Nat
           /\ pos' = (IF path = "uring" THEN pos + val.res ELSE pos) /\ pos' \in Nat
           /\ \/ call[holder].fn = "aclose" /\ log' = log
              \/ /\ call[holder].fn # "aclose"
                 /\ \E e \in Entries :
                       /\ log' = Append(log, e)
                       /\ e.fn = call[holder].fn /\ e.ud = ud /\ e.of = ud
                       /\ e.at = val.at /\ e.len = val.res
           /\ \/ Release(holder) /\ fut' = "none" /\ UNCHANGED <<ud, kernel>>
              \/ /\ path = "uring"
                 /\ \E left, n \in Int : Submit(holder, call[holder].fn, pos', left, n)
           /\ val' = NoCqe
           /\ UNCHANGED <<mode, opened, path, queue, must, cq, file, cancelled>>
<1>1. /\ holder \in Tasks /\ fut = "result" /\ ~must /\ val.ud = ud /\ ~(val.res < 0)
      /\ pos' = Advance(pos) /\ val' = NoCqe
      /\ UNCHANGED <<mode, opened, path, queue, must, cq, file, cancelled>>
  BY DEF ResumeDone, Resumes, Mine, Failed, TypeInv, pathVars
<1>2. /\ call[holder] \in Calls /\ call[holder].fn \in Fns
      /\ val.res \in Nat /\ val.at \in Nat /\ val.ud \in Nat /\ pos \in Nat
  BY <1>1, TasksAre DEF TypeInv, HolderInv, Cqes
<1>3. PICK c \in Calls : c = call[holder]
  BY <1>2
<1>4. pos' = (IF path = "uring" THEN pos + val.res ELSE pos) /\ pos' \in Nat
  BY <1>1, <1>2 DEF Advance
<1>5. \/ call[holder].fn = "aclose" /\ log' = log
      \/ /\ call[holder].fn # "aclose"
         /\ \E e \in Entries :
               /\ log' = Append(log, e)
               /\ e.fn = call[holder].fn /\ e.ud = ud /\ e.of = ud
               /\ e.at = val.at /\ e.len = val.res
  <2>1. PICK e : e = [fn |-> c.fn, ud |-> ud, of |-> val.ud, at |-> val.at, len |-> val.res]
    OBVIOUS
  <2>2. /\ e \in Entries /\ e.fn = c.fn /\ e.ud = ud /\ e.of = ud
        /\ e.at = val.at /\ e.len = val.res
    BY <1>1, <1>2, <1>3, <2>1 DEF Entries
  <2>3. log' = IF c.fn = "aclose" THEN log ELSE Append(log, e)
    BY <1>3, <2>1 DEF ResumeDone
  <2> QED BY <1>3, <2>2, <2>3
<1>6. \/ Release(holder) /\ fut' = "none" /\ UNCHANGED <<ud, kernel>>
      \/ /\ path = "uring"
         /\ \E left, n \in Int : Submit(holder, call[holder].fn, pos', left, n)
  <2>1. PICK left : left = Left(c)
    OBVIOUS
  <2>2. left \in Int /\ (left # 0 => path # "thread") /\ Chunk(left) \in Int
    <3>1. left \in Int /\ (left # 0 => path # "thread")
      BY <1>2, <2>1 DEF Left, Calls, UntilEof
    <3> QED BY <3>1, AsyncFileAssumption DEF Chunk
  <2>3. IF left = 0
        THEN Release(holder) /\ fut' = "none" /\ UNCHANGED <<ud, kernel>>
        ELSE Submit(holder, c.fn, pos', left, Chunk(left))
    BY <1>3, <2>1 DEF ResumeDone
  <2> QED BY <1>3, <2>2, <2>3 DEF TypeInv
<1> QED BY <1>1, <1>2, <1>4, <1>5, <1>6

\* An operation completes: with a ring where it was sent to, in a file object
\* at its position, and at the end of the file if it appends.
LEMMA CompletionIs ==
    ASSUME TypeInv, NEW o \in kernel, Complete(o) \/ RunJob(o)
    PROVE  \E c \in Cqes :
             /\ cq' = Append(cq, c) /\ kernel' = kernel \ {o} /\ o \in Ops
             /\ c.ud = o.ud
             /\ c.at = IF o.fn = "write" /\ Appends(mode) THEN Len(file)
                       ELSE IF path = "uring" THEN o.off ELSE pos
             /\ pos' = IF path = "uring" \/ o.fn = "aclose" \/ c.res < 0 THEN pos
                       ELSE c.at + c.res
             /\ pos' \in Nat
             /\ (o.fn = "read" /\ c.at = Len(file)) => c.res <= 0
             /\ file' = IF o.fn = "write" /\ c.res > 0 THEN Stored(o, c.at, c.res)
                        ELSE file
             /\ file' \in Seq(Nat)
             /\ UNCHANGED <<mode, opened, path, ud, queue, holder, call, fut, val, must,
                            log, cancelled>>
<1>1. /\ o \in Ops /\ o.ud \in Nat /\ o.off \in Nat /\ o.len \in Int /\ o.fn \in Fns
      /\ pos \in Nat /\ Len(file) \in Nat /\ file \in Seq(Nat)
      /\ path \in {"uring", "thread"}
  BY DEF TypeInv, Ops
<1>2. ASSUME NEW n \in Int
      PROVE  /\ Results(n) \subseteq Int
             /\ n <= 0 => \A r \in Results(n) : r <= 0
  <2>1. n <= 0 => 1 .. n = {}
    OBVIOUS
  <2> QED BY <2>1 DEF Results
<1>3. ASSUME NEW at \in Nat, NEW r \in Int,
             cq' = Append(cq, [ud |-> o.ud, res |-> r, at |-> at]),
             file' = IF o.fn = "write" /\ r > 0 THEN Stored(o, at, r) ELSE file
      PROVE  \E c \in Cqes : /\ c.ud = o.ud /\ c.res = r /\ c.at = at /\ cq' = Append(cq, c)
                             /\ file' \in Seq(Nat)
  <2>1. PICK c : c = [ud |-> o.ud, res |-> r, at |-> at]
    OBVIOUS
  <2>2. c \in Cqes /\ c.ud = o.ud /\ c.res = r /\ c.at = at
    BY <1>1, <2>1 DEF Cqes
  <2>3. r > 0 => r \in Nat
    OBVIOUS
  <2>4. file' \in Seq(Nat)
    BY <1>1, <1>3, <2>3, StoredIs
  <2> QED BY <1>3, <2>1, <2>2, <2>4
<1>4. CASE Complete(o)
  <2>1. /\ path = "uring" /\ kernel' = kernel \ {o} /\ pos' = pos
        /\ UNCHANGED <<mode, opened, path, ud, queue, holder, call, fut, val, must,
                       log, cancelled>>
    BY <1>4 DEF Complete, pathVars, lockVars, futVars, history
  <2>2. PICK at : at = IF o.fn = "write" /\ Appends(mode) THEN Len(file) ELSE o.off
    OBVIOUS
  <2>3. PICK n : n = IF o.fn = "read" THEN Available(o) ELSE o.len
    OBVIOUS
  <2>4. at \in Nat /\ n \in Int /\ (o.fn = "read" /\ at = Len(file) => n <= 0)
    BY <1>1, <2>2, <2>3 DEF Available
  <2>5. PICK r \in Results(n) \cup {-1} :
           /\ cq' = Append(cq, [ud |-> o.ud, res |-> r, at |-> at])
           /\ file' = IF o.fn = "write" /\ r > 0 THEN Stored(o, at, r) ELSE file
    BY <1>4, <2>2, <2>3 DEF Complete
  <2>6. r \in Int /\ (o.fn = "read" /\ at = Len(file) => r <= 0)
    BY <1>2, <2>4, <2>5
  <2>7. PICK c \in Cqes : /\ c.ud = o.ud /\ c.res = r /\ c.at = at /\ cq' = Append(cq, c)
                          /\ file' \in Seq(Nat)
    BY <1>3, <2>4, <2>5, <2>6
  <2> QED BY <1>1, <2>1, <2>2, <2>5, <2>6, <2>7
<1>5. CASE RunJob(o)
  <2>1. /\ path = "thread" /\ kernel' = kernel \ {o}
        /\ UNCHANGED <<mode, opened, path, ud, queue, holder, call, fut, val, must,
                       log, cancelled>>
    BY <1>5 DEF RunJob, lockVars, futVars, history
  <2>2. PICK at : at = IF o.fn = "write" /\ Appends(mode) THEN Len(file) ELSE pos
    OBVIOUS
  <2>3. PICK rest : rest = IF pos < Len(file) THEN Len(file) - pos ELSE 0
    OBVIOUS
  <2>4. PICK n : n = IF o.fn # "read" THEN o.len
                     ELSE IF o.len # UntilEof /\ o.len < rest THEN o.len ELSE rest
    OBVIOUS
  <2>5. at \in Nat /\ n \in Int /\ (o.fn = "read" /\ at = Len(file) => n <= 0)
    <3>1. at \in Nat /\ rest \in Nat /\ (o.fn = "read" /\ at = Len(file) => rest = 0)
      BY <1>1, <2>2, <2>3
    <3> QED BY <1>1, <2>4, <3>1
  <2>6. PICK r \in {n, -1} :
           /\ cq' = Append(cq, [ud |-> o.ud, res |-> r, at |-> at])
           /\ file' = IF o.fn = "write" /\ r > 0 THEN Stored(o, at, r) ELSE file
           /\ pos' = IF o.fn = "aclose" \/ r < 0 THEN pos ELSE at + r
    BY <1>5, <2>2, <2>3, <2>4 DEF RunJob
  <2>7. r \in Int /\ (o.fn = "read" /\ at = Len(file) => r <= 0) /\ pos' \in Nat
    BY <1>1, <2>5, <2>6
  <2>8. PICK c \in Cqes : /\ c.ud = o.ud /\ c.res = r /\ c.at = at /\ cq' = Append(cq, c)
                          /\ file' \in Seq(Nat)
    BY <1>3, <2>5, <2>6, <2>7
  <2> QED BY <1>1, <2>1, <2>2, <2>6, <2>7, <2>8
<1> QED BY <1>4, <1>5

\* The oldest completion leaves the queue, for the holder's future or for
\* nobody.
LEMMA DeliveryIs ==
    ASSUME TypeInv, OnReadable \/ JobResult
    PROVE  /\ cq # <<>> /\ cq' = Tail(cq)
           /\ \/ fut = "pending" /\ fut' = "result" /\ val' = Head(cq)
              \/ /\ val' = val
                 /\ fut' = fut \/ (fut = "cancelled" /\ fut' = "swallowed")
                 /\ fut = "pending" => path = "thread" /\ Head(cq).ud # ud
           /\ UNCHANGED <<mode, opened, path, pos, ud, queue, holder, call, must, kernel,
                          file, log, cancelled>>
  BY DEF OnReadable, JobResult, pathVars, lockVars, history

\* A call of the program starts with arguments of these kinds.
LEMMA StartIs ==
    ASSUME TypeInv, NEW t \in Tasks, Caller(t)
    PROVE  /\ opened = "open" /\ call[t].st = "idle" /\ queue' = Append(queue, t)
           /\ call' \in [Tasks -> Calls] /\ call'[t].st = "lock"
           /\ \A u \in Tasks : u # t => call'[u] = call[u]
           /\ UNCHANGED <<mode, opened, path, pos, ud, holder, fut, val, must, kernel, cq,
                          file, log, cancelled>>
<1>1. PICK fn \in Fns, n \in Int : StartCall(t, fn, n)
  <2>1. ReadSizes \subseteq Int /\ WriteSizes \subseteq Int /\ UntilEof \in Int /\ 0 \in Int
    BY AsyncFileAssumption DEF UntilEof
  <2> QED BY <2>1 DEF Caller, Fns
<1>2. PICK c : c = [fn |-> fn, st |-> "lock", want |-> n, size |-> 0]
  OBVIOUS
<1>3. c \in Calls /\ c.st = "lock"
  BY <1>2 DEF Calls
<1>4. /\ opened = "open" /\ call[t] = Idle /\ queue' = Append(queue, t)
      /\ call' = [call EXCEPT ![t] = c]
      /\ UNCHANGED <<mode, opened, path, pos, ud, holder, fut, val, must, kernel, cq,
                     file, log, cancelled>>
  BY <1>1, <1>2 DEF StartCall, pathVars, futVars, ringVars
<1>5. call[t].st = "idle"
  BY <1>4 DEF Idle
<1> QED BY <1>3, <1>4, <1>5 DEF TypeInv

\* A task leaves the queue as its head, with the lock: it returns at once, or
\* submits an operation at the position, to a file that is open; a close
\* leaves nothing behind in a ring.
LEMMA TakeIs ==
    ASSUME TypeInv, HolderInv, NEW t \in Tasks,
           \/ Acquire(t) \/ AcquireClosed(t) \/ AcquireClose(t) \/ AcquireCloseThread(t)
    PROVE  /\ holder = Nobody /\ queue # <<>> /\ Head(queue) = t /\ queue' = Tail(queue)
           /\ opened # "new"
           /\ call' \in [Tasks -> Calls] /\ \A u \in Tasks : u # t => call'[u] = call[u]
           /\ UNCHANGED <<mode, path, pos, val, must, file, log, cancelled>>
           /\ \/ /\ holder' = Nobody /\ fut' = fut /\ ud' = ud
                 /\ \/ /\ kernel' = kernel /\ cq' = cq
                       /\ opened' = opened \/ (opened # "open" /\ opened' = "closed")
                    \/ path = "uring" /\ opened' = "closed" /\ kernel' = {} /\ cq' = <<>>
              \/ /\ holder' = t /\ fut' = "pending" /\ ud' = ud + 1 /\ cq' = cq
                 /\ opened = "open"
                 /\ call'[t].st = "await" /\ call'[t].fn \in Fns
                 /\ \E o \in Ops : /\ kernel' = kernel \cup {o} /\ o.ud = ud'
                                   /\ o.off = pos /\ o.fn = call'[t].fn
                 /\ \/ opened' = "open" /\ call'[t].fn # "aclose"
                    \/ /\ path = "thread" /\ opened' = "closed"
                       /\ call'[t].fn = "aclose"
<1>1. /\ holder = Nobody /\ queue # <<>> /\ Head(queue) = t /\ queue' = Tail(queue)
      /\ UNCHANGED <<mode, path, pos, val, must, file, log, cancelled>>
  BY DEF Acquire, AcquireClosed, AcquireClose, AcquireCloseThread, Locks, pathVars,
         futVars, history
<1>2. opened # "new" /\ opened \in {"new", "open", "closed"} /\ pos \in Nat /\ call[t] \in Calls
  BY <1>1 DEF HolderInv, TypeInv
<1>3. CASE Acquire(t)
  <2>1. /\ opened = "open" /\ opened' = opened /\ cq' = cq /\ call[t].fn \in Fns
        /\ call[t].fn # "aclose"
    BY <1>3 DEF Acquire, FdOpen, Fns
  <2>2. PICK fn \in Fns, want \in Int : fn = call[t].fn /\ want = call[t].want
    BY <2>1, <1>2 DEF Calls
  <2>3. PICK n \in Int : n = IF fn = "read" THEN Chunk(want) ELSE want
    BY <2>2, AsyncFileAssumption DEF Chunk
  <2>4. \/ Release(t) /\ UNCHANGED <<ud, kernel, fut>>
        \/ Submit(t, fn, pos, want, n)
    BY <1>3, <2>2, <2>3 DEF Acquire
  <2>5. CASE Release(t) /\ UNCHANGED <<ud, kernel, fut>>
    BY <2>5, <2>1, <1>1, <1>2, ReleaseIs
  <2>6. CASE Submit(t, fn, pos, want, n)
    <3>1. /\ ud' = ud + 1 /\ fut' = "pending" /\ holder' = t
          /\ \E o \in Ops : /\ kernel' = kernel \cup {o}
                            /\ o.ud = ud' /\ o.fn = fn /\ o.off = pos /\ o.len = n
          /\ call' \in [Tasks -> Calls]
          /\ call'[t].st = "await" /\ call'[t].fn = fn
          /\ \A u \in Tasks : u # t => call'[u] = call[u]
      BY <2>6, <1>2, SubmitIs
    <3> QED BY <3>1, <2>1, <2>2, <1>1, <1>2
  <2> QED BY <2>4, <2>5, <2>6
<1>4. CASE AcquireClosed(t)
  <2>1. Release(t) /\ UNCHANGED <<opened, ud, fut, kernel, cq>>
    BY <1>4 DEF AcquireClosed, futVars, ringVars
  <2> QED BY <2>1, <1>1, <1>2, ReleaseIs
<1>5. CASE AcquireClose(t)
  <2>1. /\ Release(t) /\ UNCHANGED <<ud, fut>> /\ opened' = "closed"
        /\ path = "uring" \/ opened # "open"
        /\ IF path = "uring" THEN kernel' = {} /\ cq' = <<>> ELSE UNCHANGED ringVars
    BY <1>5 DEF AcquireClose, futVars, FdOpen
  <2>2. \/ path = "uring" /\ kernel' = {} /\ cq' = <<>>
        \/ opened # "open" /\ kernel' = kernel /\ cq' = cq
    BY <2>1 DEF ringVars
  <2> QED BY <2>1, <2>2, <1>1, <1>2, ReleaseIs
<1>6. CASE AcquireCloseThread(t)
  <2>1. /\ Submit(t, "aclose", pos, 0, 0) /\ cq' = cq /\ path = "thread"
        /\ opened = "open" /\ opened' = "closed" /\ "aclose" \in Fns
    BY <1>6 DEF AcquireCloseThread, FdOpen, Fns
  <2>2. /\ ud' = ud + 1 /\ fut' = "pending" /\ holder' = t
        /\ \E o \in Ops : /\ kernel' = kernel \cup {o}
                          /\ o.ud = ud' /\ o.fn = "aclose" /\ o.off = pos /\ o.len = 0
        /\ call' \in [Tasks -> Calls]
        /\ call'[t].st = "await" /\ call'[t].fn = "aclose"
        /\ \A u \in Tasks : u # t => call'[u] = call[u]
    BY <2>1, <1>2, SubmitIs
  <2> QED BY <2>1, <2>2, <1>1, <1>2
<1> QED BY <1>3, <1>4, <1>5, <1>6

\* An exception leaves the call: the completion is another operation's or an
\* error, or the task was cancelled.
LEMMA RaiseIs ==
    ASSUME TypeInv, HolderInv, ResumeError \/ ResumeCancelled
    PROVE  /\ holder \in Tasks /\ holder' = Nobody /\ fut' = "none" /\ val' = NoCqe
           /\ ~must'
           /\ \/ must \/ fut \in {"cancelled", "swallowed"}
              \/ fut = "result" /\ (val.ud # ud \/ val.res < 0)
           /\ call' \in [Tasks -> Calls]
           /\ \A u \in Tasks : u # holder => call'[u] = call[u]
           /\ UNCHANGED <<mode, opened, path, pos, ud, queue, kernel, cq, file, log,
                          cancelled>>
<1>1. holder \in Tasks
  BY DEF ResumeError, ResumeCancelled, Resumes, HolderInv, TypeInv
<1>2. /\ Release(holder) /\ fut' = "none" /\ val' = NoCqe
      /\ \/ must \/ fut \in {"cancelled", "swallowed"}
         \/ fut = "result" /\ (val.ud # ud \/ val.res < 0)
      /\ UNCHANGED <<mode, opened, path, pos, ud, queue, kernel, cq, file, log,
                     cancelled>>
  BY DEF ResumeError, ResumeCancelled, Resumes, Mine, Failed, pathVars, ringVars, history
<1>3. ~must'
  <2>1. CASE ResumeError
    <3>1. ~must /\ must' = must
      BY <2>1 DEF ResumeError, Resumes
    <3> QED BY <3>1, Zenon
  <2>2. CASE ResumeCancelled
    BY <2>2 DEF ResumeCancelled
  <2> QED BY <2>1, <2>2
<1>4. /\ call' \in [Tasks -> Calls] /\ holder' = Nobody
      /\ \A u \in Tasks : u # holder => call'[u] = call[u]
  <2>1. PICK t \in Tasks : t = holder
    BY <1>1
  <2>2. Release(t)
    BY <1>2, <2>1
  <2> QED BY <2>1, <2>2, ReleaseIs
<1> QED BY <1>1, <1>2, <1>3, <1>4

\* Cancelling the holder leaves everything in place but for a job taken back.
LEMMA CancelIs ==
    ASSUME Cancel
    PROVE  /\ holder # Nobody /\ ~must /\ cancelled' /\ kernel' \subseteq kernel
           /\ \/ fut = "pending" /\ fut' = "cancelled" /\ must' = must
              \/ fut = "result" /\ fut' = fut /\ must' = TRUE
           /\ UNCHANGED <<mode, opened, path, pos, ud, queue, holder, call, val, cq, file,
                          log>>
<1>1. /\ holder # Nobody /\ ~must /\ cancelled'
      /\ \/ fut = "pending" /\ fut' = "cancelled" /\ must' = must
         \/ fut = "result" /\ fut' = fut /\ must' = TRUE
      /\ UNCHANGED <<mode, opened, path, pos, ud, queue, holder, call, val, cq, file,
                     log>>
  BY DEF Cancel, pathVars, lockVars
<1>2. kernel' \subseteq kernel
  BY DEF Cancel
<1> QED BY <1>1, <1>2

\* Opening the file, or failing to: an append starts at the end.
LEMMA OpenIs ==
    ASSUME TypeInv, HolderInv, Aenter \/ AenterThread \/ AenterRaises
    PROVE  /\ opened = "new" /\ opened' \in {"new", "open"}
           /\ path' \in {"uring", "thread"} /\ (opened' = "new" => path' = path)
           /\ pos' \in Nat /\ file' \in Seq(Nat)
           /\ (Appends(mode) /\ opened' = "open") => pos' = Len(file')
           /\ UNCHANGED <<mode, ud, queue, holder, call, fut, val, must, kernel, cq, log,
                          cancelled>>
<1>1. file \in Seq(Nat) /\ Len(file) \in Nat /\ <<>> \in Seq(Nat) /\ pos \in Nat
      /\ path \in {"uring", "thread"}
  BY DEF TypeInv
<1>2. /\ opened = "new"
      /\ UNCHANGED <<mode, ud, queue, holder, call, fut, val, must, kernel, cq, log,
                     cancelled>>
  BY DEF Aenter, AenterThread, AenterRaises, lockVars, futVars, ringVars, history
<1>3. CASE Aenter \/ AenterThread
  <2>1. Open /\ opened' = "open" /\ path' \in {"uring", "thread"}
    BY <1>3 DEF Aenter, AenterThread
  <2>2. pos' \in Nat /\ file' \in Seq(Nat) /\ (Appends(mode) => pos' = Len(file'))
    BY <2>1, <1>1 DEF Open, Appends, Truncates
  <2> QED BY <1>2, <2>1, <2>2
<1>4. CASE AenterRaises
  <2>1. opened' = opened /\ path' = path /\ pos' = pos /\ file' \in Seq(Nat)
    BY <1>4, <1>1 DEF AenterRaises
  <2> QED BY <1>1, <1>2, <2>1
<1> QED BY <1>3, <1>4

\* A task cancelled in the queue leaves it, and its call.
LEMMA CancelLockIs ==
    ASSUME TypeInv, HolderInv, NEW t \in Tasks, CancelLock(t)
    PROVE  /\ \E m \in 1 .. Len(queue) : queue[m] = t /\ queue' = RemoveAt(queue, m)
           /\ opened # "new"
           /\ call' \in [Tasks -> Calls] /\ \A u \in Tasks : u # t => call'[u] = call[u]
           /\ UNCHANGED <<mode, opened, path, pos, ud, holder, fut, val, must, kernel, cq,
                          file, log, cancelled>>
<1>1. PICK m \in 1 .. Len(queue) : queue[m] = t /\ queue' = RemoveAt(queue, m)
  BY DEF CancelLock
<1>2. opened # "new"
  BY <1>1 DEF HolderInv
<1>3. /\ call' = [call EXCEPT ![t] = Idle]
      /\ UNCHANGED <<mode, opened, path, pos, ud, holder, fut, val, must, kernel, cq,
                     file, log, cancelled>>
  BY DEF CancelLock, pathVars, futVars, ringVars, history
<1>4. Idle \in Calls
  BY DEF Idle, Calls
<1>5. call' \in [Tasks -> Calls] /\ \A u \in Tasks : u # t => call'[u] = call[u]
  BY <1>3, <1>4 DEF TypeInv
<1> QED BY <1>1, <1>2, <1>3, <1>5

-----------------------------------------------------------------------------
(* Types, the queue and the holder *)

\* Variables keep their types.
LEMMA TypeStep == TypeInv /\ HolderInv /\ [Next]_vars => TypeInv'
<1> SUFFICES ASSUME TypeInv, HolderInv, [Next]_vars PROVE TypeInv'
  OBVIOUS
<1> USE DEF TypeInv
<1>1. CASE Aenter \/ AenterThread \/ AenterRaises
  BY <1>1, OpenIs
<1>2. ASSUME NEW t \in Tasks, Caller(t) PROVE TypeInv'
  <2>1. /\ queue' = Append(queue, t) /\ call' \in [Tasks -> Calls]
        /\ UNCHANGED <<mode, opened, path, pos, ud, holder, fut, val, must, kernel, cq,
                       file, log, cancelled>>
    BY <1>2, StartIs
  <2>2. queue' \in Seq(Tasks)
    BY <2>1, AppendIs
  <2> QED BY <2>1, <2>2
<1>3. ASSUME NEW t \in Tasks, CancelLock(t) PROVE TypeInv'
  BY <1>3, CancelLockIs, RemoveAtIs
<1>4. ASSUME NEW t \in Tasks,
             \/ Acquire(t) \/ AcquireClosed(t) \/ AcquireClose(t) \/ AcquireCloseThread(t)
      PROVE  TypeInv'
  <2>1. /\ queue # <<>> /\ queue' = Tail(queue) /\ call' \in [Tasks -> Calls]
        /\ UNCHANGED <<mode, path, pos, val, must, file, log, cancelled>>
    BY <1>4, TakeIs
  <2>2. /\ holder' = Nobody \/ holder' = t
        /\ opened' = opened \/ opened' = "open" \/ opened' = "closed"
    BY <1>4, TakeIs
  <2>3. /\ fut' = fut \/ fut' = "pending"
        /\ ud' = ud \/ ud' = ud + 1
        /\ cq' = cq \/ cq' = <<>>
    BY <1>4, TakeIs
  <2>4. kernel' = kernel \/ kernel' = {} \/ \E o \in Ops : kernel' = kernel \cup {o}
    BY <1>4, TakeIs
  <2>5. queue' \in Seq(Tasks)
    BY <2>1, TailIs
  <2>6. cq' \in Seq(Cqes) /\ ud' \in Nat
    <3>1. cq \in Seq(Cqes) /\ <<>> \in Seq(Cqes) /\ ud \in Nat
      OBVIOUS
    <3>2. cq' \in Seq(Cqes)
      BY <2>3, <3>1, Zenon
    <3>3. ud' \in Nat
      BY <2>3, <3>1
    <3> QED BY <3>2, <3>3
  <2>7. kernel' \subseteq Ops
    BY <2>4
  <2> QED BY <2>1, <2>2, <2>3, <2>5, <2>6, <2>7
<1>5. CASE OnReadable \/ JobResult
  <2>1. /\ cq # <<>> /\ cq' = Tail(cq) /\ val' \in {Head(cq), val}
        /\ fut' \in {fut, "result", "swallowed"}
        /\ UNCHANGED <<mode, opened, path, pos, ud, queue, holder, call, must, kernel,
                       file, log, cancelled>>
    BY <1>5, DeliveryIs
  <2>2. cq' \in Seq(Cqes) /\ val' \in Cqes
    BY <2>1, TailIs
  <2> QED BY <2>1, <2>2
<1>6. CASE ResumeError \/ ResumeCancelled
  <2>1. NoCqe \in Cqes
    BY DEF NoCqe, Cqes
  <2>2. must' \in BOOLEAN
    BY <1>6 DEF ResumeError, ResumeCancelled
  <2> QED BY <1>6, <2>1, <2>2, RaiseIs
<1>7. CASE ResumeDone
  <2>1. NoCqe \in Cqes
    BY DEF NoCqe, Cqes
  <2>2. /\ holder \in Tasks /\ call[holder].fn \in Fns /\ pos' \in Nat /\ val' = NoCqe
        /\ UNCHANGED <<mode, opened, path, queue, must, cq, file, cancelled>>
    BY <1>7, ResumeDoneIs
  <2>3. log' \in Seq(Entries)
    <3>1. log' = log \/ \E e \in Entries : log' = Append(log, e)
      BY <1>7, ResumeDoneIs
    <3>2. CASE log' = log
      BY <3>2
    <3>3. ASSUME NEW e \in Entries, log' = Append(log, e) PROVE log' \in Seq(Entries)
      <4>1. log \in Seq(Entries)
        OBVIOUS
      <4> QED BY <4>1, <3>3, AppendIs
    <3> QED BY <3>1, <3>2, <3>3
  <2>4. /\ ud' \in Nat /\ kernel' \subseteq Ops /\ call' \in [Tasks -> Calls]
        /\ fut' \in {"none", "pending"} /\ holder' \in Tasks \cup {Nobody}
    <3>1. PICK t \in Tasks, fn \in Fns, p \in Nat :
             t = holder /\ fn = call[holder].fn /\ p = pos'
      BY <2>2
    <3>2. \/ Release(t) /\ fut' = "none" /\ UNCHANGED <<ud, kernel>>
          \/ \E left, n \in Int : Submit(t, fn, p, left, n)
      BY <1>7, <3>1, ResumeDoneIs
    <3> QED BY <3>2, ReleaseIs, SubmitIs
  <2> QED BY <2>1, <2>2, <2>3, <2>4
<1>8. CASE Cancel
  <2>1. /\ must' \in BOOLEAN /\ cancelled' \in BOOLEAN
    BY <1>8 DEF Cancel
  <2> QED BY <1>8, <2>1, CancelIs
<1>9. ASSUME NEW o \in kernel, Complete(o) \/ RunJob(o) PROVE TypeInv'
  <2>1. PICK c \in Cqes :
          /\ cq' = Append(cq, c) /\ kernel' = kernel \ {o}
          /\ pos' \in Nat /\ file' \in Seq(Nat)
          /\ UNCHANGED <<mode, opened, path, ud, queue, holder, call, fut, val, must,
                         log, cancelled>>
    BY <1>9, CompletionIs
  <2>2. cq' \in Seq(Cqes)
    BY <2>1, AppendIs
  <2> QED BY <2>1, <2>2
<1>10. CASE UNCHANGED vars
  BY <1>10 DEF vars, pathVars, lockVars, futVars, ringVars, history
<1> QED BY <1>1, <1>2, <1>3, <1>4, <1>5, <1>6, <1>7, <1>8, <1>9, <1>10
        DEF Next, Loop, Kernel

\* A task other than those in the queue changes its call.
LEMMA QueueKept ==
    ASSUME TypeInv, QueueInv, UNCHANGED queue, NEW t \in Tasks, call[t].st # "lock",
           \A u \in Tasks : u # t => call'[u] = call[u]
    PROVE  QueueInv'
<1>1. \A i \in 1 .. Len(queue) : queue[i] \in Tasks
  BY DEF TypeInv
<1> QED BY <1>1 DEF QueueInv

\* Tasks join the queue once and leave it with the lock or cancelled.
LEMMA QueueStep == TypeInv /\ HolderInv /\ QueueInv /\ [Next]_vars => QueueInv'
<1> SUFFICES ASSUME TypeInv, HolderInv, QueueInv, [Next]_vars PROVE QueueInv'
  OBVIOUS
<1>0. queue \in Seq(Tasks) /\ Len(queue) \in Nat /\ \A i \in 1 .. Len(queue) : queue[i] \in Tasks
  BY DEF TypeInv
<1>1. CASE UNCHANGED <<queue, call>>
  BY <1>1 DEF QueueInv
<1>2. ASSUME NEW t \in Tasks, Caller(t) PROVE QueueInv'
  <2>1. /\ call[t].st = "idle" /\ queue' = Append(queue, t) /\ call'[t].st = "lock"
        /\ \A u \in Tasks : u # t => call'[u] = call[u]
    BY <1>2, StartIs
  <2>2. /\ Len(queue') = Len(queue) + 1 /\ queue'[Len(queue) + 1] = t
        /\ \A i \in 1 .. Len(queue) : queue'[i] = queue[i]
        /\ \A i \in 1 .. Len(queue) + 1 : i \in 1 .. Len(queue) \/ i = Len(queue) + 1
    BY <1>0, <2>1, AppendIs
  <2>3. \A i \in 1 .. Len(queue) : queue[i] # t
    BY <2>1 DEF QueueInv
  <2>4. \A i \in 1 .. Len(queue') : call'[queue'[i]].st = "lock"
    BY <1>0, <2>1, <2>2, <2>3 DEF QueueInv
  <2>5. \A i, j \in 1 .. Len(queue') : queue'[i] = queue'[j] => i = j
    BY <1>0, <2>2, <2>3 DEF QueueInv
  <2> QED BY <2>4, <2>5 DEF QueueInv
<1>3. ASSUME NEW t \in Tasks, CancelLock(t) PROVE QueueInv'
  <2>1. PICK m \in 1 .. Len(queue) :
           /\ queue[m] = t /\ queue' = RemoveAt(queue, m)
           /\ \A u \in Tasks : u # t => call'[u] = call[u]
    BY <1>3, CancelLockIs
  <2>2. /\ Len(queue') = Len(queue) - 1
        /\ \A i \in 1 .. Len(queue) - 1 :
              queue'[i] = IF i < m THEN queue[i] ELSE queue[i + 1]
    BY <1>0, <2>1, RemoveAtIs
  <2>3. ASSUME NEW i \in 1 .. Len(queue')
        PROVE  \E k \in 1 .. Len(queue) : /\ queue'[i] = queue[k] /\ k # m
                                          /\ k = IF i < m THEN i ELSE i + 1
    <3>1. PICK k \in 1 .. Len(queue) : k = IF i < m THEN i ELSE i + 1
      BY <1>0, <2>2
    <3>2. k # m /\ i \in 1 .. Len(queue) - 1
      BY <1>0, <2>2, <3>1
    <3> QED BY <2>2, <3>1, <3>2
  <2>4. \A i \in 1 .. Len(queue') : call'[queue'[i]].st = "lock"
    BY <1>0, <2>1, <2>3 DEF QueueInv
  <2>5. ASSUME NEW i \in 1 .. Len(queue'), NEW j \in 1 .. Len(queue'), queue'[i] = queue'[j]
        PROVE  i = j
    <3>1. PICK k \in 1 .. Len(queue) : queue'[i] = queue[k] /\ k = IF i < m THEN i ELSE i + 1
      BY <2>3
    <3>2. PICK l \in 1 .. Len(queue) : queue'[j] = queue[l] /\ l = IF j < m THEN j ELSE j + 1
      BY <2>3
    <3>3. k = l
      BY <2>5, <3>1, <3>2 DEF QueueInv
    <3> QED BY <1>0, <2>2, <3>1, <3>2, <3>3
  <2> QED BY <2>4, <2>5 DEF QueueInv
<1>4. ASSUME NEW t \in Tasks,
             \/ Acquire(t) \/ AcquireClosed(t) \/ AcquireClose(t) \/ AcquireCloseThread(t)
      PROVE  QueueInv'
  <2>1. /\ queue # <<>> /\ Head(queue) = t /\ queue' = Tail(queue)
        /\ \A u \in Tasks : u # t => call'[u] = call[u]
    BY <1>4, TakeIs
  <2>2. /\ Len(queue') = Len(queue) - 1 /\ t = queue[1] /\ 1 \in 1 .. Len(queue)
        /\ \A i \in 1 .. Len(queue') :
              i + 1 \in 1 .. Len(queue) /\ i + 1 # 1 /\ queue'[i] = queue[i + 1]
    BY <1>0, <2>1, TailIs
  <2>3. \A i \in 1 .. Len(queue') : queue'[i] # t /\ queue'[i] \in Tasks
    BY <1>0, <2>2 DEF QueueInv
  <2>4. \A i \in 1 .. Len(queue') : call'[queue'[i]].st = "lock"
    BY <2>1, <2>2, <2>3 DEF QueueInv
  <2>5. ASSUME NEW i \in 1 .. Len(queue'), NEW j \in 1 .. Len(queue'), queue'[i] = queue'[j]
        PROVE  i = j
    <3>1. i + 1 = j + 1
      BY <2>2, <2>5 DEF QueueInv
    <3> QED BY <3>1
  <2> QED BY <2>4, <2>5 DEF QueueInv
<1>5. CASE ResumeError \/ ResumeCancelled
  <2>1. /\ holder \in Tasks /\ queue' = queue
        /\ \A u \in Tasks : u # holder => call'[u] = call[u]
    BY <1>5, RaiseIs
  <2>2. PICK t \in Tasks : t = holder
    BY <2>1
  <2>3. call[t].st # "lock"
    BY <2>2, TasksAre DEF HolderInv
  <2> QED BY <2>1, <2>2, <2>3, QueueKept
<1>6. CASE ResumeDone
  <2>1. /\ holder \in Tasks /\ queue' = queue /\ call[holder].fn \in Fns /\ pos' \in Nat
    BY <1>6, ResumeDoneIs
  <2>2. PICK t \in Tasks, fn \in Fns, p \in Nat :
           t = holder /\ fn = call[holder].fn /\ p = pos'
    BY <2>1
  <2>3. \/ Release(t) \/ \E left, n \in Int : Submit(t, fn, p, left, n)
    BY <1>6, <2>2, ResumeDoneIs
  <2>4. \A u \in Tasks : u # t => call'[u] = call[u]
    BY <2>3, ReleaseIs, SubmitIs
  <2>5. call[t].st # "lock"
    BY <2>2, TasksAre DEF HolderInv
  <2> QED BY <2>1, <2>4, <2>5, QueueKept
<1>7. CASE OnReadable \/ JobResult
  BY <1>1, <1>7, DeliveryIs
<1>8. CASE Cancel
  BY <1>1, <1>8, CancelIs
<1>9. ASSUME NEW o \in kernel, Complete(o) \/ RunJob(o) PROVE QueueInv'
  BY <1>1, <1>9, CompletionIs
<1>10. CASE Aenter \/ AenterThread \/ AenterRaises
  BY <1>1, <1>10, OpenIs
<1>11. CASE UNCHANGED vars
  BY <1>1, <1>11 DEF vars, lockVars
<1> QED BY <1>2, <1>3, <1>4, <1>5, <1>6, <1>7, <1>8, <1>9, <1>10, <1>11
        DEF Next, Loop, Kernel

\* After an accepted completion the lock is free, or the holder has submitted
\* its next slice at the new position.
LEMMA ResumedIs ==
    ASSUME TypeInv, HolderInv, ResumeDone
    PROVE  /\ holder \in Tasks /\ UNCHANGED <<mode, opened, path, queue, must, cq, file,
                                             cancelled>>
           /\ \/ holder' = Nobody /\ fut' = "none" /\ ud' = ud /\ kernel' = kernel
              \/ /\ path = "uring" /\ holder' = holder /\ fut' = "pending" /\ ud' = ud + 1
                 /\ call'[holder].st = "await" /\ call'[holder].fn = call[holder].fn
                 /\ \E o \in Ops : /\ kernel' = kernel \cup {o} /\ o.ud = ud'
                                   /\ o.off = pos' /\ o.fn = call[holder].fn
<1>1. /\ holder \in Tasks /\ call[holder].fn \in Fns /\ pos' \in Nat
      /\ UNCHANGED <<mode, opened, path, queue, must, cq, file, cancelled>>
  BY ResumeDoneIs
<1>2. PICK t \in Tasks, fn \in Fns, p \in Nat :
         t = holder /\ fn = call[holder].fn /\ p = pos'
  BY <1>1
<1>3. \/ Release(t) /\ fut' = "none" /\ UNCHANGED <<ud, kernel>>
      \/ path = "uring" /\ \E left, n \in Int : Submit(t, fn, p, left, n)
  BY <1>2, ResumeDoneIs
<1>4. CASE Release(t) /\ fut' = "none" /\ UNCHANGED <<ud, kernel>>
  BY <1>1, <1>4, ReleaseIs
<1>5. ASSUME path = "uring", NEW left \in Int, NEW n \in Int, Submit(t, fn, p, left, n)
      PROVE  /\ holder' = t /\ fut' = "pending" /\ ud' = ud + 1
             /\ call'[t].st = "await" /\ call'[t].fn = fn
             /\ \E o \in Ops : /\ kernel' = kernel \cup {o} /\ o.ud = ud'
                               /\ o.off = p /\ o.fn = fn
  BY <1>5, SubmitIs
<1> QED BY <1>1, <1>2, <1>3, <1>4, <1>5

\* The lock and the future go together.
LEMMA HolderStep == TypeInv /\ QueueInv /\ HolderInv /\ [Next]_vars => HolderInv'
<1> SUFFICES ASSUME TypeInv, QueueInv, HolderInv, [Next]_vars PROVE HolderInv'
  OBVIOUS
<1>1. CASE Aenter \/ AenterThread \/ AenterRaises
  BY <1>1, OpenIs DEF HolderInv
<1>2. ASSUME NEW t \in Tasks, Caller(t) PROVE HolderInv'
  <2>1. /\ opened = "open" /\ call[t].st = "idle"
        /\ \A u \in Tasks : u # t => call'[u] = call[u]
        /\ UNCHANGED <<opened, path, holder, fut, must>>
    BY <1>2, StartIs
  <2>2. holder # Nobody => call'[holder] = call[holder]
    BY <2>1 DEF HolderInv, TypeInv
  <2> QED BY <2>1, <2>2 DEF HolderInv
<1>3. ASSUME NEW t \in Tasks, CancelLock(t) PROVE HolderInv'
  <2>1. /\ opened # "new" /\ \E m \in 1 .. Len(queue) : queue[m] = t
        /\ \A u \in Tasks : u # t => call'[u] = call[u]
        /\ UNCHANGED <<opened, path, holder, fut, must>>
    BY <1>3, CancelLockIs
  <2>2. call[t].st = "lock"
    BY <2>1 DEF QueueInv
  <2>3. holder # Nobody => call'[holder] = call[holder]
    BY <2>1, <2>2 DEF HolderInv, TypeInv
  <2> QED BY <2>1, <2>3 DEF HolderInv
<1>4. ASSUME NEW t \in Tasks,
             \/ Acquire(t) \/ AcquireClosed(t) \/ AcquireClose(t) \/ AcquireCloseThread(t)
      PROVE  HolderInv'
  <2>1. holder = Nobody /\ opened # "new" /\ UNCHANGED <<path, must>>
    BY <1>4, TakeIs
  <2>2. /\ opened' = opened \/ opened' = "open" \/ opened' = "closed"
        /\ \/ holder' = Nobody /\ fut' = fut
           \/ /\ holder' = t /\ fut' = "pending"
              /\ call'[t].st = "await" /\ call'[t].fn \in Fns
              /\ call'[t].fn = "aclose" => path = "thread"
    BY <1>4, TakeIs
  <2>3. ~must /\ fut = "none"
    BY <2>1 DEF HolderInv
  <2>4. ~must'
    BY <2>1, <2>3
  <2> QED BY <2>1, <2>2, <2>3, <2>4, TasksAre DEF HolderInv
<1>5. CASE OnReadable \/ JobResult
  <2>1. /\ \/ fut = "pending" /\ fut' = "result"
           \/ fut' = fut
           \/ fut = "cancelled" /\ fut' = "swallowed"
        /\ UNCHANGED <<opened, path, holder, call, must, log, queue, kernel, cancelled>>
        /\ cq # <<>>
    BY <1>5, DeliveryIs
  <2>2. opened # "new"
    BY <2>1 DEF HolderInv
  <2> QED BY <2>1, <2>2 DEF HolderInv
<1>6. CASE ResumeError \/ ResumeCancelled
  <2>1. holder \in Tasks /\ holder' = Nobody /\ fut' = "none" /\ ~must' /\ opened' = opened
    BY <1>6, RaiseIs
  <2>2. opened # "new"
    BY <2>1, TasksAre DEF HolderInv
  <2> QED BY <2>1, <2>2 DEF HolderInv
<1>7. CASE ResumeDone
  <2>1. /\ holder \in Tasks /\ UNCHANGED <<opened, path, must>>
        /\ \/ holder' = Nobody /\ fut' = "none"
           \/ /\ path = "uring" /\ holder' = holder /\ fut' = "pending"
              /\ call'[holder].st = "await" /\ call'[holder].fn = call[holder].fn
    BY <1>7, ResumedIs
  <2>2. ~must
    BY <1>7, ResumeDoneIs
  <2>3. opened # "new" /\ call[holder].fn \in Fns /\ (call[holder].fn = "aclose" => path = "thread")
    BY <2>1, TasksAre DEF HolderInv
  <2>4. ~must'
    <3>1. must' = must
      BY <2>1
    <3> QED BY <2>2, <3>1, Zenon
  <2>5. CASE holder' = Nobody /\ fut' = "none"
    BY <2>1, <2>3, <2>4, <2>5 DEF HolderInv
  <2>6. CASE /\ holder' = holder /\ fut' = "pending"
             /\ call'[holder].st = "await" /\ call'[holder].fn = call[holder].fn
    BY <2>1, <2>3, <2>4, <2>6, TasksAre DEF HolderInv
  <2> QED BY <2>1, <2>5, <2>6
<1>8. CASE Cancel
  <2>1. /\ holder # Nobody
        /\ \/ fut = "pending" /\ fut' = "cancelled" /\ must' = must
           \/ fut = "result" /\ fut' = fut /\ must' = TRUE
        /\ UNCHANGED <<opened, path, holder, call>>
    BY <1>8, CancelIs
  <2>2. opened # "new" /\ (must => fut = "result")
    BY <2>1 DEF HolderInv
  <2> QED BY <2>1, <2>2 DEF HolderInv
<1>9. ASSUME NEW o \in kernel, Complete(o) \/ RunJob(o) PROVE HolderInv'
  <2>1. UNCHANGED <<opened, path, holder, call, fut, must>>
    BY <1>9, CompletionIs
  <2>2. opened # "new"
    BY <1>9 DEF HolderInv
  <2> QED BY <2>1, <2>2 DEF HolderInv
<1>10. CASE UNCHANGED vars
  BY <1>10 DEF vars, pathVars, lockVars, futVars, ringVars, history, HolderInv
<1> QED BY <1>1, <1>2, <1>3, <1>4, <1>5, <1>6, <1>7, <1>8, <1>9, <1>10
        DEF Next, Loop, Kernel

\* The last tag's operation is the holder's, at the position.
LEMMA PlacedStep ==
    TypeInv /\ HolderInv /\ TagInv /\ Placed /\ [Next]_vars => TagInv' /\ Placed'
<1> SUFFICES ASSUME TypeInv, HolderInv, TagInv, Placed, [Next]_vars
             PROVE  TagInv' /\ Placed'
  OBVIOUS
<1>0. /\ cq \in Seq(Cqes) /\ Len(cq) \in Nat /\ ud \in Nat
      /\ \A i \in 1 .. Len(cq) : cq[i].ud \in Nat
      /\ \A o \in kernel : o.ud \in Nat
  <2>1. /\ cq \in Seq(Cqes) /\ Len(cq) \in Nat /\ ud \in Nat
        /\ \A i \in 1 .. Len(cq) : cq[i] \in Cqes
        /\ \A o \in kernel : o \in Ops
    BY DEF TypeInv
  <2> QED BY <2>1 DEF Cqes, Ops
<1>1. CASE Aenter \/ AenterThread \/ AenterRaises
  <2>1. /\ opened = "new" /\ UNCHANGED <<ud, holder, kernel, cq>>
    BY <1>1, OpenIs
  <2>2. holder = Nobody
    BY <2>1 DEF HolderInv
  <2> QED BY <2>1, <2>2 DEF TagInv, Placed
<1>2. CASE UNCHANGED <<mode, path, pos, ud, holder, fut, val, kernel, cq>>
  BY <1>2 DEF TagInv, Placed, Appends
<1>3. ASSUME NEW o \in Ops, kernel' = kernel \cup {o}, o.ud = ud', o.off = pos',
             ud' = ud + 1, fut' = "pending", cq' = cq
      PROVE  TagInv' /\ Placed'
  <2>1. \A p \in kernel : p.ud <= ud' /\ p.ud # ud'
    BY <1>0, <1>3 DEF TagInv
  <2>2. \A i \in 1 .. Len(cq') : cq'[i].ud <= ud' /\ cq'[i].ud # ud'
    BY <1>0, <1>3 DEF TagInv
  <2>3. o.ud <= ud'
    BY <1>0, <1>3
  <2> QED BY <1>3, <2>1, <2>2, <2>3 DEF TagInv, Placed
<1>4. ASSUME NEW t \in Tasks,
             \/ Acquire(t) \/ AcquireClosed(t) \/ AcquireClose(t) \/ AcquireCloseThread(t)
      PROVE  TagInv' /\ Placed'
  <2>1. \/ /\ holder' = Nobody /\ ud' = ud
           /\ (kernel' = kernel /\ cq' = cq) \/ (kernel' = {} /\ cq' = <<>>)
        \/ /\ fut' = "pending" /\ ud' = ud + 1 /\ cq' = cq /\ pos' = pos
           /\ \E o \in Ops : kernel' = kernel \cup {o} /\ o.ud = ud' /\ o.off = pos
    BY <1>4, TakeIs
  <2>2. CASE /\ holder' = Nobody /\ ud' = ud
             /\ (kernel' = kernel /\ cq' = cq) \/ (kernel' = {} /\ cq' = <<>>)
    BY <2>2 DEF TagInv, Placed
  <2> QED BY <2>1, <2>2, <1>3
<1>5. CASE OnReadable \/ JobResult
  <2>1. /\ cq # <<>> /\ cq' = Tail(cq)
        /\ \/ fut' = "result" /\ val' = Head(cq)
           \/ val' = val /\ (fut' = "result" => fut = "result")
        /\ UNCHANGED <<mode, path, pos, ud, holder, kernel>>
    BY <1>5, DeliveryIs
  <2>2. /\ Head(cq) = cq[1] /\ 1 \in 1 .. Len(cq)
        /\ \A i \in 1 .. Len(cq') : i + 1 \in 1 .. Len(cq) /\ cq'[i] = cq[i + 1]
    BY <1>0, <2>1, TailIs
  <2> QED BY <2>1, <2>2 DEF TagInv, Placed, Appends
<1>6. CASE ResumeError \/ ResumeCancelled
  <2>1. holder' = Nobody /\ UNCHANGED <<ud, kernel, cq>>
    BY <1>6, RaiseIs
  <2> QED BY <2>1 DEF TagInv, Placed
<1>7. CASE ResumeDone
  <2>1. /\ cq' = cq
        /\ \/ holder' = Nobody /\ ud' = ud /\ kernel' = kernel
           \/ /\ fut' = "pending" /\ ud' = ud + 1
              /\ \E o \in Ops : kernel' = kernel \cup {o} /\ o.ud = ud' /\ o.off = pos'
    BY <1>7, ResumedIs
  <2>2. CASE holder' = Nobody /\ ud' = ud /\ kernel' = kernel
    BY <2>1, <2>2 DEF TagInv, Placed
  <2> QED BY <2>1, <2>2, <1>3
<1>8. CASE Cancel
  <2>1. /\ kernel' \subseteq kernel /\ (fut' = "result" => fut = "result")
        /\ UNCHANGED <<mode, path, pos, ud, holder, val, cq>>
    BY <1>8, CancelIs
  <2> QED BY <2>1 DEF TagInv, Placed, Appends
<1>9. ASSUME NEW o \in kernel, Complete(o) \/ RunJob(o) PROVE TagInv' /\ Placed'
  <2>1. PICK c \in Cqes :
          /\ cq' = Append(cq, c) /\ kernel' = kernel \ {o} /\ c.ud = o.ud
          /\ (path = "uring" /\ ~Appends(mode)) => c.at = o.off /\ pos' = pos
          /\ UNCHANGED <<mode, path, ud, holder, fut, val>>
    BY <1>9, CompletionIs
  <2>2. /\ Len(cq') = Len(cq) + 1 /\ cq'[Len(cq) + 1] = c
        /\ \A i \in 1 .. Len(cq) : cq'[i] = cq[i]
        /\ \A i \in 1 .. Len(cq) + 1 : i \in 1 .. Len(cq) \/ i = Len(cq) + 1
    BY <1>0, <2>1, AppendIs
  <2>3. TagInv'
    BY <2>1, <2>2 DEF TagInv
  <2>4. Placed'
    BY <2>1, <2>2 DEF Placed, Appends
  <2> QED BY <2>3, <2>4
<1>10. ASSUME NEW t \in Tasks, Caller(t) \/ CancelLock(t) PROVE TagInv' /\ Placed'
  <2>1. CASE Caller(t)
    BY <1>2, <2>1, StartIs
  <2>2. CASE CancelLock(t)
    BY <1>2, <2>2, CancelLockIs
  <2> QED BY <1>10, <2>1, <2>2
<1>11. CASE UNCHANGED vars
  BY <1>2, <1>11 DEF vars, pathVars, lockVars, futVars, ringVars
<1> QED BY <1>1, <1>4, <1>5, <1>6, <1>7, <1>8, <1>9, <1>10, <1>11 DEF Next, Loop, Kernel

\* A close empties the ring, and finds no other call in the file.
LEMMA CloseStep ==
    TypeInv /\ QueueInv /\ HolderInv /\ NoUseAfterClose /\ [Next]_vars => NoUseAfterClose'
<1> SUFFICES ASSUME TypeInv, QueueInv, HolderInv, NoUseAfterClose, [Next]_vars
             PROVE  NoUseAfterClose'
  OBVIOUS
<1> USE DEF NoUseAfterClose
<1>1. CASE Aenter \/ AenterThread \/ AenterRaises
  <2>1. /\ opened = "new" /\ UNCHANGED <<holder, kernel, cq>>
    BY <1>1, OpenIs
  <2> QED BY <2>1 DEF HolderInv
<1>2. CASE UNCHANGED <<opened, path, holder, kernel, cq, call>>
  BY <1>2
<1>3. ASSUME NEW t \in Tasks, Caller(t) PROVE NoUseAfterClose'
  BY <1>3, StartIs
<1>4. ASSUME NEW t \in Tasks, CancelLock(t) PROVE NoUseAfterClose'
  <2>1. /\ \E m \in 1 .. Len(queue) : queue[m] = t
        /\ \A u \in Tasks : u # t => call'[u] = call[u]
        /\ UNCHANGED <<opened, path, holder, kernel, cq>>
    BY <1>4, CancelLockIs
  <2>2. call[t].st = "lock"
    BY <2>1 DEF QueueInv
  <2>3. holder # Nobody => call'[holder] = call[holder]
    BY <2>1, <2>2 DEF HolderInv, TypeInv
  <2> QED BY <2>1, <2>3
<1>5. ASSUME NEW t \in Tasks,
             \/ Acquire(t) \/ AcquireClosed(t) \/ AcquireClose(t) \/ AcquireCloseThread(t)
      PROVE  NoUseAfterClose'
  <2>1. path' = path
    BY <1>5, TakeIs
  <2>2. \/ /\ holder' = Nobody
           /\ \/ /\ kernel' = kernel /\ cq' = cq
                 /\ opened' = opened \/ opened # "open"
              \/ kernel' = {} /\ cq' = <<>>
        \/ opened' = "open"
        \/ path = "thread" /\ holder' = t /\ call'[t].fn = "aclose"
    BY <1>5, TakeIs
  <2> QED BY <2>1, <2>2
<1>6. CASE OnReadable \/ JobResult
  <2>1. cq # <<>> /\ UNCHANGED <<opened, path, holder, kernel, call>>
    BY <1>6, DeliveryIs
  <2> QED BY <2>1
<1>7. CASE ResumeError \/ ResumeCancelled
  BY <1>7, RaiseIs
<1>8. CASE ResumeDone
  <2>1. /\ UNCHANGED <<opened, path, cq>> /\ holder \in Tasks
        /\ \/ holder' = Nobody /\ kernel' = kernel
           \/ path = "uring"
    BY <1>8, ResumedIs
  <2>2. opened # "open" => path # "uring"
    BY <2>1, TasksAre DEF HolderInv
  <2> QED BY <2>1, <2>2
<1>9. CASE Cancel
  <2>1. kernel' \subseteq kernel /\ UNCHANGED <<opened, path, holder, cq, call>>
    BY <1>9, CancelIs
  <2> QED BY <2>1
<1>10. ASSUME NEW o \in kernel, Complete(o) \/ RunJob(o) PROVE NoUseAfterClose'
  <2>1. UNCHANGED <<opened, path, holder, call>>
    BY <1>10, CompletionIs
  <2> QED BY <2>1
<1>11. CASE UNCHANGED vars
  BY <1>2, <1>11 DEF vars, pathVars, lockVars, ringVars
<1> QED BY <1>1, <1>3, <1>4, <1>5, <1>6, <1>7, <1>8, <1>9, <1>10, <1>11
        DEF Next, Loop, Kernel

-----------------------------------------------------------------------------
(* The operation under way *)

\* A step of a task that waits for the lock touches no operation.
LEMMA AloneKept ==
    ASSUME HolderInv, Alone, Behind, StreamExact, WriteStays,
           UNCHANGED <<mode, path, pos, ud, holder, fut, val, must, kernel, cq, file, log,
                       cancelled>>,
           holder # Nobody => call'[holder] = call[holder],
           opened' = "new" <=> opened = "new"
    PROVE  Alone' /\ Behind' /\ StreamExact' /\ WriteStays'
<1>1. Behind' /\ StreamExact' /\ WriteStays'
  BY DEF Behind, StreamExact, WriteStays, Appends
<1>2. Settled' <=> Settled
  BY DEF Settled, EndsAt, Appends
<1>3. \A c : holder # Nobody => (Landed(c)' <=> Landed(c))
  BY DEF Landed, EndsAt, Appends
<1>4. NoneOut' <=> NoneOut
  BY <1>2 DEF NoneOut
<1>5. holder # Nobody => (InKernel' <=> InKernel)
  BY <1>2 DEF InKernel
<1>6. holder # Nobody => (InCq => InCq')
  <2>1. PICK c : c = cq[1]
    OBVIOUS
  <2> QED BY <1>3, <2>1 DEF InCq
<1>7. holder # Nobody => (InFuture => InFuture')
  <2>1. PICK c : c = val
    OBVIOUS
  <2> QED BY <1>3, <2>1 DEF InFuture
<1>8. Alone'
  BY <1>4, <1>5, <1>6, <1>7 DEF Alone
<1> QED BY <1>1, <1>8

\* The holder's operation completes: it has its effect at the position, and
\* what was accepted before is untouched.
LEMMA LandStep ==
    ASSUME TypeInv, HolderInv, Alone, Behind, WriteStays, ~cancelled,
           NEW o \in kernel, Complete(o) \/ RunJob(o)
    PROVE  Alone' /\ Behind' /\ WriteStays'
<1>1. PICK c \in Cqes :
        /\ cq' = Append(cq, c) /\ kernel' = kernel \ {o} /\ o \in Ops
        /\ c.ud = o.ud
        /\ c.at = IF o.fn = "write" /\ Appends(mode) THEN Len(file)
                  ELSE IF path = "uring" THEN o.off ELSE pos
        /\ pos' = IF path = "uring" \/ o.fn = "aclose" \/ c.res < 0 THEN pos
                  ELSE c.at + c.res
        /\ (o.fn = "read" /\ c.at = Len(file)) => c.res <= 0
        /\ file' = IF o.fn = "write" /\ c.res > 0 THEN Stored(o, c.at, c.res) ELSE file
        /\ UNCHANGED <<mode, opened, path, ud, queue, holder, call, fut, val, must, log,
                       cancelled>>
  BY CompletionIs
<1>2. /\ pos \in Nat /\ file \in Seq(Nat) /\ Len(file) \in Nat /\ ud \in Nat
      /\ c.at \in Nat /\ c.res \in Int /\ path \in {"uring", "thread"}
      /\ cq \in Seq(Cqes) /\ log \in Seq(Entries) /\ o.fn \in Fns
  BY <1>1 DEF TypeInv, Cqes, Ops
<1>3. opened # "new" /\ holder # Nobody /\ holder \in Tasks
  BY DEF HolderInv, Alone, NoneOut, TypeInv
<1>4. InKernel
  BY <1>3 DEF Alone, InCq, InFuture
<1>5. /\ kernel = {o} /\ o.ud = ud /\ o.fn = call[holder].fn /\ (path = "uring" => o.off = pos)
      /\ cq = <<>> /\ fut = "pending" /\ EndsAt(pos) /\ (Appends(mode) => pos = Len(file))
  BY <1>3, <1>4 DEF InKernel, Settled
<1>6. kernel' = {} /\ Len(cq') = 1 /\ cq'[1] = c /\ fut' = "pending"
  BY <1>1, <1>5
<1>7. c.at = pos /\ c.ud = ud
  BY <1>1, <1>2, <1>5
<1>8. /\ Len(file') \in Nat /\ Len(file) <= Len(file')
      /\ (Appends(mode) /\ o.fn = "write" /\ c.res > 0) => Len(file') = c.at + c.res
      /\ (o.fn = "write" /\ c.res > 0) => /\ c.at + c.res <= Len(file')
                                         /\ \A x \in c.at + 1 .. c.at + c.res : file'[x] = c.ud
      /\ \A x \in 1 .. Len(file) : x <= c.at => file'[x] = file[x]
  <2>1. CASE o.fn = "write" /\ c.res > 0
    <3>1. c.res \in Nat /\ file' = Stored(o, c.at, c.res)
      BY <1>1, <1>2, <2>1
    <3>2. PICK n \in Nat, at \in Nat : n = c.res /\ at = c.at
      BY <1>2, <3>1
    <3>3. /\ file' \in Seq(Nat)
          /\ at + n <= Len(file') /\ Len(file) <= Len(file')
          /\ at = Len(file) => Len(file') = at + n
          /\ \A x \in at + 1 .. at + n : file'[x] = o.ud
          /\ \A x \in 1 .. Len(file) : x <= at => file'[x] = file[x]
      <4>1. PICK f : f = Stored(o, at, n)
        OBVIOUS
      <4>2. o \in Ops /\ file' = f
        BY <1>1, <3>1, <3>2, <4>1
      <4>3. /\ f \in Seq(Nat)
            /\ at + n <= Len(f) /\ Len(file) <= Len(f)
            /\ at = Len(file) => Len(f) = at + n
            /\ \A x \in at + 1 .. at + n : f[x] = o.ud
            /\ \A x \in 1 .. Len(file) : x <= at => f[x] = file[x]
        BY <4>1, <4>2, StoredIs
      <4> QED BY <4>2, <4>3
    <3> QED BY <3>2, <3>3, <1>5, <1>7
  <2>2. CASE ~(o.fn = "write" /\ c.res > 0)
    BY <1>1, <1>2, <2>2
  <2> QED BY <2>1, <2>2
<1>9. EndsAt(pos)' <=> (log # <<>> => pos' = log[Len(log)].at + log[Len(log)].len)
  BY <1>1 DEF EndsAt
<1>10. ASSUME NEW p, p = pos PROVE EndsAt(p)'
  BY <1>1, <1>5, <1>10 DEF EndsAt
<1>11. ASSUME path = "uring" PROVE Landed(c)'
  <2>1. pos' = pos /\ o.fn # "aclose" /\ path' = "uring" /\ path # "thread"
    BY <1>1, <1>3, <1>5, <1>11 DEF HolderInv
  <2>2. Appends(mode)' => Len(file') = IF c.res > 0 THEN pos + c.res ELSE pos
    BY <1>1, <1>2, <1>5, <1>7, <1>8, <2>1 DEF Appends, Fns
  <2>3. (call'[holder'].fn = "write" /\ c.res > 0) =>
           /\ c.at + c.res <= Len(file')
           /\ \A x \in c.at + 1 .. c.at + c.res : file'[x] = c.ud
    BY <1>1, <1>5, <1>8
  <2>4. EndsAt(pos)'
    BY <1>5, <1>9, <2>1 DEF EndsAt
  <2> QED BY <1>1, <1>7, <2>1, <2>2, <2>3, <2>4 DEF Landed
<1>12. ASSUME path = "thread" PROVE Landed(c)'
  <2>1. /\ path' = "thread" /\ path # "uring" /\ call'[holder'].fn = o.fn
        /\ pos' = IF o.fn = "aclose" \/ c.res < 0 THEN pos ELSE c.at + c.res
    BY <1>1, <1>5, <1>12
  <2>2. IF c.res >= 0 /\ o.fn # "aclose" THEN pos' = c.at + c.res /\ EndsAt(c.at)'
        ELSE EndsAt(pos)'
    <3>1. CASE c.res >= 0 /\ o.fn # "aclose"
      <4>1. PICK p : p = c.at
        OBVIOUS
      <4>2. EndsAt(p)'
        BY <1>7, <1>10, <4>1
      <4>3. pos' = c.at + c.res
        BY <1>2, <2>1, <3>1
      <4> QED BY <3>1, <4>1, <4>2, <4>3 DEF EndsAt
    <3>2. CASE ~(c.res >= 0 /\ o.fn # "aclose")
      <4>1. pos' = pos
        BY <1>2, <2>1, <3>2
      <4>2. EndsAt(pos)'
        BY <1>5, <1>9, <4>1 DEF EndsAt
      <4> QED BY <3>2, <4>2
    <3> QED BY <3>1, <3>2
  <2>3. Appends(mode)' => pos' = Len(file')
    BY <1>1, <1>2, <1>5, <1>7, <1>8, <2>1 DEF Appends, Fns
  <2>4. (o.fn = "write" /\ c.res > 0) =>
           /\ c.at + c.res <= Len(file')
           /\ \A x \in c.at + 1 .. c.at + c.res : file'[x] = c.ud
    BY <1>8
  <2> QED BY <1>1, <1>7, <2>1, <2>2, <2>3, <2>4 DEF Landed
<1>13. Alone'
  <2>1. InCq'
    BY <1>2, <1>6, <1>11, <1>12 DEF InCq
  <2>2. ~must'
    <3>1. must' = must /\ ~must
      BY <1>1 DEF Alone
    <3> QED BY <3>1, Zenon
  <2>3. holder' # Nobody
    BY <1>1, <1>3
  <2> QED BY <2>1, <2>2, <2>3 DEF Alone
<1>14. \A i \in 1 .. Len(log) : log[i].at \in Nat /\ log[i].len \in Nat
  <2>1. \A i \in 1 .. Len(log) : log[i] \in Entries
    BY <1>2
  <2> QED BY <2>1 DEF Entries
<1>15. pos' \in Nat /\ pos <= pos'
  BY <1>1, <1>2, <1>7
<1>16. Behind'
  BY <1>1, <1>2, <1>8, <1>14, <1>15 DEF Behind
<1>17. WriteStays'
  <2>1. ASSUME NEW i \in 1 .. Len(log), log[i].fn = "write",
               NEW x \in log[i].at + 1 .. log[i].at + log[i].len
        PROVE  file'[x] = log[i].ud
    <3>1. log[i].len > 0 /\ x \in Nat /\ 1 <= x /\ x <= log[i].at + log[i].len
      BY <1>14, <2>1
    <3>2. log[i].at + log[i].len <= pos /\ log[i].at + log[i].len <= Len(file)
      BY <2>1, <3>1 DEF Behind
    <3>3. x \in 1 .. Len(file) /\ x <= c.at
      BY <1>2, <1>7, <1>14, <3>1, <3>2
    <3>4. file[x] = log[i].ud
      BY <2>1 DEF WriteStays
    <3> QED BY <1>8, <3>3, <3>4
  <2> QED BY <1>1, <2>1 DEF WriteStays
<1> QED BY <1>13, <1>16, <1>17

\* An accepted completion: the log grows by it, up to the position.
LEMMA AcceptStep ==
    ASSUME TypeInv, HolderInv, Placed, Alone, Behind, StreamExact, WriteStays, ResumeDone
    PROVE  Alone' /\ Behind' /\ StreamExact' /\ WriteStays'
<1>1. /\ holder \in Tasks /\ holder # Nobody /\ fut = "result" /\ ~must
      /\ val.ud = ud /\ val.res \in Nat /\ val.at \in Nat
      /\ pos' = (IF path = "uring" THEN pos + val.res ELSE pos) /\ pos' \in Nat
      /\ UNCHANGED <<mode, opened, path, queue, must, cq, file, cancelled>>
  BY ResumeDoneIs, TasksAre
<1>2. \/ call[holder].fn = "aclose" /\ log' = log
      \/ /\ call[holder].fn # "aclose"
         /\ \E e \in Entries : /\ log' = Append(log, e)
                               /\ e.fn = call[holder].fn /\ e.ud = ud /\ e.of = ud
                               /\ e.at = val.at /\ e.len = val.res
  BY ResumeDoneIs
<1>3. /\ pos \in Nat /\ Len(file) \in Nat /\ ud \in Nat /\ path \in {"uring", "thread"}
      /\ log \in Seq(Entries) /\ Len(log) \in Nat
      /\ \A i \in 1 .. Len(log) : log[i] \in Entries
  BY DEF TypeInv
<1>4. \A i \in 1 .. Len(log) : log[i].at \in Nat /\ log[i].len \in Nat
  BY <1>3 DEF Entries
<1>5. ~cancelled => kernel = {} /\ cq = <<>> /\ Landed(val)
  BY <1>1 DEF Alone, InKernel, InCq, InFuture
<1>6. call[holder].fn = "aclose" => path = "thread"
  BY <1>1 DEF HolderInv
<1>7. opened # "new"
  BY <1>1 DEF HolderInv
<1>8. ASSUME ~cancelled PROVE Settled'
  <2>1. Landed(val)
    BY <1>5, <1>8
  <2>2. Appends(mode)' => pos' = Len(file')
    BY <1>1, <1>3, <2>1 DEF Landed, Appends
  <2>3. EndsAt(pos)'
    <3>1. CASE call[holder].fn = "aclose" /\ log' = log
      BY <1>1, <1>3, <1>6, <2>1, <3>1 DEF Landed, EndsAt
    <3>2. ASSUME call[holder].fn # "aclose", NEW e \in Entries, log' = Append(log, e),
                 e.at = val.at, e.len = val.res
          PROVE  EndsAt(pos)'
      <4>1. log'[Len(log')] = e
        BY <1>3, <3>2, AppendIs
      <4>2. pos' = val.at + val.res
        BY <1>1, <1>3, <2>1, <3>2 DEF Landed
      <4> QED BY <3>2, <4>1, <4>2 DEF EndsAt
    <3> QED BY <1>2, <3>1, <3>2
  <2> QED BY <2>2, <2>3 DEF Settled
<1>9. Alone'
  <2> SUFFICES ASSUME ~cancelled' PROVE Alone'
    BY DEF Alone
  <2>1. ~cancelled /\ ~must'
    <3>1. cancelled' = cancelled /\ must' = must /\ ~must
      BY <1>1
    <3>2. ~must'
      BY <3>1, Zenon
    <3>3. ~cancelled
      BY <3>1, Zenon
    <3> QED BY <3>2, <3>3
  <2>2. Settled' /\ kernel = {} /\ cq' = <<>>
    BY <1>1, <1>5, <1>8, <2>1
  <2>3. \/ holder' = Nobody /\ kernel' = kernel
        \/ /\ holder' = holder /\ fut' = "pending" /\ call'[holder].fn = call[holder].fn
           /\ \E o \in Ops : /\ kernel' = kernel \cup {o} /\ o.ud = ud'
                             /\ o.off = pos' /\ o.fn = call[holder].fn
    BY ResumedIs
  <2>4. CASE holder' = Nobody /\ kernel' = kernel
    BY <2>1, <2>2, <2>4 DEF Alone, NoneOut
  <2>5. ASSUME holder' = holder, fut' = "pending", call'[holder].fn = call[holder].fn,
               NEW o \in Ops, kernel' = kernel \cup {o}, o.ud = ud', o.off = pos',
               o.fn = call[holder].fn
        PROVE  Alone'
    <3>1. kernel' = {o} /\ o.fn = call'[holder'].fn
      BY <2>2, <2>5
    <3>2. InKernel'
      BY <2>2, <2>5, <3>1 DEF InKernel
    <3>3. holder' # Nobody
      BY <1>1, <2>5
    <3> QED BY <2>1, <3>2, <3>3 DEF Alone
  <2> QED BY <2>3, <2>4, <2>5
<1>10. CASE log' = log /\ call[holder].fn = "aclose"
  <2>1. path = "thread" /\ pos' = pos
    BY <1>1, <1>6, <1>10
  <2>2. Behind'
    BY <1>1, <1>10, <2>1 DEF Behind
  <2>3. StreamExact'
    BY <1>1, <1>10, <2>1 DEF StreamExact, Appends
  <2>4. WriteStays'
    BY <1>1, <1>10 DEF WriteStays
  <2> QED BY <1>9, <2>2, <2>3, <2>4
<1>11. ASSUME call[holder].fn # "aclose", NEW e \in Entries, log' = Append(log, e),
              e.fn = call[holder].fn, e.ud = ud, e.of = ud,
              e.at = val.at, e.len = val.res
       PROVE  Alone' /\ Behind' /\ StreamExact' /\ WriteStays'
  <2>1. /\ Len(log') = Len(log) + 1 /\ log'[Len(log) + 1] = e /\ log' # <<>>
        /\ \A i \in 1 .. Len(log) : log'[i] = log[i]
        /\ \A i \in 1 .. Len(log) + 1 : i \in 1 .. Len(log) \/ i = Len(log) + 1
    BY <1>3, <1>11, AppendIs
  <2>2. Landed(val) => /\ path = "thread" => pos = val.at + val.res
                       /\ path = "uring" => pos = val.at
                       /\ (e.fn = "write" /\ e.len > 0) =>
                             /\ e.at + e.len <= Len(file)
                             /\ \A x \in e.at + 1 .. e.at + e.len : file[x] = e.ud
                       /\ EndsAt(val.at)
    BY <1>1, <1>3, <1>11 DEF Landed
  <2>3. Behind'
    <3> SUFFICES ASSUME ~cancelled' PROVE Behind'
      BY DEF Behind
    <3>1. ~cancelled /\ Landed(val)
      <4>1. ~cancelled
        BY <1>1
      <4> QED BY <1>5, <4>1
    <3>2. e.at + e.len <= pos' /\ pos <= pos'
      BY <1>1, <1>3, <1>11, <2>2, <3>1
    <3>3. \A i \in 1 .. Len(log) : log[i].at + log[i].len <= pos'
      BY <1>1, <1>3, <1>4, <3>1, <3>2 DEF Behind
    <3>4. \A i \in 1 .. Len(log') :
             /\ log'[i].at + log'[i].len <= pos'
             /\ (log'[i].fn = "write" /\ log'[i].len > 0) =>
                   log'[i].at + log'[i].len <= Len(file')
      BY <1>1, <2>1, <2>2, <3>1, <3>2, <3>3 DEF Behind
    <3> QED BY <3>4 DEF Behind
  <2>4. WriteStays'
    <3> SUFFICES ASSUME ~cancelled' PROVE WriteStays'
      BY DEF WriteStays
    <3>1. ~cancelled /\ Landed(val)
      <4>1. ~cancelled
        BY <1>1
      <4> QED BY <1>5, <4>1
    <3>2. e.fn = "write" => \A x \in e.at + 1 .. e.at + e.len : file[x] = e.ud
      <4>1. CASE e.len > 0
        BY <2>2, <3>1, <4>1
      <4>2. CASE ~(e.len > 0)
        <5>1. e.at + 1 .. e.at + e.len = {}
          BY <1>1, <1>11, <4>2
        <5> QED BY <5>1
      <4> QED BY <4>1, <4>2
    <3>3. \A i \in 1 .. Len(log') : log'[i].fn = "write" =>
             \A x \in log'[i].at + 1 .. log'[i].at + log'[i].len : file'[x] = log'[i].ud
      BY <1>1, <2>1, <3>1, <3>2 DEF WriteStays
    <3> QED BY <3>3 DEF WriteStays
  <2>5. StreamExact'
    <3> SUFFICES ASSUME ((Appends(mode) \/ path = "thread") => ~cancelled)'
                 PROVE  StreamExact'
      BY DEF StreamExact
    <3>1. (Appends(mode) \/ path = "thread") => ~cancelled
      BY <1>1 DEF Appends
    <3>2. /\ \A i \in 1 .. Len(log) :
                /\ log[i].of = log[i].ud
                /\ i > 1 => log[i].at = log[i - 1].at + log[i - 1].len
          /\ (path = "uring" /\ log # <<>>) =>
                pos = log[Len(log)].at + log[Len(log)].len
      BY <3>1 DEF StreamExact
    <3>3. /\ path = "uring" => val.at = pos
          /\ log # <<>> => val.at = log[Len(log)].at + log[Len(log)].len
      <4>1. CASE ~Appends(mode) /\ path # "thread"
        <5>1. path = "uring" /\ val.at = pos
          BY <1>1, <1>3, <4>1 DEF Placed
        <5> QED BY <3>2, <5>1
      <4>2. CASE Appends(mode) \/ path = "thread"
        <5>1. Landed(val)
          BY <1>5, <3>1, <4>2
        <5> QED BY <2>2, <5>1 DEF EndsAt
      <4> QED BY <4>1, <4>2
    <3>4. path' = "uring" => pos' = e.at + e.len
      BY <1>1, <1>11, <3>3
    <3>5. ASSUME NEW i \in 1 .. Len(log')
          PROVE  /\ log'[i].of = log'[i].ud
                 /\ i > 1 => log'[i].at = log'[i - 1].at + log'[i - 1].len
      <4>1. CASE i \in 1 .. Len(log)
        <5>1. i > 1 => i - 1 \in 1 .. Len(log)
          BY <1>3, <4>1
        <5> QED BY <2>1, <3>2, <4>1, <5>1
      <4>2. CASE i = Len(log) + 1
        <5>1. i > 1 => log # <<>> /\ i - 1 = Len(log) /\ Len(log) \in 1 .. Len(log)
          BY <1>3, <4>2
        <5> QED BY <1>11, <2>1, <3>3, <4>2, <5>1
      <4> QED BY <2>1, <3>5, <4>1, <4>2
    <3>6. log'[Len(log')] = e
      BY <2>1
    <3> QED BY <3>4, <3>5, <3>6 DEF StreamExact
  <2> QED BY <1>9, <2>3, <2>4, <2>5
<1> QED BY <1>2, <1>10, <1>11

\* Only the holder's operation is outstanding until a call is cancelled, and
\* the log stays exact.
LEMMA AloneStep ==
    ASSUME TypeInv, QueueInv, HolderInv, Placed, Alone, Behind, StreamExact, WriteStays,
           [Next]_vars
    PROVE  Alone' /\ Behind' /\ StreamExact' /\ WriteStays'
<1>1. CASE Aenter \/ AenterThread \/ AenterRaises
  <2>1. /\ opened = "new" /\ ((Appends(mode) /\ opened' = "open") => pos' = Len(file'))
        /\ opened' \in {"new", "open"}
        /\ UNCHANGED <<mode, holder, must, kernel, cq, log>>
    BY <1>1, OpenIs
  <2>2. holder = Nobody /\ log = <<>> /\ kernel = {} /\ cq = <<>> /\ ~must
    BY <2>1 DEF HolderInv
  <2>3. ~must'
    <3>1. must' = must /\ ~must
      BY <2>1, <2>2
    <3> QED BY <3>1, Zenon
  <2>4. Alone'
    BY <2>1, <2>2, <2>3 DEF Alone, NoneOut, Settled, EndsAt, Appends
  <2>5. Len(log') = 0 /\ log' = <<>>
    BY <2>1, <2>2
  <2>6. Behind' /\ StreamExact' /\ WriteStays'
    BY <2>5 DEF Behind, StreamExact, WriteStays
  <2> QED BY <2>4, <2>6
<1>2. ASSUME NEW t \in Tasks, Caller(t)
      PROVE  Alone' /\ Behind' /\ StreamExact' /\ WriteStays'
  <2>1. /\ call[t].st = "idle" /\ \A u \in Tasks : u # t => call'[u] = call[u]
        /\ UNCHANGED <<mode, opened, path, pos, ud, holder, fut, val, must, kernel, cq,
                       file, log, cancelled>>
    BY <1>2, StartIs
  <2>2. holder # Nobody => call'[holder] = call[holder]
    BY <2>1 DEF HolderInv, TypeInv
  <2> QED BY <2>1, <2>2, AloneKept
<1>3. ASSUME NEW t \in Tasks, CancelLock(t)
      PROVE  Alone' /\ Behind' /\ StreamExact' /\ WriteStays'
  <2>1. /\ \E m \in 1 .. Len(queue) : queue[m] = t
        /\ \A u \in Tasks : u # t => call'[u] = call[u]
        /\ UNCHANGED <<mode, opened, path, pos, ud, holder, fut, val, must, kernel, cq,
                       file, log, cancelled>>
    BY <1>3, CancelLockIs
  <2>2. call[t].st = "lock"
    BY <2>1 DEF QueueInv
  <2>3. holder # Nobody => call'[holder] = call[holder]
    BY <2>1, <2>2 DEF HolderInv, TypeInv
  <2> QED BY <2>1, <2>3, AloneKept
<1>4. ASSUME UNCHANGED <<mode, path, pos, file, log, cancelled>>
      PROVE  Behind' /\ StreamExact' /\ WriteStays'
  BY <1>4 DEF Behind, StreamExact, WriteStays, Appends
<1>5. ASSUME UNCHANGED <<mode, opened, pos, file, log>> PROVE Settled' <=> Settled
  BY <1>5 DEF Settled, EndsAt, Appends
<1>6. ASSUME NEW t \in Tasks,
             \/ Acquire(t) \/ AcquireClosed(t) \/ AcquireClose(t) \/ AcquireCloseThread(t)
      PROVE  Alone' /\ Behind' /\ StreamExact' /\ WriteStays'
  <2>1. /\ holder = Nobody /\ opened # "new"
        /\ UNCHANGED <<mode, path, pos, must, file, log, cancelled>>
    BY <1>6, TakeIs
  <2>2. \/ holder' = Nobody /\ (kernel' = kernel \/ kernel' = {}) /\ (cq' = cq \/ cq' = <<>>)
        \/ /\ holder' = t /\ fut' = "pending" /\ cq' = cq
           /\ \E o \in Ops : /\ kernel' = kernel \cup {o} /\ o.ud = ud'
                             /\ o.off = pos /\ o.fn = call'[t].fn
    BY <1>6, TakeIs
  <2>3. Alone'
    <3> SUFFICES ASSUME ~cancelled' PROVE Alone'
      BY DEF Alone
    <3>1. ~cancelled /\ ~must'
      <4>1. cancelled' = cancelled /\ must' = must /\ ~must
        BY <2>1 DEF HolderInv
      <4>2. ~must'
        BY <4>1, Zenon
      <4>3. ~cancelled
        BY <4>1, Zenon
      <4> QED BY <4>2, <4>3
    <3>2. kernel = {} /\ cq = <<>> /\ Settled
      BY <2>1, <3>1 DEF Alone, NoneOut
    <3>3. Settled'
      BY <2>1, <3>2 DEF Settled, EndsAt, Appends
    <3>4. CASE holder' = Nobody /\ (kernel' = kernel \/ kernel' = {})
               /\ (cq' = cq \/ cq' = <<>>)
      BY <3>1, <3>2, <3>3, <3>4 DEF Alone, NoneOut
    <3>5. ASSUME holder' = t, fut' = "pending", cq' = cq,
                 NEW o \in Ops, kernel' = kernel \cup {o}, o.ud = ud', o.off = pos,
                 o.fn = call'[t].fn
          PROVE  Alone'
      <4>1. kernel' = {o} /\ o.fn = call'[holder'].fn /\ o.off = pos' /\ cq' = <<>>
        BY <2>1, <3>2, <3>5
      <4>2. InKernel'
        BY <3>3, <3>5, <4>1 DEF InKernel
      <4>3. holder' # Nobody
        BY <3>5, TasksAre
      <4> QED BY <3>1, <4>2, <4>3 DEF Alone
    <3> QED BY <2>2, <3>4, <3>5
  <2> QED BY <1>4, <2>1, <2>3
<1>7. CASE OnReadable \/ JobResult
  <2>1. /\ cq # <<>> /\ cq' = Tail(cq)
        /\ \/ fut = "pending" /\ fut' = "result" /\ val' = Head(cq)
           \/ fut = "pending" => Head(cq).ud # ud
        /\ UNCHANGED <<mode, opened, path, pos, ud, holder, call, must, kernel, file, log,
                       cancelled>>
    BY <1>7, DeliveryIs
  <2>2. Alone'
    <3> SUFFICES ASSUME ~cancelled' PROVE Alone'
      BY DEF Alone
    <3>1. ~cancelled /\ ~must'
      <4>1. cancelled' = cancelled /\ must' = must
        BY <2>1
      <4>2. ~cancelled
        BY <4>1, Zenon
      <4>3. ~must
        BY <4>2 DEF Alone
      <4>4. ~must'
        BY <4>1, <4>3, Zenon
      <4> QED BY <4>2, <4>4
    <3>2. holder # Nobody /\ InCq
      BY <2>1, <3>1 DEF Alone, NoneOut, InKernel, InFuture
    <3>3. PICK c : c = cq[1]
      OBVIOUS
    <3>4. kernel = {} /\ fut = "pending" /\ Len(cq) = 1 /\ Landed(c) /\ c.ud = ud
      BY <3>2, <3>3 DEF InCq, Landed
    <3>5. Head(cq) = c /\ cq' = <<>>
      <4>1. cq \in Seq(Cqes)
        BY DEF TypeInv
      <4>2. Head(cq) = cq[1] /\ Tail(cq) \in Seq(Cqes) /\ Len(Tail(cq)) = 0
        BY <2>1, <3>4, <4>1, TailIs
      <4>3. Tail(cq) = <<>>
        BY <4>2, EmptySeq
      <4> QED BY <2>1, <3>3, <4>2, <4>3
    <3>6. fut' = "result" /\ val' = c
      BY <2>1, <3>4, <3>5
    <3>7. Landed(c)'
      BY <2>1, <3>4 DEF Landed, EndsAt, Appends
    <3>8. InFuture'
      BY <2>1, <3>4, <3>5, <3>6, <3>7 DEF InFuture
    <3>9. holder' # Nobody
      BY <2>1, <3>2
    <3> QED BY <3>1, <3>8, <3>9 DEF Alone
  <2> QED BY <1>4, <2>1, <2>2
<1>8. CASE ResumeError \/ ResumeCancelled
  <2>1. /\ holder \in Tasks /\ holder' = Nobody /\ ~must'
        /\ \/ must \/ fut \in {"cancelled", "swallowed"}
           \/ fut = "result" /\ (val.ud # ud \/ val.res < 0)
        /\ UNCHANGED <<mode, opened, path, pos, ud, queue, kernel, cq, file, log,
                       cancelled>>
    BY <1>8, RaiseIs
  <2>2. Alone'
    <3> SUFFICES ASSUME ~cancelled' PROVE Alone'
      BY DEF Alone
    <3>1. ~cancelled
      <4>1. cancelled' = cancelled
        BY <2>1
      <4> QED BY <4>1, Zenon
    <3>2. InFuture /\ val.ud = ud
      BY <2>1, <3>1, TasksAre DEF Alone, InKernel, InCq, InFuture, Landed
    <3>3. val.res < 0 /\ val.res \in Int /\ path \in {"uring", "thread"}
      BY <2>1, <3>1, <3>2, TasksAre DEF TypeInv, Cqes, Alone, InFuture
    <3>4. EndsAt(pos) /\ (Appends(mode) => pos = Len(file))
      BY <3>2, <3>3 DEF InFuture, Landed
    <3>5. Settled'
      BY <1>5, <2>1, <3>4 DEF Settled
    <3> QED BY <2>1, <3>2, <3>5 DEF Alone, NoneOut, InFuture
  <2> QED BY <1>4, <2>1, <2>2
<1>9. CASE ResumeDone
  BY <1>9, AcceptStep
<1>10. CASE Cancel
  <2>1. cancelled' /\ UNCHANGED <<mode, path, pos, file, log>>
    BY <1>10, CancelIs
  <2>2. Alone' /\ Behind' /\ WriteStays'
    BY <2>1 DEF Alone, Behind, WriteStays
  <2>3. StreamExact'
    BY <2>1 DEF StreamExact, Appends
  <2> QED BY <2>2, <2>3
<1>11. ASSUME NEW o \in kernel, Complete(o) \/ RunJob(o)
       PROVE  Alone' /\ Behind' /\ StreamExact' /\ WriteStays'
  <2>1. /\ UNCHANGED <<mode, path, log, cancelled>> /\ (path = "uring" => pos' = pos)
    BY <1>11, CompletionIs
  <2>2. StreamExact'
    BY <2>1 DEF StreamExact, Appends
  <2>3. CASE ~cancelled
    BY <1>11, <2>2, <2>3, LandStep
  <2>4. CASE cancelled
    <3>1. cancelled'
      <4>1. cancelled' = cancelled
        BY <2>1
      <4> QED BY <2>4, <4>1, Zenon
    <3> QED BY <2>2, <3>1 DEF Alone, Behind, WriteStays
  <2> QED BY <2>3, <2>4
<1>12. CASE UNCHANGED vars
  <2>1. /\ UNCHANGED <<mode, path, pos, ud, holder, fut, val, must, kernel, cq, file, log,
                       cancelled>>
        /\ UNCHANGED <<call, opened>>
    BY <1>12 DEF vars, pathVars, lockVars, futVars, ringVars, history
  <2> QED BY <2>1, AloneKept
<1> QED BY <1>1, <1>2, <1>3, <1>6, <1>7, <1>8, <1>9, <1>10, <1>11, <1>12
        DEF Next, Loop, Kernel

-----------------------------------------------------------------------------
(* Theorems *)

\* The inductive invariant, of every behaviour of the file: the lock's queue
\* and its holder, the tags, and the one operation under way.
THEOREM FileInvariant == Spec => []FileInv
<1>1. Init => FileInv
  <2> SUFFICES ASSUME Init PROVE FileInv
    OBVIOUS
  <2> USE DEF Init
  <2>1. TypeInv
    <3>1. Idle \in Calls /\ NoCqe \in Cqes
      BY DEF Idle, Calls, NoCqe, Cqes
    <3>2. file \in Seq(Nat)
      <4>1. file \in [1 .. OldSize -> Nat]
        OBVIOUS
      <4>2. OldSize \in Nat
        BY AsyncFileAssumption
      <4> QED BY <4>1, <4>2
    <3>3. mode \in AllModes
      BY AsyncFileAssumption
    <3>4. call \in [Tasks -> Calls]
      BY <3>1
    <3>5. /\ queue \in Seq(Tasks) /\ cq \in Seq(Cqes) /\ log \in Seq(Entries)
          /\ kernel \subseteq Ops
      OBVIOUS
    <3> QED BY <3>1, <3>2, <3>3, <3>4, <3>5 DEF TypeInv
  <2>2. Len(log) = 0 /\ Len(queue) = 0 /\ Len(cq) = 0
    OBVIOUS
  <2>3. QueueInv /\ HolderInv /\ TagInv /\ Placed
    BY <2>2 DEF QueueInv, HolderInv, TagInv, Placed
  <2>4. Alone
    BY DEF Alone, NoneOut, Settled, EndsAt
  <2>5. Behind /\ NoUseAfterClose /\ StreamExact /\ WriteStays
    BY <2>2 DEF Behind, NoUseAfterClose, StreamExact, WriteStays
  <2> QED BY <2>1, <2>3, <2>4, <2>5 DEF FileInv
<1>2. FileInv /\ [Next]_vars => FileInv'
  BY TypeStep, QueueStep, HolderStep, PlacedStep, CloseStep, AloneStep DEF FileInv
<1> QED BY <1>1, <1>2, PTL DEF Spec

\* No call uses a closed file, although each checks that it is open before it
\* waits for the lock and not after: a close leaves nothing in the ring, and
\* finds nobody in the file.
THEOREM FileNoUseAfterClose == Spec => []NoUseAfterClose
<1>1. FileInv => NoUseAfterClose
  BY DEF FileInv
<1> QED BY <1>1, FileInvariant, PTL

\* The transfers the calls accept are their own, and follow one another in the
\* file up to the position.
THEOREM FileStreamExact == Spec => []StreamExact
<1>1. FileInv => StreamExact
  BY DEF FileInv
<1> QED BY <1>1, FileInvariant, PTL

\* What write() reported stays in the file, as long as no call is cancelled.
THEOREM FileWriteStays == Spec => []WriteStays
<1>1. FileInv => WriteStays
  BY DEF FileInv
<1> QED BY <1>1, FileInvariant, PTL
=============================================================================

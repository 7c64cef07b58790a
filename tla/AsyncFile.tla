----------------------------- MODULE AsyncFile -----------------------------
(***************************************************************************)
(* AsyncFile (pyuring/async_file.py): a file with a position, used by      *)
(* several tasks that take turns through an asyncio.Lock, over a ring and  *)
(* a UringAsync of its own or, when no ring can be had, over a buffered    *)
(* file object whose calls run in an executor's threads.  Only the holder  *)
(* of the lock waits for a completion, so there is at most one future,     *)
(* `fut`.  `kernel` holds what is under way: the ring's operations, or the *)
(* executor's jobs; `cq` what has finished and not reached the loop.  File *)
(* bytes are the tags of the writes that stored them, 0 for what was there *)
(* at first.                                                               *)
(***************************************************************************)
EXTENDS Integers, Sequences, SequencesExt

CONSTANTS
    NTasks,       \* number of tasks that share the file
    Modes,        \* subset of AllModes: the modes the file is opened with
    OldSize,      \* size of the file before it is opened
    Slice,        \* _READ_SLICE
    ReadSizes,    \* arguments of read, besides -1
    WriteSizes,   \* lengths of the data passed to write
    MaxCalls,     \* bound: calls made in one behaviour
    Env           \* what the program and the system do, of EnvKinds

EnvKinds == {"cancel", "short", "io", "close", "no_ring"}

\* _VALID_BINARY_MODES without the b and its spellings.
AllModes == {"r", "w", "a", "r+", "w+", "a+"}

ASSUME AsyncFileAssumption ==
    /\ NTasks \in Nat /\ Modes \subseteq AllModes
    /\ OldSize \in Nat /\ Slice \in Nat \ {0} /\ MaxCalls \in Nat
    /\ ReadSizes \subseteq Nat /\ WriteSizes \subseteq Nat \ {0}
    /\ Env \subseteq EnvKinds

Tasks == 1 .. NTasks
Nobody == 0
UntilEof == -1     \* read(-1): to the end of the file

VARIABLES
    mode,          \* _mode
    opened,        \* "new", "open" or "closed": _lock and _closed
    probed,        \* _URING_AVAILABLE: "unknown", "yes" or "no"
    path,          \* _use_uring: "uring" or "thread"
    fpOpen,        \* the file object of the thread path has not been closed
    pos, ud,       \* the position (_pos, or the file object's own), and the
                   \* last value drawn from _ud (or job started)
    queue,         \* tasks waiting for the lock, in order
    holder,        \* the task that holds it
    call,          \* task |-> the call it is in
    started,       \* number of calls made so far
    fut,           \* the holder's future
    val,           \* the completion it was resolved with
    must,          \* the holder was cancelled with its future already done
    kernel, cq,    \* operations in the kernel, CQEs not yet seen
    file,          \* the bytes of the file
    log,           \* history: completions accepted, in order
    cancelled      \* history: some wait for a completion was cancelled

lockVars == <<queue, holder>>
futVars == <<fut, val, must>>
ringVars == <<kernel, cq>>
history == <<started, log, cancelled>>
pathVars == <<probed, path, fpOpen>>
vars == <<mode, opened, pathVars, pos, ud, lockVars, call, futVars, ringVars,
          file, history>>

\* `want`: bytes still to transfer, `size`: bytes asked of the ring.
Idle == [fn |-> "none", st |-> "idle", want |-> 0, size |-> 0]
NoCqe == [ud |-> 0, res |-> 0, at |-> 0]

\* _mode_to_flags
CanRead(m) == m \in {"r", "r+", "w+", "a+"}
CanWrite(m) == m # "r"
Truncates(m) == m \in {"w", "w+"}
Appends(m) == m \in {"a", "a+"}

Init ==
    /\ mode \in Modes
    /\ opened = "new" /\ path = "uring" /\ fpOpen = FALSE
    /\ probed = "unknown"
    /\ pos = 0 /\ ud = 0
    /\ queue = <<>> /\ holder = Nobody
    /\ call = [t \in Tasks |-> Idle]
    /\ fut = "none" /\ val = NoCqe /\ must = FALSE
    /\ kernel = {} /\ cq = <<>>
    /\ file = [i \in 1 .. OldSize |-> 0]
    /\ started = 0 /\ log = <<>> /\ cancelled = FALSE

\* The file as open leaves it, and the position it starts at.
Open ==
    /\ file' = IF Truncates(mode) THEN <<>> ELSE file
    /\ pos' = IF Appends(mode) THEN Len(file) ELSE 0

\* _probe_io_uring creates and closes a ring, unless its answer is cached: an
\* errno that means "never" is remembered as well as a success.
Probe ==
    IF probed = "unknown"
    THEN {"yes"} \cup (IF "no_ring" \in Env THEN {"no"} ELSE {})
    ELSE {probed}

\* __aenter__ with a ring.
Aenter ==
    /\ opened = "new"
    /\ "yes" \in Probe /\ probed' = "yes"
    /\ Open
    /\ opened' = "open" /\ path' = "uring"
    /\ UNCHANGED <<mode, fpOpen, ud, lockVars, call, futVars, ringVars, history>>

\* __aenter__ without one: prefer_uring is False, the probe says no, or the
\* file's own ring cannot be created and its fd is closed again; the file is
\* opened in the executor.
AenterThread ==
    /\ opened = "new"
    /\ \/ probed' = probed
       \/ "no" \in Probe /\ probed' = "no"
       \/ "yes" \in Probe /\ probed' = "yes" /\ "no_ring" \in Env
    /\ Open
    /\ opened' = "open" /\ path' = "thread" /\ fpOpen' = TRUE
    /\ UNCHANGED <<mode, ud, lockVars, call, futVars, ringVars, history>>

\* The probe meets another errno, or the file cannot be opened; by then a
\* first open may have truncated it.
AenterRaises ==
    /\ opened = "new"
    /\ "io" \in Env
    /\ \/ file' = file /\ probed' \in {probed} \cup Probe
       \/ /\ "no_ring" \in Env /\ "yes" \in Probe /\ probed' = "yes"
          /\ file' = IF Truncates(mode) THEN <<>> ELSE file
    /\ UNCHANGED <<mode, opened, path, fpOpen, pos, ud, lockVars, call, futVars,
                   ringVars, history>>

-----------------------------------------------------------------------------
(* Calls, up to the lock *)

\* read, write and aclose: _ensure_open (aclose returns instead), then wait
\* for the lock.  The check is not repeated once the lock is held.
StartCall(t, fn, n) ==
    /\ opened = "open"
    /\ call[t] = Idle
    /\ started < MaxCalls
    /\ started' = started + 1
    /\ call' = [call EXCEPT ![t] = [fn |-> fn, st |-> "lock", want |-> n, size |-> 0]]
    /\ queue' = Append(queue, t)
    /\ UNCHANGED <<mode, opened, pathVars, pos, ud, holder, futVars, ringVars, file,
                   log, cancelled>>

\* Faulty variant: a closed file is not noticed.
FdOpen_Stale == TRUE

\* `if self._fp is not None`, and the assertion that _fd and _ring are not
\* None: all of them are dropped where _closed is set.
FdOpen == opened = "open"

\* The first task in line runs with the lock.
Locks(t) == holder = Nobody /\ queue # <<>> /\ Head(queue) = t

\* Leave the call, and the lock with it.
Release(t) ==
    /\ call' = [call EXCEPT ![t] = Idle]
    /\ holder' = Nobody

\* Faulty variant: the offset is left out.
Submit_AtZero(t, fn, p, want, n) ==
    /\ ud' = ud + 1
    /\ kernel' = kernel \cup {[ud |-> ud + 1, fn |-> fn, off |-> 0, len |-> n]}
    /\ fut' = "pending"
    /\ call' = [call EXCEPT ![t] = [fn |-> fn, st |-> "await", want |-> want, size |-> n]]
    /\ holder' = t

\* An operation of n bytes at p is submitted and its completion awaited; on the
\* thread path, a call of the file object is handed to the executor.
Submit(t, fn, p, want, n) ==
    /\ ud' = ud + 1
    /\ kernel' = kernel \cup {[ud |-> ud + 1, fn |-> fn, off |-> p, len |-> n]}
    /\ fut' = "pending"
    /\ call' = [call EXCEPT ![t] = [fn |-> fn, st |-> "await", want |-> want, size |-> n]]
    /\ holder' = t

\* The size of the next slice of a read; the file object reads it all at once.
Chunk(want) ==
    IF path = "uring" /\ (want = UntilEof \/ want > Slice) THEN Slice ELSE want

\* read or write gets the lock; with a ring a read of 0 bytes returns at once.
Acquire(t) ==
    /\ Locks(t)
    /\ call[t].fn \in {"read", "write"}
    /\ FdOpen
    /\ queue' = Tail(queue)
    /\ LET fn == call[t].fn
           want == call[t].want
       IN  IF want = 0 /\ path = "uring"
           THEN Release(t) /\ UNCHANGED <<ud, kernel, fut>>
           ELSE Submit(t, fn, pos, want, IF fn = "read" THEN Chunk(want) ELSE want)
    /\ UNCHANGED <<mode, opened, pathVars, pos, val, must, cq, file, history>>

\* The file was closed while the task waited for the lock: the assertion
\* raises.
AcquireClosed(t) ==
    /\ Locks(t)
    /\ call[t].fn \in {"read", "write"}
    /\ ~FdOpen
    /\ queue' = Tail(queue)
    /\ Release(t)
    /\ UNCHANGED <<mode, opened, pathVars, pos, ud, futVars, ringVars, file, history>>

\* _aclose_unlocked: close the UringAsync, the ring and the file; nothing if
\* somebody else did meanwhile.
AcquireClose(t) ==
    /\ Locks(t)
    /\ call[t].fn = "aclose"
    /\ path = "uring" \/ ~FdOpen
    /\ queue' = Tail(queue)
    /\ opened' = "closed"
    /\ IF path = "uring" THEN kernel' = {} /\ cq' = <<>> ELSE UNCHANGED ringVars
    /\ Release(t)
    /\ UNCHANGED <<mode, pathVars, pos, ud, futVars, file, history>>

\* On the thread path the file object is closed in the executor, and the lock
\* kept until that is done.
AcquireCloseThread(t) ==
    /\ Locks(t)
    /\ call[t].fn = "aclose"
    /\ path = "thread" /\ FdOpen
    /\ queue' = Tail(queue)
    /\ opened' = "closed"
    /\ Submit(t, "aclose", pos, 0, 0)
    /\ UNCHANGED <<mode, pathVars, pos, val, must, cq, file, history>>

-----------------------------------------------------------------------------
(* The wait *)

\* UringAsync._on_readable: the oldest CQE resolves the future in the deque;
\* one that is cancelled and not yet removed swallows it.
OnReadable ==
    /\ path = "uring"
    /\ cq # <<>>
    /\ fut \in {"pending", "cancelled"}
    /\ cq' = Tail(cq)
    /\ IF fut = "pending"
       THEN fut' = "result" /\ val' = Head(cq)
       ELSE fut' = "swallowed" /\ UNCHANGED val
    /\ UNCHANGED <<mode, opened, pathVars, pos, ud, lockVars, call, must, kernel, file,
                   history>>

\* A job's result goes to the future of that job, if it is still wanted.
JobResult ==
    /\ path = "thread"
    /\ cq # <<>>
    /\ cq' = Tail(cq)
    /\ IF fut = "pending" /\ Head(cq).ud = ud
       THEN fut' = "result" /\ val' = Head(cq)
       ELSE UNCHANGED <<fut, val>>
    /\ UNCHANGED <<mode, opened, pathVars, pos, ud, lockVars, call, must, kernel,
                   file, history>>

Resumes == holder # Nobody /\ fut = "result" /\ ~must

\* Faulty variant: the tag is not checked.
Mine_Any == TRUE

\* got_ud == ud, and res < 0.
Mine == val.ud = ud
Failed == val.res < 0

\* The completion is another operation's, or an error: raise UringError.  What
\* earlier slices of a read brought is lost with the exception.
ResumeError ==
    /\ Resumes
    /\ ~Mine \/ Failed
    /\ Release(holder)
    /\ fut' = "none" /\ val' = NoCqe
    /\ UNCHANGED <<mode, opened, pathVars, pos, ud, queue, must, ringVars, file, history>>

\* self._pos += nbytes; the file object moved its own position already.
Advance(p) == IF path = "uring" THEN p + val.res ELSE p

\* What is left of a read after a slice of val.res bytes: nothing after a
\* short slice.
Left(c) ==
    IF path = "thread" \/ c.fn = "write" \/ val.res < c.size THEN 0
    ELSE IF c.want = UntilEof THEN UntilEof
    ELSE c.want - val.res

\* The result is accepted: move the position, then return or read on.
ResumeDone ==
    /\ Resumes
    /\ Mine /\ ~Failed
    /\ LET c == call[holder]
           left == Left(c)
       IN  /\ pos' = Advance(pos)
           /\ log' = IF c.fn = "aclose" THEN log
                     ELSE Append(log, [fn |-> c.fn, ud |-> ud, of |-> val.ud,
                                       at |-> val.at, len |-> val.res])
           /\ IF left = 0
              THEN Release(holder) /\ fut' = "none" /\ UNCHANGED <<ud, kernel>>
              ELSE Submit(holder, c.fn, pos', left, Chunk(left))
    /\ val' = NoCqe
    /\ UNCHANGED <<mode, opened, pathVars, queue, must, cq, file, started,
                   cancelled>>

\* task.cancel() of the task that waits for a completion.  A job that has not
\* started is taken back; one that has goes on in its thread.
Cancel ==
    /\ "cancel" \in Env
    /\ holder # Nobody /\ ~must
    /\ \/ /\ fut = "pending" /\ fut' = "cancelled"
          /\ kernel' \in {kernel} \cup
                (IF path = "thread" THEN {{o \in kernel : o.ud # ud}} ELSE {})
          /\ UNCHANGED must
       \/ fut = "result" /\ must' = TRUE /\ UNCHANGED <<fut, kernel>>
    /\ cancelled' = TRUE
    /\ UNCHANGED <<mode, opened, pathVars, pos, ud, lockVars, call, val, cq, file,
                   started, log>>

\* Faulty variant: the lock stays taken.
ResumeCancelled_KeepsLock ==
    /\ must \/ fut \in {"cancelled", "swallowed"}
    /\ call' = [call EXCEPT ![holder] = Idle]
    /\ fut' = "none" /\ val' = NoCqe /\ must' = FALSE
    /\ UNCHANGED <<mode, opened, pathVars, pos, ud, lockVars, ringVars, file, history>>

\* CancelledError leaves wait_completion and the call; the operation stays in
\* the kernel, and its CQE, unless swallowed, in the ring.
ResumeCancelled ==
    /\ must \/ fut \in {"cancelled", "swallowed"}
    /\ Release(holder)
    /\ fut' = "none" /\ val' = NoCqe /\ must' = FALSE
    /\ UNCHANGED <<mode, opened, pathVars, pos, ud, queue, ringVars, file, history>>

\* task.cancel() of a task that waits for the lock.
CancelLock(t) ==
    /\ "cancel" \in Env
    /\ \E i \in 1 .. Len(queue) : queue[i] = t /\ queue' = RemoveAt(queue, i)
    /\ call' = [call EXCEPT ![t] = Idle]
    /\ UNCHANGED <<mode, opened, pathVars, pos, ud, holder, futVars, ringVars, file,
                   history>>

-----------------------------------------------------------------------------
(* The kernel (external) *)

\* The results of an operation that can transfer n bytes.
Results(n) ==
    {n} \cup (IF "short" \in Env THEN 1 .. n ELSE {})
        \cup (IF "io" \in Env THEN {-1} ELSE {})

Available(o) == IF o.off < Len(file)
                THEN IF o.len < Len(file) - o.off THEN o.len ELSE Len(file) - o.off
                ELSE 0

Stored(o, at, n) ==
    [i \in 1 .. (IF at + n > Len(file) THEN at + n ELSE Len(file)) |->
        IF i \in at + 1 .. at + n THEN o.ud
        ELSE IF i <= Len(file) THEN file[i] ELSE 0]

\* A read or a write of the ring completes; with O_APPEND a write goes to the
\* end.
Complete(o) ==
    /\ path = "uring"
    /\ kernel' = kernel \ {o}
    /\ LET allowed == IF o.fn = "read" THEN CanRead(mode) ELSE CanWrite(mode)
           at == IF o.fn = "write" /\ Appends(mode) THEN Len(file) ELSE o.off
           n == IF o.fn = "read" THEN Available(o) ELSE o.len
       IN  \E res \in IF allowed THEN Results(n) ELSE {-1} :
             /\ cq' = Append(cq, [ud |-> o.ud, res |-> res, at |-> at])
             /\ file' = IF o.fn = "write" /\ res > 0 THEN Stored(o, at, res) ELSE file
    /\ UNCHANGED <<mode, opened, pathVars, pos, ud, lockVars, call, futVars, history>>

\* A worker thread runs a job (the file object is external).  Its calls are
\* atomic, work at its own position, transfer all they can and raise once it
\* is closed; a job left behind by a cancelled call does the same.  Bytes
\* still in the file object's buffer count as stored.
RunJob(o) ==
    /\ path = "thread"
    /\ kernel' = kernel \ {o}
    /\ LET at == IF o.fn = "write" /\ Appends(mode) THEN Len(file) ELSE pos
           rest == IF pos < Len(file) THEN Len(file) - pos ELSE 0
           n == IF o.fn # "read" THEN o.len
                ELSE IF o.len # UntilEof /\ o.len < rest THEN o.len ELSE rest
           allowed == /\ fpOpen
                      /\ o.fn = "read" => CanRead(mode)
                      /\ o.fn = "write" => CanWrite(mode)
       IN  \E res \in (IF allowed THEN {n} ELSE {-1}) \cup
                       (IF "io" \in Env THEN {-1} ELSE {}) :
             /\ cq' = Append(cq, [ud |-> o.ud, res |-> res, at |-> at])
             /\ file' = IF o.fn = "write" /\ res > 0 THEN Stored(o, at, res) ELSE file
             /\ pos' = IF o.fn = "aclose" \/ res < 0 THEN pos ELSE at + res
    /\ fpOpen' = (fpOpen /\ o.fn # "aclose")
    /\ UNCHANGED <<mode, opened, probed, path, ud, lockVars, call, futVars, history>>

-----------------------------------------------------------------------------
Caller(t) ==
    \/ \E n \in ReadSizes \cup {UntilEof} : StartCall(t, "read", n)
    \/ \E n \in WriteSizes : StartCall(t, "write", n)
    \/ "close" \in Env /\ StartCall(t, "aclose", 0)

Loop ==
    \/ \E t \in Tasks : \/ Acquire(t) \/ AcquireClosed(t)
                       \/ AcquireClose(t) \/ AcquireCloseThread(t)
    \/ OnReadable \/ JobResult \/ ResumeError \/ ResumeDone \/ ResumeCancelled

Kernel == \E o \in kernel : Complete(o) \/ RunJob(o)

Next ==
    \/ Aenter \/ AenterThread \/ AenterRaises
    \/ \E t \in Tasks : Caller(t) \/ CancelLock(t)
    \/ Loop \/ Cancel \/ Kernel

Spec == Init /\ [][Next]_vars

\* The event loop runs, and the kernel and the executor's threads complete what
\* they were given.
FairSpec == Spec /\ WF_vars(Loop) /\ WF_vars(Kernel)

-----------------------------------------------------------------------------
(* Properties *)

\* The open check comes before the wait for the lock and can be stale when
\* the lock is held; still nothing is submitted to a closed ring, and no read
\* or write is under way in a closed file.
NoUseAfterClose ==
    opened # "open" =>
        /\ path = "uring" => kernel = {} /\ cq = <<>>
        /\ holder # Nobody => call[holder].fn = "aclose"

\* The completions the calls accept are those of their own operations, and
\* the bytes they transferred follow one another in the file without gap or
\* overlap up to the position; also after cancelled calls, whose completions
\* are still in the ring (for the append modes, and on the thread path, as long
\* as none is cancelled: a cancelled append moves the end of the file but not
\* the position, and a job that goes on moves the file object's).
StreamExact ==
    ((Appends(mode) \/ path = "thread") => ~cancelled) =>
        /\ \A i \in 1 .. Len(log) :
              /\ log[i].of = log[i].ud
              /\ i > 1 => log[i].at = log[i - 1].at + log[i - 1].len
        /\ (path = "uring" /\ log # <<>>) =>
              pos = log[Len(log)].at + log[Len(log)].len

\* What write() reported as written stays in the file, unless a call was
\* cancelled: its write may still be in the kernel and come after.
WriteStays ==
    ~cancelled =>
        \A i \in 1 .. Len(log) : log[i].fn = "write" =>
            \A x \in log[i].at + 1 .. log[i].at + log[i].len : file[x] = log[i].ud

\* Every call ends, also behind cancelled ones and behind a close: no lock is
\* kept and no wait is left without a completion to come.
CallEnds == \A t \in Tasks : (call[t] # Idle) ~> (call[t] = Idle)
============================================================================

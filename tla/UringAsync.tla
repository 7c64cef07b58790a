----------------------------- MODULE UringAsync -----------------------------
(***************************************************************************)
(* UringAsync (pyuring/aio.py): completions of one UringCtx delivered to   *)
(* coroutines waiting on an asyncio loop.  wait_completion queues a future *)
(* and has the loop watch the ring's fd; when it is readable, _on_readable *)
(* takes CQEs off the ring and resolves futures, oldest first.             *)
(*                                                                         *)
(* Wait k is one task: it submits operation k, then awaits                 *)
(* wait_completion.  The loop runs its ready queue in order; other         *)
(* callbacks of the program start waits, cancel tasks and close things     *)
(* between any two of its steps.                                           *)
(***************************************************************************)
EXTENDS Integers, Sequences, FiniteSets, SequencesExt

CONSTANTS
    MaxWaits,   \* bound: waits started in one behaviour
    Env         \* what the rest of the program and the system do

EnvKinds == {"cancel", "close_ua", "close_ctx", "steal", "wait_error",
             "peek_error"}

ASSUME UringAsyncAssumption == MaxWaits \in Nat /\ Env \subseteq EnvKinds

VARIABLES
    closed,       \* _closed
    ctxOpen,      \* the UringCtx still has its ring
    waiters,      \* _waiters: the deque of futures, named by their wait
    active,       \* _reader_active
    registered,   \* the loop watches the ring fd
    ready,        \* the loop's ready queue
    blocked,      \* the loop thread sits in io_uring_wait_cqe
    started,      \* waits started so far
    fut,          \* wait |-> state of its future
    val,          \* wait |-> the operation whose completion resolved it
    co,           \* wait |-> state of its coroutine
    mustCancel,   \* wait |-> cancelled with its future already done
    kernel, cq,   \* operations in the kernel, CQEs not yet seen
    arrived,      \* history: operations in the order of their CQEs
    upset         \* history: what the object does not withstand: the context
                  \* closed or used under it, an exception in its callback

loopVars == <<waiters, active, registered, ready, blocked>>
taskVars == <<started, fut, val, co, mustCancel>>
ringVars == <<kernel, cq, arrived>>
vars == <<closed, ctxOpen, loopVars, taskVars, ringVars, upset>>

Waits == 1 .. MaxWaits
NoOp == 0

Reader == 0            \* the ready-queue entry of _on_readable;
                       \* entry k > 0 wakes the task of wait k

Init ==
    /\ closed = FALSE /\ ctxOpen = TRUE
    /\ waiters = <<>> /\ active = FALSE /\ registered = FALSE
    /\ ready = <<>> /\ blocked = FALSE
    /\ started = 0
    /\ fut = [k \in Waits |-> "none"]
    /\ val = [k \in Waits |-> NoOp]
    /\ co = [k \in Waits |-> "none"]
    /\ mustCancel = [k \in Waits |-> FALSE]
    /\ kernel = {} /\ cq = <<>> /\ arrived = <<>>
    /\ upset = {}

Live(k) == fut[k] = "pending"
LiveWaits == {k \in ToSet(waiters) : Live(k)}

\* The live futures among the first n of the deque, in its order: the tasks
\* that resolving, failing or cancelling those futures wakes.
LiveAmong(n) ==
    LET I == {i \in 1 .. n : Live(waiters[i])}
        Rank(i) == Cardinality({h \in I : h <= i})
    IN  [j \in 1 .. Cardinality(I) |-> waiters[CHOOSE i \in I : Rank(i) = j]]

-----------------------------------------------------------------------------
(* The reader *)

\* loop.remove_reader also cancels a callback that is already queued.
Unqueued(q) == RemoveFirst(q, Reader)

\* _remove_reader, applied to ready queue q.  With the context closed the
\* ring_fd property raises inside the try: only the flag is cleared.
RemoveReader(q) ==
    /\ active' = FALSE
    /\ IF active /\ ctxOpen
       THEN registered' = FALSE /\ ready' = Unqueued(q)
       ELSE registered' = registered /\ ready' = q

\* Faulty variants: arm with nobody waiting; arm for the first wait only.
ArmReader_Always(ws, a, r) ==
    /\ active' = (a \/ (~closed /\ ~a))
    /\ registered' = (r \/ (~closed /\ ~a))

ArmReader_FirstOnly(ws, a, r) ==
    LET arm == ~closed /\ Len(ws) = 1 /\ ~a
    IN  /\ active' = (a \/ arm)
        /\ registered' = (r \/ arm)

\* _arm_reader with the deque about to be ws and the flag about to be a.
ArmReader(ws, a, r) ==
    LET arm == ~closed /\ ws # <<>> /\ ~a
    IN  /\ active' = (a \/ arm)
        /\ registered' = (r \/ arm)

\* Faulty variant: the newest wait goes first.
Enqueue_Left(k) == <<k>> \o waiters

\* self._waiters.append(fut)
Enqueue(k) == Append(waiters, k)

\* Faulty variant: a wait that finds a CQE takes it without queueing.
StartWait_FastPath ==
    LET k == started + 1
    IN  /\ ~blocked /\ ~closed /\ ctxOpen
        /\ k \in Waits
        /\ started' = k
        /\ kernel' = kernel \cup {k}
        /\ IF cq # <<>>
           THEN /\ cq' = Tail(cq)
                /\ co' = [co EXCEPT ![k] = "returned"]
                /\ val' = [val EXCEPT ![k] = Head(cq)]
                /\ UNCHANGED <<fut, waiters, active, registered>>
           ELSE /\ fut' = [fut EXCEPT ![k] = "pending"]
                /\ co' = [co EXCEPT ![k] = "await"]
                /\ waiters' = Enqueue(k)
                /\ ArmReader(waiters', active, registered)
                /\ UNCHANGED <<val, cq>>
        /\ UNCHANGED <<closed, ctxOpen, ready, blocked, mustCancel, arrived, upset>>

\* wait_completion up to its await: the operation is in the kernel, the
\* future in the deque, the reader armed.
StartWait ==
    LET k == started + 1
    IN  /\ ~blocked
        /\ k \in Waits
        /\ started' = k
        /\ IF closed \/ ~ctxOpen
           THEN /\ co' = [co EXCEPT ![k] = "failed"]
                /\ UNCHANGED <<fut, waiters, active, registered, kernel>>
           ELSE /\ kernel' = kernel \cup {k}
                /\ fut' = [fut EXCEPT ![k] = "pending"]
                /\ co' = [co EXCEPT ![k] = "await"]
                /\ waiters' = Enqueue(k)
                /\ ArmReader(waiters', active, registered)
        /\ UNCHANGED <<closed, ctxOpen, ready, blocked, val, mustCancel, cq,
                       arrived, upset>>

\* One turn of the selector: the ring fd is readable while CQEs are unseen.
Poll ==
    /\ ~blocked
    /\ registered /\ ctxOpen /\ cq # <<>>
    /\ Reader \notin ToSet(ready)
    /\ ready' = Append(ready, Reader)
    /\ UNCHANGED <<closed, ctxOpen, waiters, active, registered, blocked,
                   taskVars, ringVars, upset>>

-----------------------------------------------------------------------------
(* _on_readable *)

ReaderRuns == ready # <<>> /\ Head(ready) = Reader

\* Wake-ups of waits ks, in order, behind what is left of the ready queue.
Woken(q, ks) == q \o ks

\* Faulty variant: peek before checking that somebody waits.
Unseen_PeekFirst(n) == SubSeq(cq, n + 2, Len(cq))

\* The CQEs left in the ring after n were taken.
Unseen(n) == SubSeq(cq, n + 1, Len(cq))

\* The first n CQEs go to the first n futures of the deque; one that is
\* already done (cancelled, not yet removed) swallows its completion.
Resolve(n) ==
    LET served == {i \in 1 .. n : Live(waiters[i])}
        to(k) == {i \in served : waiters[i] = k}
    IN  /\ fut' = [k \in Waits |-> IF to(k) # {} THEN "result" ELSE fut[k]]
        /\ val' = [k \in Waits |->
                     IF to(k) # {} THEN cq[CHOOSE i \in to(k) : TRUE]
                     ELSE val[k]]
        /\ waiters' = SubSeq(waiters, n + 1, Len(waiters))
        /\ cq' = Unseen(n)
        /\ ready' = Woken(Unqueued(Tail(ready)), LiveAmong(n))

\* With nobody waiting, return; else wait_completion, then peeks while both
\* queues last, then re-arm.
OnReadable ==
    /\ ReaderRuns
    /\ ctxOpen /\ ~closed
    /\ waiters # <<>> => cq # <<>>
    /\ Resolve(IF Len(waiters) < Len(cq) THEN Len(waiters) ELSE Len(cq))
    /\ ArmReader(waiters', FALSE, FALSE)
    /\ blocked' = FALSE
    /\ UNCHANGED <<closed, ctxOpen, started, co, mustCancel, kernel, arrived, upset>>

\* peek_completion raises in the chain: the exception leaves the callback
\* after n deliveries and the reader is not armed again.
OnReadablePeekRaises ==
    /\ "peek_error" \in Env
    /\ ReaderRuns
    /\ ctxOpen /\ ~closed /\ cq # <<>>
    /\ \E n \in 1 .. Len(cq) : n < Len(waiters) /\ Resolve(n)
    /\ active' = FALSE /\ registered' = FALSE
    /\ blocked' = FALSE
    /\ upset' = upset \cup {"peek_error"}
    /\ UNCHANGED <<closed, ctxOpen, started, co, mustCancel, kernel, arrived>>

\* Somebody else took the CQE: the blocking wait stops the whole loop.
OnReadableBlocks ==
    /\ ReaderRuns /\ ~blocked
    /\ ctxOpen /\ ~closed /\ waiters # <<>> /\ cq = <<>>
    /\ blocked' = TRUE
    /\ UNCHANGED <<closed, ctxOpen, waiters, active, registered, ready,
                   taskVars, ringVars, upset>>

\* _fail_all: the context is closed, or the wait raised.
OnReadableFails ==
    /\ ReaderRuns
    /\ ~ctxOpen \/ closed \/ ("wait_error" \in Env /\ waiters # <<>>)
    /\ fut' = [k \in Waits |->
                 IF k \in LiveWaits THEN "exception" ELSE fut[k]]
    /\ waiters' = <<>>
    /\ RemoveReader(Woken(Tail(ready), LiveAmong(Len(waiters))))
    /\ blocked' = FALSE
    /\ UNCHANGED <<closed, ctxOpen, started, val, co, mustCancel, ringVars, upset>>

-----------------------------------------------------------------------------
(* Tasks *)

\* task.cancel(): a pending future is cancelled at once and the task woken; a
\* future already done leaves the CancelledError for the wake-up.
Cancel(k) ==
    /\ "cancel" \in Env
    /\ ~blocked
    /\ co[k] = "await" /\ ~mustCancel[k] /\ fut[k] # "cancelled"
    /\ IF Live(k)
       THEN /\ fut' = [fut EXCEPT ![k] = "cancelled"]
            /\ ready' = Append(ready, k)
            /\ UNCHANGED mustCancel
       ELSE /\ mustCancel' = [mustCancel EXCEPT ![k] = TRUE]
            /\ UNCHANGED <<fut, ready>>
    /\ UNCHANGED <<closed, ctxOpen, waiters, active, registered, blocked,
                   started, val, co, ringVars, upset>>

Wakes(k) == ready # <<>> /\ Head(ready) = k /\ k # Reader

\* `return await fut` returns the pair, or raises what the future holds.
ResumeDone(k) ==
    /\ Wakes(k)
    /\ ~mustCancel[k] /\ fut[k] \in {"result", "exception"}
    /\ co' = [co EXCEPT ![k] = IF fut[k] = "result" THEN "returned"
                               ELSE "failed"]
    /\ ready' = Tail(ready)
    /\ UNCHANGED <<closed, ctxOpen, waiters, active, registered, blocked,
                   started, fut, val, mustCancel, ringVars, upset>>

\* Faulty variant: popleft instead of remove.
Dequeue_Head(k) == IF waiters = <<>> THEN <<>> ELSE Tail(waiters)

\* self._waiters.remove(fut), or nothing when it is no longer there.
Dequeue(k) == RemoveFirst(waiters, k)

\* except CancelledError: leave the deque, and drop the reader if it is empty.
ResumeCancelled(k) ==
    /\ Wakes(k)
    /\ mustCancel[k] \/ fut[k] = "cancelled"
    /\ co' = [co EXCEPT ![k] = "cancelled"]
    /\ waiters' = Dequeue(k)
    /\ IF waiters' = <<>>
       THEN RemoveReader(Tail(ready))
       ELSE ready' = Tail(ready) /\ UNCHANGED <<active, registered>>
    /\ UNCHANGED <<closed, ctxOpen, blocked, started, fut, val, mustCancel,
                   ringVars, upset>>

-----------------------------------------------------------------------------
(* Closing, and other users of the context *)

\* Faulty variant: the deque is emptied, the futures are not cancelled.
Close_KeepsFutures ==
    /\ "close_ua" \in Env
    /\ ~blocked /\ ~closed
    /\ closed' = TRUE
    /\ waiters' = <<>>
    /\ RemoveReader(ready)
    /\ UNCHANGED <<ctxOpen, blocked, taskVars, ringVars, upset>>

\* UringAsync.close: unregister, cancel every pending future.
Close ==
    /\ "close_ua" \in Env
    /\ ~blocked /\ ~closed
    /\ closed' = TRUE
    /\ fut' = [k \in Waits |->
                 IF k \in LiveWaits THEN "cancelled" ELSE fut[k]]
    /\ waiters' = <<>>
    /\ RemoveReader(Woken(ready, LiveAmong(Len(waiters))))
    /\ UNCHANGED <<ctxOpen, blocked, started, val, co, mustCancel, ringVars, upset>>

\* UringCtx.close while this object still uses the context: the ring and its
\* fd are gone, so the selector never reports it again.
CtxClose ==
    /\ "close_ctx" \in Env
    /\ ~blocked /\ ctxOpen
    /\ ctxOpen' = FALSE
    /\ kernel' = {} /\ cq' = <<>>
    /\ upset' = upset \cup {"close_ctx"}
    /\ UNCHANGED <<closed, loopVars, taskVars, arrived>>

\* Another user of the context takes a CQE (peek_completion, a sync call).
Steal ==
    /\ "steal" \in Env
    /\ ~blocked /\ ctxOpen /\ cq # <<>>
    /\ cq' = Tail(cq)
    /\ upset' = upset \cup {"steal"}
    /\ UNCHANGED <<closed, ctxOpen, loopVars, taskVars, kernel, arrived>>

\* The kernel (external) completes operations in any order.
Complete(o) ==
    /\ o \in kernel
    /\ kernel' = kernel \ {o}
    /\ cq' = Append(cq, o)
    /\ arrived' = Append(arrived, o)
    /\ UNCHANGED <<closed, ctxOpen, loopVars, taskVars, upset>>

-----------------------------------------------------------------------------
Loop ==
    \/ Poll
    \/ OnReadable \/ OnReadablePeekRaises
    \/ OnReadableBlocks \/ OnReadableFails
    \/ \E k \in Waits : ResumeDone(k) \/ ResumeCancelled(k)

Next ==
    \/ Loop
    \/ StartWait
    \/ \E k \in Waits : Cancel(k)
    \/ Close \/ CtxClose \/ Steal
    \/ \E o \in kernel : Complete(o)

Spec == Init /\ [][Next]_vars

\* The loop keeps running and the kernel completes what it was given.
FairSpec ==
    Spec /\ WF_vars(Loop) /\ WF_vars(\E o \in kernel : Complete(o))

-----------------------------------------------------------------------------
(* Properties *)

\* The loop watches the ring fd exactly while somebody waits: no live wait is
\* left without a reader, and no reader is left to spin on unclaimed CQEs.
\* Only an exception out of the callback breaks this.
ReaderIffWaiters ==
    (ctxOpen /\ ~closed /\ "peek_error" \notin upset) => (active <=> waiters # <<>>) /\ registered = active

\* The callback never blocks the event loop: when it runs, the CQE that made
\* the fd readable is still there, unless another user of the context took it.
LoopNeverBlocks ==
    "steal" \notin upset =>
        ~blocked /\ (Reader \in ToSet(ready) /\ ctxOpen => cq # <<>>)

\* A pending future is in the deque, once, and its coroutine still awaits it:
\* no wait can be forgotten.
PendingQueued ==
    /\ \A k \in Waits : Live(k) => co[k] = "await" /\ k \in ToSet(waiters)
    /\ \A i, j \in 1 .. Len(waiters) : waiters[i] = waiters[j] => i = j

Position(o) == CHOOSE i \in 1 .. Len(arrived) : arrived[i] = o

\* Completions are handed out in the order of the waits: an earlier wait gets
\* an earlier CQE, and no CQE is given to two waits.
InOrder ==
    \A j, k \in Waits :
        (j < k /\ val[j] # NoOp /\ val[k] # NoOp)
            => Position(val[j]) < Position(val[k])

\* Completions that left the ring without reaching a coroutine.
Lost == ToSet(arrived) \ (ToSet(cq) \cup
            {val[k] : k \in {j \in Waits : val[j] # NoOp /\ co[j] # "cancelled"}})

\* A cancelled wait costs at most one completion: no more completions vanish
\* than waits were cancelled, while the object alone uses an open context.
LossBounded ==
    upset \cap {"steal", "close_ctx"} = {} =>
        Cardinality(Lost) <=
            Cardinality({k \in Waits : fut[k] = "cancelled" \/ mustCancel[k]})

\* The completion of an operation whose wait has been cancelled is discarded:
\* it is not given to another wait.
CancelledDiscarded ==
    [][\A k \in Waits : val'[k] # val[k] => co[val'[k]] # "cancelled"]_vars

\* Completions and live waits do not sit side by side: the loop serves them.
NoStall ==
    (cq # <<>> /\ LiveWaits # {})
        ~> (cq = <<>> \/ LiveWaits = {} \/ upset # {})

\* Every wait ends, with a completion, an error or the close of the object,
\* as long as nobody is cancelled: a cancelled wait may swallow the completion
\* a live one needs.
WaitEnds ==
    \A k \in Waits :
        (co[k] = "await") ~>
            \/ co[k] # "await"
            \/ upset # {}
            \/ \E j \in Waits : fut[j] = "cancelled" \/ mustCancel[j]

-----------------------------------------------------------------------------
(* What the object promises *)

WaitState ==
    [k \in Waits |-> IF fut[k] \in {"exception", "cancelled"} THEN "ended" ELSE fut[k]]
Gone == {k \in Waits : fut[k] \in {"exception", "cancelled"} /\ k \notin ToSet(waiters)}

DL == INSTANCE Deliveries WITH
        posted <- arrived, taken <- Len(arrived) - Len(cq), state <- WaitState,
        given <- val, gone <- Gone, shared <- upset \cap {"steal", "close_ctx"} # {}

\* UringAsync implements Deliveries: completions are handed out in order, one
\* to a wait and past nobody who waits, and only a cancelled wait swallows one.
AsyncRefines == DL!DSpec
=============================================================================

----------------------------- MODULE AioHelpers -----------------------------
(***************************************************************************)
(* The helpers of pyuring/aio.py that share one ring: sendfile_splice, the *)
(* generator iter_multishot_accept and wait_completion_in_executor, with   *)
(* one more task that submits operations and awaits them.  The ring has a  *)
(* single completion queue: whoever is next in line gets the next CQE,     *)
(* whose ever it is, and only its tag tells.                               *)
(*                                                                         *)
(* UringAsync appears as its queue of waiting tasks, the oldest of which   *)
(* is given the oldest CQE (module UringAsync has the detail).  A worker   *)
(* thread of the executor reads the CQE at the head and moves the head on  *)
(* in two steps.  The program awaits either kind of wait at a time, as     *)
(* single_thread_check=False asks, but it cannot stop the worker of a wait *)
(* it has cancelled.                                                       *)
(***************************************************************************)
EXTENDS Integers, Sequences, FiniteSets

CONSTANTS
    FileSize,    \* bytes of file_fd
    Counts,      \* `count` of sendfile_splice, besides None
    Chunks,      \* its `chunk`
    LenMod,      \* 2^32: lengths are masked
    MaxConns,    \* bound: connections made to listen_fd
    MaxOther,    \* bound: operations of the other task and executor waits
    Env          \* subset of EnvKinds

EnvKinds == {"short", "io", "cancel"}

ASSUME HelpersAssumption ==
    /\ {FileSize, MaxConns, MaxOther} \subseteq Nat
    /\ Counts \subseteq Nat /\ Chunks \subseteq Nat /\ LenMod \in Nat \ {0}
    /\ Env \subseteq EnvKinds

None == -1
SendTag == 1
AcceptTag == 2
OtherTag == 3

VARIABLES
    count, chunk,   \* the arguments of sendfile_splice
    send,           \* sendfile_splice: [st, total, off]
    acc, yielded,   \* the generator, and the fds it yielded
    other,          \* the other task, and what it submitted
    waiters,        \* the tasks in UringAsync.wait_completion, oldest first
    exec,           \* wait_completion_in_executor: [st, n]
    workers,        \* worker threads: [n, awaited, seen]
    kernel,         \* operations in the kernel
    cq, head,       \* CQEs not yet seen, and how many the head has passed
    moved, conns,   \* history: ranges spliced; connections accepted
    ended,          \* history: a splice ended with a result <= 0
    got, stray,     \* history: number of CQEs that reached a task; tags of
                    \* those that reached another than their own, or none
    thrown, abandoned, raced

sendVars == <<count, chunk, send>>
accVars == <<acc, yielded>>
execVars == <<exec, workers>>
ringVars == <<cq, head>>
kernelHistory == <<moved, conns, ended>>
taskHistory == <<got, stray, thrown, abandoned, raced>>
vars == <<sendVars, accVars, other, waiters, execVars, kernel, ringVars,
          kernelHistory, taskHistory>>

Init ==
    /\ count \in Counts \cup {None} /\ chunk \in Chunks
    /\ send = [st |-> "run", total |-> 0, off |-> 0]
    /\ acc = "new" /\ yielded = <<>>
    /\ other = [st |-> "run", n |-> 0]
    /\ waiters = <<>>
    /\ exec = [st |-> "idle", n |-> 0] /\ workers = {}
    /\ kernel = {} /\ cq = <<>> /\ head = 0
    /\ moved = <<>> /\ conns = 0 /\ ended = FALSE
    /\ got = 0 /\ stray = {} /\ thrown = 0 /\ abandoned = 0 /\ raced = FALSE

\* The caller keeps the ring to one kind of wait at a time.
LoopOwnsRing == exec.st # "await"

-----------------------------------------------------------------------------
(* The ring's completion queue *)

Cqe == Head(cq)

\* Faulty variant: two CQEs are marked seen.
Seen_Two == head' = head + 2 /\ cq' = SubSeq(cq, 3, Len(cq))

\* io_uring_cqe_seen.
Seen == head' = head + 1 /\ cq' = Tail(cq)

\* The task of tag t is given the next CQE.
Given(t) ==
    /\ got' = got + 1
    /\ stray' = stray \cup ({Cqe.tag} \ {t})

\* UringAsync resolves the oldest wait.
Resolves(task) ==
    /\ waiters # <<>> /\ Head(waiters) = task
    /\ LoopOwnsRing /\ cq # <<>>
    /\ Seen

-----------------------------------------------------------------------------
(* sendfile_splice *)

Wanted == count = None \/ send.total < count

\* Faulty variant: the SQE is never submitted.
Spliced_Not(n) == UNCHANGED kernel

\* splice_submit of n bytes at `off`; the length is masked to 32 bits.
Spliced(n) ==
    kernel' = kernel \cup
        {[op |-> "splice", tag |-> SendTag, off |-> send.off, len |-> n % LenMod]}

\* The head of the loop: submit the next splice and await, or return.
SendNext ==
    /\ send.st = "run"
    /\ LoopOwnsRing
    /\ IF Wanted
       THEN /\ Spliced(IF count = None \/ count - send.total > chunk
                       THEN chunk ELSE count - send.total)
            /\ waiters' = Append(waiters, "send")
            /\ send' = [send EXCEPT !.st = "await"]
       ELSE /\ send' = [send EXCEPT !.st = "returned"]
            /\ UNCHANGED <<kernel, waiters>>
    /\ UNCHANGED <<count, chunk, accVars, other, execVars, ringVars,
                   kernelHistory, taskHistory>>

\* Faulty variant: any completion counts as the splice's.
SendResult_AnyTag(c) ==
    IF c.res <= 0 THEN [send EXCEPT !.st = "returned"]
    ELSE [send EXCEPT !.st = "run", !.total = @ + c.res, !.off = @ + c.res]

\* What sendfile_splice makes of a completion.
SendResult(c) ==
    IF c.tag # SendTag THEN [send EXCEPT !.st = "raised"]
    ELSE IF c.res <= 0 THEN [send EXCEPT !.st = "returned"]
    ELSE [send EXCEPT !.st = "run", !.total = @ + c.res, !.off = @ + c.res]

SendGets ==
    /\ Resolves("send")
    /\ send' = SendResult(Cqe)
    /\ waiters' = Tail(waiters)
    /\ Given(SendTag)
    /\ UNCHANGED <<count, chunk, accVars, other, execVars, kernel,
                   kernelHistory, thrown, abandoned, raced>>

-----------------------------------------------------------------------------
(* iter_multishot_accept *)

\* The first __anext__ submits the accept; later ones only wait.
AcceptNext ==
    /\ acc \in {"new", "yielded"}
    /\ LoopOwnsRing
    /\ acc' = "await"
    /\ waiters' = Append(waiters, "acc")
    /\ kernel' = IF acc = "new"
                 THEN kernel \cup {[op |-> "accept", tag |-> AcceptTag]}
                 ELSE kernel
    /\ UNCHANGED <<sendVars, yielded, other, execVars, ringVars, kernelHistory,
                   taskHistory>>

\* Faulty variant: a completion of another tag is yielded like the others.
Foreign_Never(c) == FALSE

\* `if ud != user_data: continue`
Foreign(c) == c.tag # AcceptTag

\* A foreign completion is thrown away and the generator waits again.
AcceptSkips ==
    /\ Resolves("acc")
    /\ Foreign(Cqe)
    /\ waiters' = Append(Tail(waiters), "acc")
    /\ thrown' = thrown + 1
    /\ stray' = stray \cup {Cqe.tag}
    /\ UNCHANGED <<sendVars, accVars, other, execVars, kernel,
                   kernelHistory, got, abandoned, raced>>

\* The fd is yielded; an error is raised and ends the generator.
AcceptGets ==
    /\ Resolves("acc")
    /\ ~Foreign(Cqe)
    /\ LET res == Cqe.res
       IN  IF res < 0 THEN acc' = "raised" /\ UNCHANGED yielded
           ELSE acc' = "yielded" /\ yielded' = Append(yielded, res)
    /\ waiters' = Tail(waiters)
    /\ Given(AcceptTag)
    /\ UNCHANGED <<sendVars, other, execVars, kernel, kernelHistory,
                   thrown, abandoned, raced>>

\* The consumer leaves `async for`: the accept stays armed in the kernel.
AcceptLeft ==
    /\ acc = "yielded"
    /\ acc' = "left"
    /\ UNCHANGED <<sendVars, yielded, other, waiters, execVars, kernel, ringVars,
                   kernelHistory, taskHistory>>

-----------------------------------------------------------------------------
(* The other task *)

OtherNext ==
    /\ other.st = "run" /\ other.n + exec.n < MaxOther
    /\ LoopOwnsRing
    /\ other' = [st |-> "await", n |-> other.n + 1]
    /\ waiters' = Append(waiters, "other")
    /\ kernel' = kernel \cup {[op |-> "nop", tag |-> OtherTag, n |-> other.n]}
    /\ UNCHANGED <<sendVars, accVars, execVars, ringVars, kernelHistory,
                   taskHistory>>

OtherGets ==
    /\ Resolves("other")
    /\ other' = [other EXCEPT !.st = "run"]
    /\ waiters' = Tail(waiters)
    /\ Given(OtherTag)
    /\ UNCHANGED <<sendVars, accVars, execVars, kernel, kernelHistory,
                   thrown, abandoned, raced>>

-----------------------------------------------------------------------------
(* wait_completion_in_executor, with the ring to itself *)

\* An operation is submitted and a worker sent to wait; a context with
\* single_thread_check refuses the worker and the wait raises.
ExecCall ==
    /\ exec.st # "await" /\ other.n + exec.n < MaxOther
    /\ waiters = <<>>
    /\ kernel' = kernel \cup {[op |-> "nop", tag |-> OtherTag, n |-> MaxOther + exec.n]}
    /\ \/ exec' = [st |-> "raised", n |-> exec.n + 1] /\ UNCHANGED workers
       \/ /\ exec' = [st |-> "await", n |-> exec.n + 1]
          /\ workers' = workers \cup {[n |-> exec.n, awaited |-> TRUE, seen |-> None]}
    /\ UNCHANGED <<sendVars, accVars, other, waiters, ringVars,
                   kernelHistory, taskHistory>>

\* The task is cancelled: a worker that has not started is taken back, one
\* that waits goes on waiting.
ExecCancelled ==
    /\ "cancel" \in Env
    /\ exec.st = "await"
    /\ exec' = [exec EXCEPT !.st = "idle"]
    /\ \E w \in workers :
         /\ w.awaited
         /\ \/ workers' = (workers \ {w}) \cup {[w EXCEPT !.awaited = FALSE]}
               /\ abandoned' = abandoned + 1
            \/ w.seen = None /\ workers' = workers \ {w} /\ UNCHANGED abandoned
    /\ UNCHANGED <<sendVars, accVars, other, waiters, kernel, ringVars,
                   kernelHistory, got, stray, thrown, raced>>

\* uring_wait_completion on the worker: io_uring_wait_cqe finds the head ...
WorkerSees(w) ==
    /\ w.seen = None /\ cq # <<>>
    /\ workers' = (workers \ {w}) \cup {[w EXCEPT !.seen = head]}
    /\ UNCHANGED <<sendVars, accVars, other, waiters, exec, kernel,
                   ringVars, kernelHistory, taskHistory>>

\* ... and io_uring_cqe_seen moves it on.
WorkerTakes(w) ==
    /\ w.seen = head
    /\ workers' = workers \ {w}
    /\ Seen
    /\ IF w.awaited
       THEN exec' = [exec EXCEPT !.st = "returned"] /\ got' = got + 1
       ELSE UNCHANGED <<exec, got>>
    /\ stray' = stray \cup {Cqe.tag}
    /\ UNCHANGED <<sendVars, accVars, other, waiters, kernel, kernelHistory,
                   thrown, abandoned, raced>>

\* The loop's thread has moved the head since the worker read it: the worker
\* advances it again or sets it back, and CQEs are skipped, seen twice or made
\* up from there on.  Behaviours end here.
WorkerRaces(w) ==
    /\ w.seen \notin {None, head}
    /\ raced' = TRUE
    /\ UNCHANGED <<sendVars, accVars, other, waiters, execVars, kernel, ringVars,
                   kernelHistory, got, stray, thrown, abandoned>>

-----------------------------------------------------------------------------
(* The kernel (external) *)

Post(o, res) == cq' = Append(cq, [tag |-> o.tag, res |-> res])

SpliceDone(o) ==
    /\ o.op = "splice"
    /\ LET left == IF o.off < FileSize THEN FileSize - o.off ELSE 0
           n == IF o.len < left THEN o.len ELSE left
       IN  \E res \in {n} \cup (IF "short" \in Env THEN 1 .. n ELSE {})
                          \cup (IF "io" \in Env THEN {-1} ELSE {}) :
             /\ Post(o, res)
             /\ moved' = IF res > 0 THEN Append(moved, [off |-> o.off, len |-> res])
                         ELSE moved
             /\ ended' = (ended \/ res <= 0)
    /\ kernel' = kernel \ {o}
    /\ UNCHANGED <<sendVars, accVars, other, waiters, execVars, head, conns,
                   taskHistory>>

NopDone(o) ==
    /\ o.op = "nop"
    /\ Post(o, 0)
    /\ kernel' = kernel \ {o}
    /\ UNCHANGED <<sendVars, accVars, other, waiters, execVars, head,
                   kernelHistory, taskHistory>>

\* A connection: the accept stays armed, or this is its last completion.
Accepted(o) ==
    /\ o.op = "accept"
    /\ conns < MaxConns
    /\ conns' = conns + 1
    /\ Post(o, conns + 1)
    /\ kernel' \in {kernel, kernel \ {o}}
    /\ UNCHANGED <<sendVars, accVars, other, waiters, execVars, head, moved,
                   ended, taskHistory>>

AcceptFails(o) ==
    /\ o.op = "accept"
    /\ "io" \in Env
    /\ Post(o, -1)
    /\ kernel' = kernel \ {o}
    /\ UNCHANGED <<sendVars, accVars, other, waiters, execVars, head,
                   kernelHistory, taskHistory>>

-----------------------------------------------------------------------------
Loop ==
    \/ SendNext \/ SendGets
    \/ AcceptSkips \/ AcceptGets
    \/ OtherGets

Completions == \E o \in kernel : SpliceDone(o) \/ NopDone(o)

Next ==
    /\ ~raced
    /\ \/ Loop
       \/ AcceptNext \/ AcceptLeft \/ OtherNext
       \/ ExecCall \/ ExecCancelled
       \/ \E w \in workers : WorkerSees(w) \/ WorkerTakes(w) \/ WorkerRaces(w)
       \/ Completions
       \/ \E o \in kernel : Accepted(o) \/ AcceptFails(o)

Spec == Init /\ [][Next]_vars

\* The loop runs, and the kernel completes splices and other operations;
\* nobody need ever connect.
FairSpec == Spec /\ WF_vars(~raced /\ Loop) /\ WF_vars(~raced /\ Completions)

-----------------------------------------------------------------------------
(* Properties.  A race of two threads in the completion queue, which needs a *)
(* cancelled wait in the executor, voids the first three.                    *)

\* sendfile_splice returns exactly what its splices moved, in one piece from
\* the offset, at most `count` bytes, and less only after a splice that moved
\* nothing: whatever else completes on the ring.
SendExact ==
    (~raced /\ send.st \in {"run", "returned"}) =>
        /\ \A i \in 1 .. Len(moved) :
              moved[i].off = IF i = 1 THEN 0 ELSE moved[i - 1].off + moved[i - 1].len
        /\ send.total = IF moved = <<>> THEN 0
                        ELSE moved[Len(moved)].off + moved[Len(moved)].len
        /\ count # None => send.total <= count
        /\ (send.st = "returned" /\ (count = None \/ send.total < count)) => ended

\* The generator yields connections of its own socket, none of them twice, in
\* the order they were made; other completions are never taken for fds.
AcceptFds ==
    ~raced =>
        \A i \in 1 .. Len(yielded) :
            /\ yielded[i] \in 1 .. conns
            /\ i > 1 => yielded[i - 1] < yielded[i]

\* No more completions vanish from the ring than the generator threw away and
\* cancelled executor waits left workers behind.
LossExplained ==
    ~raced => head - got <= thrown + abandoned

\* sendfile_splice ends, unless somebody else was given its completion.
SendEnds ==
    (send.st = "await") ~> (send.st # "await" \/ SendTag \in stray \/ raced)
=============================================================================

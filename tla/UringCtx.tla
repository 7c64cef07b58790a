------------------------------ MODULE UringCtx ------------------------------
(***************************************************************************)
(* UringCtx (pyuring/native/uring_ctx.py) over uring_ctx                   *)
(* (csrc/uring_wrap.c): one ring, used by one thread.  A synchronous       *)
(* method prepares its SQEs, submits, and takes CQEs off the ring until it *)
(* has as many as it submitted; an asynchronous one submits and returns,   *)
(* pinning the caller's buffer under the operation's user_data until       *)
(* wait_completion or peek_completion hands that tag back.  The kernel     *)
(* completes operations in any order, while the thread runs.               *)
(*                                                                         *)
(* Callers may do anything: mix both kinds of call, reuse a tag, carry on  *)
(* after an exception.  `mess` records what they and the system did, and   *)
(* each property says how much of it it withstands.                        *)
(***************************************************************************)
EXTENDS Integers, Sequences, FiniteSets, SequencesExt

CONSTANTS
    Entries,   \* size of the submission queue
    Tags,      \* the user_data values callers of the async API use
    SignBit,   \* 2^63: the first user_data that is negative as a long long
    MaxOps,    \* bound: SQEs prepared in one behaviour
    MaxUnread, \* bound: CQEs of a multishot request nobody has seen
    Calls,     \* which of CallKinds the caller makes
    Faults     \* "submit", "wait", "io"

-----------------------------------------------------------------------------
(* The synchronous methods of one SQE, in the order of the class.  A method  *)
(* is named for what its operation is to the ring (see MethodKind).          *)

FixedMethods == {"read_fixed", "write_fixed"}
NopMethods == {"nop"}
VectorMethods == {"readv", "writev"}
PathMethods ==
    {"openat", "close_fd", "fsync_fd", "fallocate_fd", "statx", "renameat",
     "unlinkat", "mkdirat"}
SocketMethods == {"send", "recv", "accept", "connect"}
ShutdownMethods == {"shutdown"}
SpliceMethods == {"splice"}
PollMethods == {"tee", "poll_add"}
PollRemoveMethods == {"poll_remove"}
AdviceMethods ==
    {"symlinkat", "linkat", "sync_file_range", "fadvise", "madvise"}
CancelFdMethods == {"async_cancel_fd"}
MessageMethods == {"sendmsg_iov", "recvmsg_iov"}
SetupMethods ==
    {"socket", "pipe", "bind", "listen", "openat2", "link_timeout",
     "getxattr", "setxattr", "fgetxattr", "fsetxattr", "epoll_ctl"}
ProvideMethods == {"provide_buffers", "remove_buffers"}
TruncateMethods == {"msg_ring", "ftruncate", "nop128"}
UpdateMethods == {"poll_update", "timeout_update"}
ShotMethods ==
    {"recv_multishot", "send_zc", "send_zc_fixed", "sendmsg_zc_iov",
     "sendmsg_zc_fixed_iov", "recv_zc", "recvmsg_multishot_iov"}
WaitMethods == {"epoll_wait", "waitid"}
WakeMethods == {"futex_wake"}
FutexMethods == {"futex_wait", "futex_waitv", "uring_cmd", "uring_cmd128"}
DirectMethods ==
    {"cmd_sock", "cmd_getsockname", "fixed_fd_install", "socket_direct",
     "socket_direct_alloc", "pipe_direct"}
RingMethods == {"msg_ring_fd", "msg_ring_fd_alloc", "msg_ring_cqe_flags"}
FilesMethods == {"files_update"}
BundleMethods == {"send_bundle"}
FixedVectorMethods == {"readv_fixed", "writev_fixed"}
SendtoMethods == {"sendto"}
TimeoutMethods == {"timeout"}
RemoveMethods == {"timeout_remove", "async_cancel"}
FileMethods == {"read", "write"}

\* The kernel finishes these by itself (files are regular files).
OneMethods ==
    FixedMethods \cup NopMethods \cup VectorMethods \cup PathMethods
    \cup ShutdownMethods \cup AdviceMethods \cup SetupMethods
    \cup ProvideMethods \cup TruncateMethods \cup WakeMethods
    \cup DirectMethods \cup RingMethods \cup FilesMethods
    \cup FixedVectorMethods \cup TimeoutMethods \cup FileMethods

\* These end when a peer, a device or another process does something.
EventMethods ==
    SocketMethods \cup SpliceMethods \cup PollMethods \cup MessageMethods
    \cup WaitMethods \cup FutexMethods \cup BundleMethods \cup SendtoMethods

\* These act on another operation, found by its user_data or descriptor.
TargetMethods ==
    PollRemoveMethods \cup CancelFdMethods \cup UpdateMethods \cup RemoveMethods

Methods == OneMethods \cup EventMethods \cup TargetMethods \cup ShotMethods

MethodKind(m) ==
    CASE m \in OneMethods -> "one"
      [] m \in EventMethods -> "event"
      [] m \in TargetMethods -> "target"
      [] OTHER -> "shots"

CallKinds ==
    Methods \cup {"batch", "link", "pair", "async", "multishot", "message",
                  "reap", "close"}

ASSUME UringCtxAssumption ==
    /\ Entries \in Nat \ {0}
    /\ Tags \subseteq Nat
    /\ SignBit \in Nat
    /\ MaxOps \in Nat /\ MaxUnread \in Nat
    /\ Calls \subseteq CallKinds
    /\ Faults \subseteq {"submit", "wait", "io"}

VARIABLES
    state,     \* "open", "closing" (pins dropped, ring alive) or "closed"
    sq,        \* SQEs prepared but not accepted by the kernel
    kernel,    \* operations the kernel is working on
    cq,        \* CQEs not yet seen
    pins,      \* _async_io_keepalive: tag |-> operation whose buffer it pins
    call,      \* the call the thread is blocked in
    last,      \* how the last synchronous call returned
    slots,     \* what the entries of the ring hold, the next to be taken first
    issued,    \* number of operations so far; also names them
    raised,    \* history: operations whose submitting call raised
    mess       \* history: see Messes

ringVars == <<sq, kernel, cq, slots>>
ghostVars == <<raised, mess>>
vars == <<state, ringVars, pins, call, last, issued, ghostVars>>

\* "mixed": a synchronous call ran while something else was outstanding;
\* "dup": a tag was used again before its completion was consumed;
\* "left": a synchronous call gave up half-way (a failed submit or wait, an
\* error with completions still due) or made a request that is answered twice;
\* "stale": link_read_write left an SQE in the ring that nobody prepared.
Messes == {"mixed", "dup", "left", "stale"}

NoOp == 0
Idle == [fn |-> "none", own |-> {}, got |-> {}, need |-> 0]
NoReturn == [own |-> {}, got |-> {}, outcome |-> "none"]

\* Tags of the link pair and of the timeout pair's default user_data.
LinkRead == 301
LinkWrite == 302
PairTimeout == 9000

\* An entry of the ring that was never used: a NOP with user_data 0.
ZeroSqe == [sqe |-> NoOp, tag |-> 0, kind |-> "ptr"]

Init ==
    /\ state = "open"
    /\ sq = <<>> /\ kernel = {} /\ cq = <<>>
    /\ pins = [t \in Tags |-> NoOp]
    /\ call = Idle
    /\ last = NoReturn
    /\ slots = [i \in 1 .. Entries |-> ZeroSqe]
    /\ issued = 0
    /\ raised = {} /\ mess = {}

-----------------------------------------------------------------------------
(* Operations.  `kind` says what the operation is to the context:           *)
(*   "buf"     asynchronous, on a bytes-like object the context pins        *)
(*   "ptr"     asynchronous, on memory of the caller or on none             *)
(*   "multi"   asynchronous and multishot                                   *)
(*   "msg"     a CQE posted by another ring's msg_ring                      *)
(*   "one"     of a synchronous call of one SQE, "many" of one of several   *)
(*   "event"   of a synchronous call, done when something outside happens   *)
(*   "target"  of a synchronous call, acting on another operation           *)
(*   "shots"   of a synchronous call, which the kernel may answer twice     *)
(* `after` is the operation it is linked behind; `sqe` names the SQE it     *)
(* runs, which is the operation that SQE was prepared for.                  *)

AsyncKinds == {"buf", "ptr", "multi"}
SyncKinds == {"one", "many", "event", "target", "shots"}

\* Requests that may post several CQEs.
ShotKinds == {"multi", "shots"}

Operation(n, t, k, a) ==
    [id |-> issued + n, sqe |-> issued + n, tag |-> t, kind |-> k, after |-> a]

Ids(ops) == {o.id : o \in ops}

\* The operation a CQE belongs to.
Origin(c) == [id |-> c.id, sqe |-> c.sqe, tag |-> c.tag, kind |-> c.kind,
              after |-> c.after]

Outstanding == ToSet(sq) \cup kernel \cup {Origin(c) : c \in ToSet(cq)}

\* _ring(): a call may start, the ring is open and the thread is its owner's,
\* which is not inside another call.
Enter(c) == c \in Calls /\ state = "open" /\ call = Idle

\* The call raises before it touches the ring: an empty or read-only list of
\* parts, a buffer too small, a context that is closed or another thread's.
Refused ==
    /\ Calls \cap Methods # {}
    /\ call = Idle /\ state # "closing"
    /\ last' = NoReturn
    /\ UNCHANGED <<state, ringVars, pins, call, issued, ghostVars>>

Return(own, got, outcome) ==
    last' = [own |-> own, got |-> got, outcome |-> outcome]

\* One of the tags ts is still in use.
Reused(ts) ==
    IF \E o \in Outstanding : o.tag \in ts \cap Tags THEN {"dup"} ELSE {}

Room == Entries - Len(sq)

\* The entries of the ring after ops were written into the next ones.
Filled(ops) ==
    [i \in 1 .. Entries |->
        IF i + Len(ops) <= Entries THEN slots[i + Len(ops)]
        ELSE LET o == ops[i + Len(ops) - Entries]
             IN  [sqe |-> o.sqe, tag |-> o.tag, kind |-> o.kind]]

\* As many SQEs of ops as the ring has room for.
Fitting(ops) == SubSeq(ops, 1, IF Len(ops) > Room THEN Room ELSE Len(ops))

\* get_sqe and the preparation of each of ops, then io_uring_submit.  Without
\* room (-EAGAIN) the SQEs prepared so far stay in the ring; so do all when the
\* submit fails.
Prepare(ops, onSubmit) ==
    /\ issued + Len(ops) <= MaxOps
    /\ issued' = issued + Len(ops)
    /\ slots' = Filled(Fitting(ops))
    /\ \/ /\ Len(ops) <= Room
          /\ kernel' = kernel \cup ToSet(sq \o ops)
          /\ sq' = <<>>
          /\ onSubmit
       \/ /\ Len(ops) > Room \/ "submit" \in Faults
          /\ sq' = sq \o Fitting(ops)
          /\ Return(Ids(ToSet(ops)), {}, "error")
          /\ raised' = raised \cup Ids({o \in ToSet(ops) : o.kind = "buf"})
          /\ mess' = mess \cup {"left"} \cup Reused({o.tag : o \in ToSet(ops)})
          /\ UNCHANGED <<kernel, pins, call>>
    /\ UNCHANGED <<state, cq>>

\* The operation that the next entry of the ring stands for as it is: get_sqe
\* clears its flags, and leaves opcode, address, length and user_data.
Stale ==
    [id |-> issued + 1, sqe |-> slots[1].sqe, tag |-> slots[1].tag,
     kind |-> slots[1].kind, after |-> NoOp]

\* Two SQEs are taken before either is prepared, and the ring has room for one
\* only: -EAGAIN, with an SQE in the ring as an older call left it.
LeaveStale(history) ==
    /\ Room = 1
    /\ issued < MaxOps
    /\ issued' = issued + 1
    /\ sq' = Append(sq, Stale)
    /\ slots' = Filled(<<Stale>>)
    /\ Return({}, {}, "error")
    /\ mess' = mess \cup history \cup Reused({Stale.tag})
    /\ UNCHANGED <<state, kernel, cq, pins, call, raised>>

\* Faulty variant: one CQE too few.
Block_Short(fn, ops) ==
    /\ call' = [fn |-> fn, own |-> Ids(ToSet(ops)), got |-> {},
                need |-> IF Len(ops) > 1 THEN Len(ops) - 1 ELSE 1]
    /\ mess' = mess \cup (IF Outstanding # {} THEN {"mixed"} ELSE {})
                    \cup (IF ops[1].kind = "shots" THEN {"left"} ELSE {})
                    \cup Reused({o.tag : o \in ToSet(ops)})
    /\ last' = NoReturn
    /\ UNCHANGED <<pins, raised>>

\* Block until CQEs arrive for the operations just submitted.
Block(fn, ops) ==
    /\ call' = [fn |-> fn, own |-> Ids(ToSet(ops)), got |-> {},
                need |-> Len(ops)]
    /\ mess' = mess \cup (IF Outstanding # {} THEN {"mixed"} ELSE {})
                    \cup (IF ops[1].kind = "shots" THEN {"left"} ELSE {})
                    \cup Reused({o.tag : o \in ToSet(ops)})
    /\ last' = NoReturn
    /\ UNCHANGED <<pins, raised>>

-----------------------------------------------------------------------------
(* Synchronous calls *)

\* Every method over uring_submit_wait_one or its inlined form: one SQE with a
\* fixed tag, and one CQE.
SyncCall(m) ==
    LET ops == <<Operation(1, 1, MethodKind(m), NoOp)>>
    IN  Enter(m) /\ Prepare(ops, Block("single", ops))

\* read_batch and read_offsets: n reads tagged 1 .. n, n at most Entries.
BatchCall(n) ==
    LET ops == [i \in 1 .. n |-> Operation(i, i, "many", NoOp)]
    IN  /\ Enter("batch")
        /\ n <= Entries
        /\ Prepare(ops, Block("batch", ops))

\* link_read_write: a read and a write linked behind it, both taken before
\* either is prepared.
LinkCall ==
    LET ops == <<Operation(1, LinkRead, "many", NoOp),
                 Operation(2, LinkWrite, "many", issued + 1)>>
    IN  /\ Enter("link")
        /\ \/ Room # 1 /\ Prepare(ops, Block("link", ops))
           \/ LeaveStale({"left", "stale"})

\* Faulty variant: both SQEs are taken before either is prepared.
PairCall_TakesBoth ==
    LET ops == <<Operation(1, PairTimeout, "many", NoOp),
                 Operation(2, PairTimeout + 1, "many", NoOp)>>
    IN  /\ Enter("pair")
        /\ \/ Room # 1 /\ Prepare(ops, Block("pair", ops))
           \/ LeaveStale({"left"})

\* timeout_arm_remove_pair: a timeout and its removal, one after the other.
PairCall ==
    LET ops == <<Operation(1, PairTimeout, "many", NoOp),
                 Operation(2, PairTimeout + 1, "many", NoOp)>>
    IN  Enter("pair") /\ Prepare(ops, Block("pair", ops))

\* The blocked call takes the oldest CQE, whoever submitted the operation.
Take ==
    /\ cq # <<>>
    /\ cq' = Tail(cq)
    /\ UNCHANGED <<state, sq, kernel, slots, issued, pins, raised>>

Got == call.got \cup {Head(cq).id}

Leave(outcome) ==
    /\ Return(call.own, Got, outcome)
    /\ call' = Idle
    /\ mess' = mess \cup (IF outcome = "error" /\ call.need > 1
                          THEN {"left"} ELSE {})

TakeMore ==
    /\ call' = [call EXCEPT !.got = Got, !.need = @ - 1]
    /\ UNCHANGED <<last, mess>>

SyncTake ==
    /\ call.fn = "single"
    /\ Take
    /\ Leave(IF Head(cq).ok THEN "result" ELSE "error")

\* io_uring_submit_and_wait first waits for as many CQEs as were submitted
\* (fewer only when a signal cut it short); then CQEs are consumed until all
\* are counted or one carries an error, which returns at once.
BatchTake ==
    /\ call.fn = "batch"
    /\ \/ call.got # {}
       \/ Len(cq) >= call.need
       \/ "wait" \in Faults
    /\ Take
    /\ IF ~Head(cq).ok THEN Leave("error")
       ELSE IF call.need = 1 THEN Leave("result")
       ELSE TakeMore

\* Faulty variant: return as soon as a CQE is seen.
LinkTake_First ==
    /\ call.fn = "link"
    /\ Take
    /\ Leave(IF Head(cq).ok THEN "result" ELSE "error")

\* Two CQEs, an error returns at once; the second must be the write's.
LinkTake ==
    /\ call.fn = "link"
    /\ Take
    /\ IF ~Head(cq).ok THEN Leave("error")
       ELSE IF call.need = 2 THEN TakeMore
       ELSE Leave(IF Head(cq).tag = LinkWrite THEN "result" ELSE "error")

\* Two CQEs; -ETIME and -ECANCELED are the expected results.
PairTake ==
    /\ call.fn = "pair"
    /\ Take
    /\ IF ~Head(cq).ok THEN Leave("error")
       ELSE IF call.need = 2 THEN TakeMore
       ELSE Leave("result")

\* io_uring_wait_cqe returns an error (a signal): the call gives up with its
\* operations wherever they are.
WaitFails ==
    /\ "wait" \in Faults
    /\ call # Idle
    /\ Return(call.own, call.got, "error")
    /\ call' = Idle
    /\ mess' = mess \cup (IF call.own # {} THEN {"left"} ELSE {})
    /\ UNCHANGED <<state, ringVars, pins, issued, raised>>

-----------------------------------------------------------------------------
(* The asynchronous API *)

\* The C function returns the tag as a long long: a tag with the top bit set
\* reads as an errno and raises, with the operation in flight.
ReadsNegative(t) == t >= SignBit

\* What read_async or write_async does after the submit:
\* _track_async_io_buffer raises for a tag already pinned.
Track(t) ==
    IF ~ReadsNegative(t) /\ pins[t] = NoOp
    THEN pins' = [pins EXCEPT ![t] = issued + 1] /\ UNCHANGED raised
    ELSE raised' = raised \cup {issued + 1} /\ UNCHANGED pins

\* read_async and write_async with a bytes-like object.
SubmitBuf(t) ==
    /\ Enter("async")
    /\ Prepare(<<Operation(1, t, "buf", NoOp)>>,
               /\ Track(t)
               /\ mess' = mess \cup Reused({t})
               /\ last' = NoReturn
               /\ UNCHANGED call)

\* Nothing is pinned: the memory is the caller's, or there is none.
Untracked(t) ==
    /\ mess' = mess \cup Reused({t})
    /\ last' = NoReturn
    /\ UNCHANGED <<pins, call, raised>>

\* read_async_ptr, write_async_ptr and the tuples of BufferPool.get_ptr.
SubmitPtr(t) ==
    /\ Enter("async")
    /\ Prepare(<<Operation(1, t, "ptr", NoOp)>>, Untracked(t))

\* splice_submit, multishot_accept_submit, recv_multishot_buffer_group_submit.
SubmitShots(t) ==
    /\ Enter("multishot")
    /\ Prepare(<<Operation(1, t, "multi", NoOp)>>, Untracked(t))

\* Faulty variants: drop every pin; drop none.
Release_All(t) == [u \in Tags |-> NoOp]
Release_None(t) == pins

\* _completion_release_async_io_buffer: pop the tag's pin, if there is one.
Release(t) == [u \in Tags |-> IF u = t THEN NoOp ELSE pins[u]]

\* Hand the oldest CQE to the caller and drop the pin of its tag.
Deliver ==
    /\ cq # <<>>
    /\ cq' = Tail(cq)
    /\ pins' = Release(Head(cq).tag)
    /\ last' = NoReturn
    /\ UNCHANGED <<state, sq, kernel, slots, issued, ghostVars>>

WaitCompletion ==
    /\ Enter("reap")
    /\ call' = [Idle EXCEPT !.fn = "wait", !.need = 1]
    /\ last' = NoReturn
    /\ UNCHANGED <<state, ringVars, pins, issued, ghostVars>>

WaitTake ==
    /\ call.fn = "wait"
    /\ Deliver
    /\ call' = Idle

\* peek_completion: the oldest CQE, or None.
PeekCompletion ==
    /\ Enter("reap")
    /\ \/ Deliver
       \/ /\ cq = <<>>
          /\ last' = NoReturn
          /\ UNCHANGED <<state, ringVars, pins, issued, ghostVars>>
    /\ UNCHANGED call

\* submit: whatever is still in the ring goes to the kernel.
SubmitQueued ==
    /\ Enter("reap")
    /\ kernel' = kernel \cup ToSet(sq)
    /\ sq' = <<>>
    /\ last' = NoReturn
    /\ UNCHANGED <<state, cq, slots, pins, call, issued, ghostVars>>

\* submit or submit_and_wait fails: it raises, the SQEs stay in the ring.
SubmitFails ==
    /\ Enter("reap")
    /\ "submit" \in Faults
    /\ last' = NoReturn
    /\ UNCHANGED <<state, ringVars, pins, call, issued, ghostVars>>

\* submit_and_wait(n): submit, then block until n CQEs are there to be seen.
SubmitAndWait(n) ==
    /\ Enter("reap")
    /\ kernel' = kernel \cup ToSet(sq)
    /\ sq' = <<>>
    /\ call' = [Idle EXCEPT !.fn = "submit_and_wait", !.need = n]
    /\ last' = NoReturn
    /\ UNCHANGED <<state, cq, slots, pins, issued, ghostVars>>

\* Faulty variant: waits for one completion more than asked.
SubmitAndWaitDone_OneMore ==
    /\ call.fn = "submit_and_wait"
    /\ Len(cq) > call.need
    /\ call' = Idle
    /\ last' = NoReturn
    /\ UNCHANGED <<state, ringVars, pins, issued, ghostVars>>

SubmitAndWaitDone ==
    /\ call.fn = "submit_and_wait"
    /\ Len(cq) >= call.need
    /\ call' = Idle
    /\ last' = NoReturn
    /\ UNCHANGED <<state, ringVars, pins, issued, ghostVars>>

\* close: the pins go first, then uring_destroy takes the ring down.
Close ==
    /\ Enter("close")
    /\ pins' = [t \in Tags |-> NoOp]
    /\ state' = "closing"
    /\ last' = NoReturn
    /\ UNCHANGED <<ringVars, call, issued, ghostVars>>

Destroy ==
    /\ state = "closing"
    /\ sq' = <<>> /\ kernel' = {} /\ cq' = <<>>
    /\ slots' = [i \in 1 .. Entries |-> ZeroSqe]
    /\ state' = "closed"
    /\ UNCHANGED <<pins, call, last, issued, ghostVars>>

\* msg_ring, msg_ring_fd, ... of another context addressed to this ring: a
\* CQE with the sender's user_data, of no operation of this ring.
MessageArrives(t) ==
    /\ "message" \in Calls /\ state = "open"
    /\ issued < MaxOps
    /\ issued' = issued + 1
    /\ cq' = Append(cq, [id |-> issued + 1, sqe |-> issued + 1, tag |-> t,
                         kind |-> "msg", after |-> NoOp, ok |-> TRUE])
    /\ mess' = mess
         \cup (IF call.own # {} THEN {"mixed"} ELSE {})
         \cup Reused({t})
    /\ UNCHANGED <<state, sq, kernel, slots, pins, call, last, raised>>

-----------------------------------------------------------------------------
(* The kernel (external) *)

\* A linked operation starts when the one before it has completed; it fails
\* when that one failed.
Ready(o) == o.after \notin Ids(kernel)

Cqe(o, ok) == [id |-> o.id, sqe |-> o.sqe, tag |-> o.tag, kind |-> o.kind,
               after |-> o.after, ok |-> ok]

Failed(i) == \E n \in 1 .. Len(cq) : cq[n].id = i /\ ~cq[n].ok

\* The context looks at the result of its synchronous operations only.
MayFail(o) == "io" \in Faults /\ o.kind \in {"one", "many"}

Complete(o) ==
    /\ Ready(o)
    /\ kernel' = kernel \ {o}
    /\ \E ok \in (IF MayFail(o) THEN BOOLEAN ELSE {TRUE}) :
         /\ Failed(o.after) => ~ok
         /\ cq' = Append(cq, Cqe(o, ok))
    /\ UNCHANGED <<state, sq, slots, pins, call, last, issued, ghostVars>>

\* A cancellation finds its target: both complete, in either order.
CompleteTarget(o, v) ==
    /\ o.kind = "target" /\ v.kind \in AsyncKinds
    /\ kernel' = kernel \ {o, v}
    /\ \/ cq' = cq \o <<Cqe(v, TRUE), Cqe(o, TRUE)>>
       \/ cq' = cq \o <<Cqe(o, TRUE), Cqe(v, TRUE)>>
    /\ UNCHANGED <<state, sq, slots, pins, call, last, issued, ghostVars>>

\* A multishot request posts a CQE and stays armed (IORING_CQE_F_MORE), at
\* most MaxUnread CQEs ahead of the reader.
Shot(o) ==
    /\ o.kind \in ShotKinds
    /\ Cardinality({n \in 1 .. Len(cq) : cq[n].id = o.id}) < MaxUnread
    /\ cq' = Append(cq, Cqe(o, TRUE))
    /\ UNCHANGED <<state, sq, kernel, slots, pins, call, last, issued, ghostVars>>

-----------------------------------------------------------------------------
Takes == SyncTake \/ BatchTake \/ LinkTake \/ PairTake \/ WaitTake
         \/ SubmitAndWaitDone

Next ==
    \/ Refused
    \/ \E m \in Methods : SyncCall(m)
    \/ LinkCall \/ PairCall
    \/ \E n \in 1 .. Entries : BatchCall(n)
    \/ SyncTake \/ BatchTake \/ LinkTake \/ PairTake \/ WaitFails
    \/ \E t \in Tags : \/ SubmitBuf(t) \/ SubmitPtr(t) \/ SubmitShots(t)
                       \/ MessageArrives(t)
    \/ WaitCompletion \/ WaitTake \/ PeekCompletion
    \/ SubmitQueued \/ SubmitFails \/ SubmitAndWaitDone
    \/ \E n \in 1 .. Entries : SubmitAndWait(n)
    \/ Close \/ Destroy
    \/ \E o \in kernel : \/ Complete(o) \/ Shot(o)
                         \/ \E v \in kernel : CompleteTarget(o, v)

Spec == Init /\ [][Next]_vars

\* Operations the kernel is sure to finish: not those that wait for an event,
\* nor multishot requests, which wait for a peer.
Due == {o \in kernel : o.kind \notin {"event"} \cup ShotKinds}

\* The kernel completes operations, and a call whose CQE is there takes it.
FairSpec ==
    /\ Spec
    /\ WF_vars(\E o \in Due : Complete(o))
    /\ WF_vars(Takes)
    /\ WF_vars(Destroy)

-----------------------------------------------------------------------------
(* Properties *)

\* While the kernel may still write to (or read from) a bytes-like object
\* passed to read_async or write_async, the context pins that object, whatever
\* else fails or is mixed in, unless the call raised, a tag was reused, or the
\* kernel runs the SQE a second time.
InFlightPinned ==
    (state = "open" /\ "dup" \notin mess) =>
        \A o \in kernel :
            (o.kind = "buf" /\ o.id \notin raised /\ o.sqe = o.id)
                => pins[o.tag] = o.id

\* The context keeps a buffer passed to read_async or write_async referenced
\* as long as the kernel may use it, for callers who keep tags distinct.
BuffersKept ==
    (state = "open" /\ "dup" \notin mess) =>
        \A o \in kernel : o.kind = "buf" => pins[o.tag] # NoOp

\* Conversely a pin never outlives its operation: every pinned object belongs
\* to an operation whose CQE nobody has consumed, as long as no synchronous
\* call took it.
NoLeakedPin ==
    mess \cap {"mixed", "dup"} = {} =>
        \A t \in Tags :
            pins[t] # NoOp =>
                \E o \in Outstanding :
                    o.id = pins[t] /\ o.tag = t /\ o.kind = "buf"

\* A synchronous call returns the results of the operations it submitted, and
\* of no other, if it had the ring to itself and no call before it failed
\* half-way.
SyncOwn ==
    mess \cap {"mixed", "left"} = {} =>
        /\ last.got \subseteq last.own
        /\ last.outcome = "result" => last.got = last.own

\* Between synchronous calls nothing of theirs is left in the ring: no SQE
\* waits to be sent with a later call, no operation still uses memory of a
\* call that returned, no CQE waits for a later call to take it for its own.
QuietBetweenCalls ==
    (call = Idle /\ mess \cap {"mixed", "left"} = {}) =>
        \A o \in Outstanding : o.kind \notin SyncKinds

\* An operation is in one queue at a time and completes at most once (a
\* multishot request once more than it stays armed); the ring is not overfilled.
OnePlace ==
    /\ Len(sq) <= Entries
    /\ \A i, j \in 1 .. Len(cq) : cq[i].id = cq[j].id =>
          i = j \/ cq[i].kind \in ShotKinds
    /\ \A i, j \in 1 .. Len(sq) : sq[i].id = sq[j].id => i = j
    /\ Ids(ToSet(sq)) \cap Ids(kernel) = {}
    /\ \A c \in ToSet(cq) :
          /\ c.id \notin Ids(ToSet(sq))
          /\ c.kind \notin ShotKinds => c.id \notin Ids(kernel)

\* However calls fail and are retried, and whatever the entries of the ring
\* held before, an SQE runs once, as the call that took it prepared it; only
\* link_read_write without room for both of its SQEs breaks this.
EachOnce ==
    /\ OnePlace
    /\ "stale" \notin mess => \A o \in Outstanding : o.sqe = o.id

\* What is sure to arrive in the completion queue, or is there.
Expected == Ids(Due) \cup Ids(ToSet(cq))

\* A blocked call returns: a synchronous one always, unless it waits for an
\* event or a peer, and a wait while enough operations that end by themselves
\* are in the kernel.
CallReturns ==
    (call # Idle /\ Cardinality(Expected) >= call.need) ~> (call = Idle)
=============================================================================

---------------------------- MODULE WriteNewfile ----------------------------
(***************************************************************************)
(* uring_write_newfile_dynamic (csrc/uring_wrap.c), behind write() and     *)
(* write_newfile(): a new file filled by sequential writes, up to QD at a  *)
(* time, submitted in batches and reaped in batches.  `stored` is the set  *)
(* of file offsets the kernel has written.                                 *)
(***************************************************************************)
EXTENDS Integers, FiniteSets

CONSTANTS
    Requests,      \* total_mb, in bytes: the sizes a caller may ask for
    QD,            \* queue depth: ring entries
    BlockSize,     \* block_size
    CbSizes,       \* what buffer_size_cb may answer; {} when it is NULL
    BufferCap,     \* the 64 MiB limit on max_buffer_size
    PeekMax,       \* the length of cqes[], 256 in the code
    Faults         \* "setup", "submit", "wait", "io", "short", "cancel", "fsync"

FaultKinds == {"setup", "submit", "wait", "io", "short", "cancel", "fsync"}

ASSUME NewfileAssumption ==
    /\ Requests \subseteq Nat \ {0}
    /\ QD \in Nat \ {0}
    /\ BlockSize \in Nat \ {0}
    /\ CbSizes \subseteq Nat
    /\ BufferCap \in Nat \ {0}
    /\ PeekMax \in Nat \ {0}
    /\ Faults \subseteq FaultKinds

VARIABLES
    pc,                    \* "setup", "fill", "wait", "reap", "out", "done"
    requested,             \* the size asked for
    total_bytes,
    max_buffer_size,
    next_off,
    inflight, pending,
    written,
    ret,
    sq, kernel, cq,        \* prepared SQEs, operations in the kernel, CQEs
    batch, got,            \* cqes[]: CQEs still to look at, and their number
    stored,                \* offsets the kernel has written
    lost                   \* history: offsets of completed writes it has not

vars == <<pc, requested, total_bytes, max_buffer_size, next_off, inflight,
          pending, written, ret, sq, kernel, cq, batch, got, stored, lost>>

Lesser(a, b) == IF a < b THEN a ELSE b
Greater(a, b) == IF a > b THEN a ELSE b

Init ==
    /\ pc = "setup"
    /\ requested \in Requests
    /\ total_bytes = 0
    /\ max_buffer_size = BlockSize
    /\ next_off = 0 /\ inflight = 0 /\ pending = 0 /\ written = 0
    /\ ret = "ok"
    /\ sq = {} /\ kernel = {} /\ cq = {}
    /\ batch = {} /\ got = 0
    /\ stored = {} /\ lost = {}

-----------------------------------------------------------------------------
\* open, queue_init or an allocation fails.
SetupFails ==
    /\ pc = "setup"
    /\ "setup" \in Faults
    /\ ret' = "setup"
    /\ pc' = "done"
    /\ UNCHANGED <<requested, total_bytes, max_buffer_size, next_off, inflight,
                   pending, written, sq, kernel, cq, batch, got, stored, lost>>

\* At least one block; the buffers hold the largest size the callback named
\* when probed, cut at the cap.
Setup ==
    /\ pc = "setup"
    /\ total_bytes' = Greater(requested, BlockSize)
    /\ max_buffer_size' \in
          IF CbSizes = {}
          THEN {BlockSize}
          ELSE {Lesser(Greater(BlockSize, c), BufferCap) : c \in CbSizes}
    /\ pc' = "fill"
    /\ UNCHANGED <<requested, next_off, inflight, pending, written, ret, sq,
                   kernel, cq, batch, got, stored, lost>>

\* The length of the write at next_off.
Wants ==
    LET usable(c) == c > 0 /\ c <= max_buffer_size
        sizes == IF CbSizes = {}
                 THEN {BlockSize}
                 ELSE {IF usable(c) THEN c ELSE BlockSize : c \in CbSizes}
    IN  {Lesser(w, total_bytes - next_off) : w \in sizes}

WriteOp(want) ==
    [slot |-> (next_off \div BlockSize) % QD, off |-> next_off, len |-> want]

\* Faulty variant: the writes already submitted are not counted.
CanQueue_PendingOnly == next_off < total_bytes /\ pending < QD

\* The condition of the queueing loop; get_sqe must find room as well.
CanQueue ==
    /\ next_off < total_bytes
    /\ inflight + pending < QD

SqFull == Cardinality(sq) >= QD

\* Faulty variant: a short advance makes two writes overlap.
Queue_AdvanceByOne ==
    /\ pc = "fill"
    /\ CanQueue /\ ~SqFull
    /\ \E want \in Wants :
         /\ sq' = sq \cup {WriteOp(want)}
         /\ next_off' = next_off + 1
    /\ pending' = pending + 1
    /\ UNCHANGED <<pc, requested, total_bytes, max_buffer_size, inflight,
                   written, ret, kernel, cq, batch, got, stored, lost>>

\* Prepare the next write.
Queue ==
    /\ pc = "fill"
    /\ CanQueue /\ ~SqFull
    /\ \E want \in Wants :
         /\ sq' = sq \cup {WriteOp(want)}
         /\ next_off' = next_off + want
    /\ pending' = pending + 1
    /\ UNCHANGED <<pc, requested, total_bytes, max_buffer_size, inflight,
                   written, ret, kernel, cq, batch, got, stored, lost>>

\* Nothing more to queue for now: submit what is pending, then wait.
SubmitPending ==
    /\ pc = "fill"
    /\ ~CanQueue \/ SqFull
    /\ inflight + pending > 0
    /\ kernel' = kernel \cup sq
    /\ sq' = {}
    /\ inflight' = inflight + pending
    /\ pending' = 0
    /\ pc' = "wait"
    /\ UNCHANGED <<requested, total_bytes, max_buffer_size, next_off, written,
                   ret, cq, batch, got, stored, lost>>

SubmitFails ==
    /\ pc = "fill"
    /\ ~CanQueue \/ SqFull
    /\ pending > 0
    /\ "submit" \in Faults
    /\ ret' = "submit"
    /\ pc' = "out"
    /\ UNCHANGED <<requested, total_bytes, max_buffer_size, next_off, inflight,
                   pending, written, sq, kernel, cq, batch, got, stored, lost>>

WaitFails ==
    /\ pc = "wait"
    /\ "wait" \in Faults
    /\ ret' = "wait"
    /\ pc' = "out"
    /\ UNCHANGED <<requested, total_bytes, max_buffer_size, next_off, inflight,
                   pending, written, sq, kernel, cq, batch, got, stored, lost>>

\* What io_uring_peek_batch_cqe may find: the oldest PeekMax completions.
Batches == {b \in SUBSET cq : Cardinality(b) = Lesser(Cardinality(cq), PeekMax)}

\* io_uring_submit_and_wait(1), then io_uring_peek_batch_cqe.
Peek ==
    /\ pc = "wait"
    /\ cq # {}
    /\ batch' \in Batches
    /\ got' = Cardinality(batch')
    /\ cq' = cq \ batch'
    /\ pc' = "reap"
    /\ UNCHANGED <<requested, total_bytes, max_buffer_size, next_off, inflight,
                   pending, written, ret, sq, kernel, stored, lost>>

\* A CQE the code does not recognise, or an error result.
Bad(c) == c.slot >= QD \/ c.res < 0

\* A completed write of the batch is counted.
Reap(c) ==
    /\ pc = "reap"
    /\ ~Bad(c)
    /\ batch' = batch \ {c}
    /\ written' = written + c.res
    /\ UNCHANGED <<pc, requested, total_bytes, max_buffer_size, next_off,
                   inflight, pending, ret, sq, kernel, cq, got, stored, lost>>

\* A failed one ends the call.
ReapError(c) ==
    /\ pc = "reap"
    /\ Bad(c)
    /\ batch' = batch \ {c}
    /\ ret' = IF c.slot >= QD THEN "EIO" ELSE "io"
    /\ pc' = "out"
    /\ UNCHANGED <<requested, total_bytes, max_buffer_size, next_off, inflight,
                   pending, written, sq, kernel, cq, got, stored, lost>>

\* progress_cb asks to stop: the whole batch is consumed, then -ECANCELED.
ReapCancelled(c) ==
    /\ pc = "reap"
    /\ "cancel" \in Faults
    /\ ~Bad(c)
    /\ written' = written + c.res
    /\ batch' = {}
    /\ inflight' = inflight - got
    /\ ret' = "ECANCELED"
    /\ pc' = "out"
    /\ UNCHANGED <<requested, total_bytes, max_buffer_size, next_off, pending,
                   sq, kernel, cq, got, stored, lost>>

\* Faulty variant: the batch is not taken off inflight.
BatchDone_Uncounted ==
    /\ pc = "reap"
    /\ batch = {}
    /\ pc' = "fill"
    /\ UNCHANGED <<requested, total_bytes, max_buffer_size, next_off, inflight,
                   pending, written, ret, sq, kernel, cq, batch, got, stored, lost>>

\* The batch is done; peek again while something is in flight and completed.
BatchDone ==
    /\ pc = "reap"
    /\ batch = {}
    /\ inflight' = inflight - got
    /\ IF inflight' > 0 /\ cq # {}
       THEN /\ batch' \in Batches
            /\ got' = Cardinality(batch')
            /\ cq' = cq \ batch'
            /\ UNCHANGED pc
       ELSE pc' = "fill" /\ got' = 0 /\ UNCHANGED <<batch, cq>>
    /\ UNCHANGED <<requested, total_bytes, max_buffer_size, next_off, pending,
                   written, ret, sq, kernel, stored, lost>>

\* Faulty variant: leaves as soon as the last write is submitted.
Finish_Early ==
    /\ pc \in {"fill", "wait"}
    /\ next_off >= total_bytes /\ pending = 0
    /\ ret' = "ok"
    /\ pc' = "out"
    /\ UNCHANGED <<requested, total_bytes, max_buffer_size, next_off, inflight,
                   pending, written, sq, kernel, cq, batch, got, stored, lost>>

\* The main loop ends; fsync if asked.
Finish ==
    /\ pc = "fill"
    /\ next_off >= total_bytes /\ inflight = 0 /\ pending = 0
    /\ ret' \in IF "fsync" \in Faults THEN {"ok", "fsync"} ELSE {"ok"}
    /\ pc' = "out"
    /\ UNCHANGED <<requested, total_bytes, max_buffer_size, next_off, inflight,
                   pending, written, sq, kernel, cq, batch, got, stored, lost>>

\* Free the buffers, io_uring_queue_exit, close.
Exit ==
    /\ pc = "out"
    /\ sq' = {} /\ kernel' = {} /\ cq' = {}
    /\ pc' = "done"
    /\ UNCHANGED <<requested, total_bytes, max_buffer_size, next_off, inflight,
                   pending, written, ret, batch, got, stored, lost>>

-----------------------------------------------------------------------------
\* The kernel (external): a write stores a prefix of its range, or fails.
Results(o) ==
    {o.len} \cup (IF "short" \in Faults THEN 1 .. o.len ELSE {})
            \cup (IF "io" \in Faults THEN {-1} ELSE {})

Complete(o) ==
    /\ kernel' = kernel \ {o}
    /\ \E res \in Results(o) :
         /\ cq' = cq \cup {[slot |-> o.slot, off |-> o.off, res |-> res]}
         /\ stored' = stored \cup (o.off .. o.off + res - 1)
         /\ lost' = lost \cup ((o.off .. o.off + o.len - 1) \ stored')
    /\ UNCHANGED <<pc, requested, total_bytes, max_buffer_size, next_off,
                   inflight, pending, written, ret, sq, batch, got>>

-----------------------------------------------------------------------------
Pipeline ==
    \/ SetupFails \/ Setup \/ Queue \/ SubmitPending \/ SubmitFails
    \/ Peek
    \/ \E c \in batch : Reap(c) \/ ReapError(c) \/ ReapCancelled(c)
    \/ BatchDone \/ Finish \/ Exit

Terminated == pc = "done" /\ UNCHANGED vars

Next == Pipeline \/ WaitFails \/ (\E o \in kernel : Complete(o)) \/ Terminated

Spec == Init /\ [][Next]_vars

\* The thread runs, and the kernel completes what was submitted to it; a wait
\* is not rescued by an error (WaitFails has no fairness).
FairSpec ==
    Spec /\ WF_vars(Pipeline) /\ WF_vars(\E o \in kernel : Complete(o))

-----------------------------------------------------------------------------
(* Properties *)

Ops == sq \cup kernel

\* The file offsets an operation writes, and those of all on their way.
RangeOf(o) == o.off .. o.off + o.len - 1
Ranges == UNION {RangeOf(o) : o \in Ops}

\* The counters that pace the pipeline are exact: `pending` SQEs are in the
\* ring, `inflight` operations are in the kernel or completed and not yet
\* accounted, and together they never exceed the queue depth (so get_sqe
\* always finds room and the completion queue cannot overflow).
PacingExact ==
    pc \notin {"out", "done"} =>
        /\ pending = Cardinality(sq)
        /\ inflight = Cardinality(kernel) + Cardinality(cq) + got
        /\ inflight + pending <= QD

\* Every byte below next_off is in the file, in one write on its way, or was
\* given back by the kernel in a short or failed write: the writer leaves no
\* gap and writes no byte twice, in whatever order the writes complete.  And
\* no write reads past its slot's buffer, whatever the callback answers after
\* the probe (BlockSize within the cap).
NoGapNoOverlap ==
    pc \notin {"out", "done"} =>
        /\ \A o \in Ops : o.len <= max_buffer_size
        /\ 0 .. next_off - 1 = stored \cup lost \cup Ranges
        /\ stored \cap Ranges = {} /\ lost \cap (stored \cup Ranges) = {}
        /\ \A a, b \in Ops : a # b => RangeOf(a) \cap RangeOf(b) = {}

\* The count of bytes is honest though the kernel may cut writes short: what
\* progress_cb is told never exceeds what is in the file, a successful call
\* returns exactly that, and total_bytes means a complete file.
ReturnTellsAll ==
    /\ written <= Cardinality(stored)
    /\ (pc = "done" /\ ret = "ok") =>
          /\ written = Cardinality(stored)
          /\ written = total_bytes => stored = 0 .. total_bytes - 1

\* The call returns.
WriteReturns == <>(pc = "done")
=============================================================================

---------------------------- MODULE CopyPipeline ----------------------------
(***************************************************************************)
(* uring_copy_path_dynamic (csrc/uring_wrap.c): the read -> write pipeline *)
(* behind copy(), copy_path() and copy_path_dynamic().  One thread primes  *)
(* up to QD reads, then reaps one completion at a time: a finished read    *)
(* becomes the write of the same slot, a finished write becomes the slot's *)
(* next read.  The kernel completes submitted operations in any order and  *)
(* concurrently with the thread.                                           *)
(*                                                                         *)
(* Source byte x is the number x, so "the right byte at the right place"   *)
(* is dst[x] = x.  `sq`, `kernel` and `cq` are sets: the kernel chooses    *)
(* the order of completions, so any CQE present may be the oldest one.     *)
(***************************************************************************)
EXTENDS Integers, FiniteSets

CONSTANTS
    MaxFileSize,   \* st_size of the source is any value up to this
    QD,            \* queue depth: ring entries and slots
    BlockSize,     \* block_size
    CbSizes,       \* what buffer_size_cb may answer; {} when it is NULL
    BufferCap,     \* the 64 MiB limit on max_buffer_size
    Faults         \* which of FaultKinds the environment may produce

FaultKinds ==
    {"setup", "submit", "wait", "io", "short_read", "short_write", "eof",
     "cancel", "ftruncate", "fsync"}

ASSUME CopyAssumption ==
    /\ MaxFileSize \in Nat
    /\ QD \in Nat \ {0}
    /\ BlockSize \in Nat \ {0}
    /\ CbSizes \subseteq Nat
    /\ BufferCap \in Nat \ {0}
    /\ Faults \subseteq FaultKinds

VARIABLES
    pc,                \* "setup", "prime", "loop", "out", "exit" or "done"
    file_size,
    max_buffer_size,
    slots,             \* slot |-> [off, len, active]
    next_off,
    inflight,
    copied,
    ret,               \* "ok" or the errno the function is about to return
    sq, kernel, cq,    \* prepared SQEs, operations in the kernel, CQEs
    buf,               \* slot |-> contents of its buffer
    dst, dstLen,       \* the destination file
    freed,             \* the slot buffers have been given to free()
    cut                \* history: an operation moved less than it was asked for

pipeVars == <<pc, file_size, max_buffer_size, slots, next_off, inflight,
              copied, ret, freed>>
vars == <<pipeVars, sq, kernel, cq, buf, dst, dstLen, cut>>

Slots == 0 .. QD - 1
Offsets == 0 .. MaxFileSize - 1
Junk == -1             \* a buffer byte or a destination byte nobody stored
Foreign == -2          \* a byte of heap memory that is no longer a slot buffer's

Lesser(a, b) == IF a < b THEN a ELSE b
Greater(a, b) == IF a > b THEN a ELSE b

Init ==
    /\ pc = "setup"
    /\ file_size \in 0 .. MaxFileSize
    /\ max_buffer_size = BlockSize
    /\ slots = [s \in Slots |-> [off |-> 0, len |-> 0, active |-> FALSE]]
    /\ next_off = 0 /\ inflight = 0 /\ copied = 0
    /\ ret = "ok"
    /\ sq = {} /\ kernel = {} /\ cq = {}
    /\ buf = [s \in Slots |-> [i \in Offsets |-> Junk]]
    /\ dst = [x \in Offsets |-> Junk] /\ dstLen = 0
    /\ freed = FALSE /\ cut = FALSE

-----------------------------------------------------------------------------
(* Choosing sizes *)

\* Faulty variant: the maximum does not start from block_size.
ProbedSizes_CbOnly ==
    IF CbSizes = {} THEN {BlockSize} ELSE {Lesser(c, BufferCap) : c \in CbSizes}

\* Probing buffer_size_cb at every block boundary: the largest answer above
\* block_size, cut at the cap.  An answer may differ from call to call.
ProbedSizes ==
    IF CbSizes = {}
    THEN {BlockSize}
    ELSE {Lesser(Greater(BlockSize, c), BufferCap) : c \in CbSizes}

\* Faulty variant: an answer above max_buffer_size is used as it is.
Wants_NoUpperCheck ==
    LET sizes == IF CbSizes = {}
                 THEN {BlockSize}
                 ELSE {IF c > 0 THEN c ELSE BlockSize : c \in CbSizes}
    IN  {Lesser(w, file_size - next_off) : w \in sizes}

\* The sizes `want` may take for the read at next_off: an answer outside
\* 1 .. max_buffer_size falls back to block_size, then the end of file cuts.
Wants ==
    LET usable(c) == c > 0 /\ c <= max_buffer_size
        sizes == IF CbSizes = {}
                 THEN {BlockSize}
                 ELSE {IF usable(c) THEN c ELSE BlockSize : c \in CbSizes}
    IN  {Lesser(w, file_size - next_off) : w \in sizes}

-----------------------------------------------------------------------------
(* Submission *)

\* Faulty variant: one entry of the ring is never used.
SqFull_OneShort == Cardinality(sq) >= QD - 1

\* io_uring_get_sqe would return NULL.
SqFull == Cardinality(sq) >= QD

ReadOp(s, want) ==
    [op |-> "read", slot |-> s, off |-> next_off, len |-> want]

\* Faulty variants: the offset the next read would get; the wrong slot.
WriteOp_NextOff(s, res) ==
    [op |-> "write", slot |-> s, off |-> next_off, len |-> res]
WriteOp_SlotZero(s, res) ==
    [op |-> "write", slot |-> 0, off |-> slots[s].off, len |-> res]

\* The write of what a read of res bytes left in slot s's buffer.
WriteOp(s, res) ==
    [op |-> "write", slot |-> s, off |-> slots[s].off, len |-> res]

\* Faulty variant: the SQEs are prepared and never submitted.
Submit_Forgotten(new) ==
    /\ sq' = sq \cup new
    /\ pc' = "loop"
    /\ UNCHANGED <<ret, kernel>>

\* io_uring_submit, after the SQEs of `new` were prepared: all of the ring's
\* SQEs go to the kernel, or the call fails and they stay where they are.
Submit(new) ==
    \/ /\ kernel' = kernel \cup sq \cup new
       /\ sq' = {}
       /\ pc' = "loop"
       /\ UNCHANGED ret
    \/ /\ "submit" \in Faults
       /\ sq' = sq \cup new
       /\ pc' = "out"
       /\ ret' = "submit"
       /\ UNCHANGED kernel

\* io_uring_get_sqe finds no room: -EAGAIN.
NoSqe ==
    /\ pc' = "out"
    /\ ret' = "EAGAIN"
    /\ UNCHANGED <<sq, kernel>>

-----------------------------------------------------------------------------
(* The pipeline thread *)

\* open, fstat, queue_init, calloc or posix_memalign fails: everything opened
\* so far is closed and no operation was ever prepared.
SetupFails ==
    /\ pc = "setup"
    /\ "setup" \in Faults
    /\ ret' = "setup"
    /\ pc' = "done"
    /\ UNCHANGED <<file_size, max_buffer_size, slots, next_off, inflight,
                   copied, freed, sq, kernel, cq, buf, dst, dstLen, cut>>

Setup ==
    /\ pc = "setup"
    /\ IF file_size = 0
       THEN pc' = "done" /\ UNCHANGED max_buffer_size
       ELSE pc' = "prime" /\ max_buffer_size' \in ProbedSizes
    /\ UNCHANGED <<file_size, slots, next_off, inflight, copied, ret, freed,
                   sq, kernel, cq, buf, dst, dstLen, cut>>

\* One turn of the priming loop; its index is the number of reads prepared.
Prime ==
    /\ pc = "prime"
    /\ inflight < QD /\ next_off < file_size
    /\ \E want \in Wants :
         /\ slots' = [slots EXCEPT ![inflight] =
                        [off |-> next_off, len |-> want, active |-> TRUE]]
         /\ IF SqFull
            THEN NoSqe /\ UNCHANGED <<inflight, next_off>>
            ELSE /\ sq' = sq \cup {ReadOp(inflight, want)}
                 /\ inflight' = inflight + 1
                 /\ next_off' = next_off + want
                 /\ UNCHANGED <<pc, ret, kernel>>
    /\ UNCHANGED <<file_size, max_buffer_size, copied, freed, cq, buf, dst,
                   dstLen, cut>>

SubmitPrimed ==
    /\ pc = "prime"
    /\ ~(inflight < QD /\ next_off < file_size)
    /\ Submit({})
    /\ UNCHANGED <<file_size, max_buffer_size, slots, next_off, inflight,
                   copied, freed, cq, buf, dst, dstLen, cut>>

\* io_uring_wait_cqe returned c and io_uring_cqe_seen consumed it.
Reaped(c) ==
    /\ pc = "loop"
    /\ inflight > 0
    /\ cq' = cq \ {c}

WaitFails ==
    /\ pc = "loop"
    /\ inflight > 0
    /\ "wait" \in Faults
    /\ ret' = "wait"
    /\ pc' = "out"
    /\ UNCHANGED <<file_size, max_buffer_size, slots, next_off, inflight,
                   copied, freed, sq, kernel, cq, buf, dst, dstLen, cut>>

\* The slot is not in use (-EIO), or the operation failed (its errno).
Rejected(c) == ~slots[c.slot].active \/ c.res < 0

CqeRejected(c) ==
    /\ Reaped(c)
    /\ Rejected(c)
    /\ inflight' = inflight - 1
    /\ ret' = IF slots[c.slot].active THEN "io" ELSE "EIO"
    /\ pc' = "out"
    /\ UNCHANGED <<file_size, max_buffer_size, slots, next_off, copied, freed,
                   sq, kernel, buf, dst, dstLen, cut>>

\* Faulty variant: the completion is not counted.
ReadEof_Uncounted(c) ==
    /\ Reaped(c)
    /\ ~Rejected(c) /\ c.op = "read" /\ c.res = 0
    /\ slots' = [slots EXCEPT ![c.slot].active = FALSE]
    /\ UNCHANGED <<pc, file_size, max_buffer_size, next_off, inflight, copied,
                   ret, freed, sq, kernel, buf, dst, dstLen, cut>>

\* A read of 0 bytes: the slot retires.
ReadEof(c) ==
    /\ Reaped(c)
    /\ ~Rejected(c) /\ c.op = "read" /\ c.res = 0
    /\ inflight' = inflight - 1
    /\ slots' = [slots EXCEPT ![c.slot].active = FALSE]
    /\ UNCHANGED <<pc, file_size, max_buffer_size, next_off, copied, ret,
                   freed, sq, kernel, buf, dst, dstLen, cut>>

\* A read of res > 0 bytes: write exactly those bytes from the same buffer.
ReadDone(c) ==
    /\ Reaped(c)
    /\ ~Rejected(c) /\ c.op = "read" /\ c.res > 0
    /\ IF SqFull
       THEN NoSqe /\ inflight' = inflight - 1
       ELSE Submit({WriteOp(c.slot, c.res)}) /\ inflight' = inflight
    /\ UNCHANGED <<file_size, max_buffer_size, slots, next_off, copied, freed,
                   buf, dst, dstLen, cut>>

\* copied += res
CountWrite(c) == copied' = copied + c.res

\* A write: count it, let progress_cb cancel, then read the next range into
\* the slot, or retire the slot when nothing is left to read.
WriteDone(c) ==
    /\ Reaped(c)
    /\ ~Rejected(c) /\ c.op = "write"
    /\ CountWrite(c)
    /\ IF next_off < file_size
       THEN \E want \in Wants :
              /\ slots' = [slots EXCEPT ![c.slot].off = next_off,
                                        ![c.slot].len = want]
              /\ IF SqFull
                 THEN /\ NoSqe
                      /\ inflight' = inflight - 1
                      /\ UNCHANGED next_off
                 ELSE /\ Submit({ReadOp(c.slot, want)})
                      /\ inflight' = inflight
                      /\ next_off' = next_off + want
       ELSE /\ slots' = [slots EXCEPT ![c.slot].active = FALSE]
            /\ inflight' = inflight - 1
            /\ UNCHANGED <<pc, ret, next_off, sq, kernel>>
    /\ UNCHANGED <<file_size, max_buffer_size, freed, buf, dst, dstLen, cut>>

\* progress_cb, called with the new `copied`, answers non-zero: -ECANCELED.
WriteCancelled(c) ==
    /\ Reaped(c)
    /\ ~Rejected(c) /\ c.op = "write"
    /\ "cancel" \in Faults
    /\ CountWrite(c)
    /\ inflight' = inflight - 1
    /\ ret' = "ECANCELED"
    /\ pc' = "out"
    /\ UNCHANGED <<file_size, max_buffer_size, slots, next_off, freed, sq,
                   kernel, buf, dst, dstLen, cut>>

\* ftruncate(dfd, copied); its failure is ignored.
Truncate ==
    \/ /\ dst' = [x \in Offsets |-> IF x < copied THEN dst[x] ELSE Junk]
       /\ dstLen' = copied
    \/ /\ "ftruncate" \in Faults
       /\ UNCHANGED <<dst, dstLen>>

\* The loop ends with nothing in flight: truncate, then fsync if asked.
Finish ==
    /\ pc = "loop"
    /\ inflight = 0
    /\ Truncate
    /\ ret' \in IF "fsync" \in Faults THEN {"ok", "fsync"} ELSE {"ok"}
    /\ pc' = "out"
    /\ UNCHANGED <<file_size, max_buffer_size, slots, next_off, inflight,
                   copied, freed, sq, kernel, cq, buf, cut>>

\* out: the buffers are freed first, also under operations still in flight ...
FreeSlots ==
    /\ pc = "out"
    /\ freed' = TRUE
    /\ pc' = "exit"
    /\ UNCHANGED <<file_size, max_buffer_size, slots, next_off, inflight,
                   copied, ret, sq, kernel, cq, buf, dst, dstLen, cut>>

\* Faulty variant: the ring is left running.
QueueExit_Skipped ==
    /\ pc = "exit"
    /\ pc' = "done"
    /\ UNCHANGED <<file_size, max_buffer_size, slots, next_off, inflight,
                   copied, ret, freed, sq, kernel, cq, buf, dst, dstLen, cut>>

\* ... then io_uring_queue_exit ends whatever is still in flight.
QueueExit ==
    /\ pc = "exit"
    /\ sq' = {} /\ kernel' = {} /\ cq' = {}
    /\ pc' = "done"
    /\ UNCHANGED <<file_size, max_buffer_size, slots, next_off, inflight,
                   copied, ret, freed, buf, dst, dstLen, cut>>

-----------------------------------------------------------------------------
(* The kernel (external): each submitted operation completes once, with the *)
(* bytes it moved or an error.                                             *)

Complete(o, res) ==
    /\ o \in kernel
    /\ kernel' = kernel \ {o}
    /\ cq' = cq \cup {[op |-> o.op, slot |-> o.slot, res |-> res]}
    /\ cut' = (cut \/ res < o.len)
    /\ UNCHANGED <<pipeVars, sq>>

ReadResults(o) ==
    {o.len} \cup (IF "short_read" \in Faults THEN 1 .. o.len ELSE {})
            \cup (IF "eof" \in Faults THEN {0} ELSE {})

WriteResults(o) ==
    {o.len} \cup (IF "short_write" \in Faults THEN 1 .. o.len ELSE {})

KernelRead(o) ==
    /\ o.op = "read"
    /\ \E res \in ReadResults(o) :
         /\ Complete(o, res)
         /\ buf' = [buf EXCEPT ![o.slot] =
                      [i \in Offsets |-> IF i < res THEN o.off + i ELSE @[i]]]
    /\ UNCHANGED <<dst, dstLen>>

\* What the kernel may find at the address of slot s's buffer: what was read
\* into it or, once free() has it, whatever the heap has put there since.
Contents(s) ==
    {buf[s]} \cup (IF freed THEN {[i \in Offsets |-> Foreign]} ELSE {})

KernelWrite(o) ==
    /\ o.op = "write"
    /\ \E res \in WriteResults(o), bytes \in Contents(o.slot) :
         /\ Complete(o, res)
         /\ dst' = [x \in Offsets |->
                      IF x \in o.off .. o.off + res - 1
                      THEN bytes[x - o.off] ELSE dst[x]]
         /\ dstLen' = Greater(dstLen, o.off + res)
    /\ UNCHANGED buf

KernelError(o) ==
    /\ "io" \in Faults
    /\ Complete(o, -1)
    /\ UNCHANGED <<buf, dst, dstLen>>

-----------------------------------------------------------------------------
Pipeline ==
    \/ SetupFails \/ Setup \/ Prime \/ SubmitPrimed
    \/ \E c \in cq : \/ CqeRejected(c) \/ ReadEof(c) \/ ReadDone(c)
                     \/ WriteDone(c) \/ WriteCancelled(c)
    \/ Finish \/ FreeSlots \/ QueueExit

Kernel ==
    \E o \in kernel : KernelRead(o) \/ KernelWrite(o) \/ KernelError(o)

Terminated == pc = "done" /\ UNCHANGED vars

Next == Pipeline \/ WaitFails \/ Kernel \/ Terminated

Spec == Init /\ [][Next]_vars

\* The thread runs, and the kernel completes what was submitted to it; a wait
\* is not rescued by an error (WaitFails has no fairness).
FairSpec == Spec /\ WF_vars(Pipeline) /\ WF_vars(Kernel)

-----------------------------------------------------------------------------
(* Properties *)

Outstanding == sq \cup kernel \cup cq

Op == [op : {"read", "write"}, slot : Slots, off : Nat, len : Nat]

Cqe == [op : {"read", "write"}, slot : Slots, res : Nat \cup {-1}]

\* The types of the variables of uring_copy_path_dynamic, its ring and its
\* two files.
TypeOK ==
    /\ pc \in {"setup", "prime", "loop", "out", "exit", "done"}
    /\ file_size \in 0 .. MaxFileSize
    /\ max_buffer_size \in Nat \ {0}
    /\ slots \in [Slots -> [off : Nat, len : Nat, active : BOOLEAN]]
    /\ next_off \in Nat /\ inflight \in Nat /\ copied \in Nat
    /\ ret \in {"ok", "EAGAIN", "EIO", "ECANCELED"} \cup FaultKinds
    /\ sq \subseteq Op /\ kernel \subseteq Op /\ cq \subseteq Cqe
    /\ buf \in [Slots -> [Offsets -> Offsets \cup {Junk}]]
    /\ dst \in [Offsets -> Offsets \cup {Junk, Foreign}]
    /\ dstLen \in Nat
    /\ freed \in BOOLEAN /\ cut \in BOOLEAN

\* A slot never has two operations outstanding (prepared, in the kernel or
\* completed but not reaped), so no buffer is read into while it is written
\* out, and only a slot marked active has any.
OneOpPerSlot ==
    /\ \A a, b \in Outstanding : a.slot = b.slot => a = b
    /\ sq \cap kernel = {}
    /\ pc # "done" => \A a \in Outstanding : slots[a.slot].active

\* `inflight`, the condition of the reaping loop, is exactly the number of
\* operations outstanding: the loop neither ends with a completion still due
\* nor waits for one that will never come.
InflightExact ==
    pc \notin {"exit", "done"} =>
        inflight = Cardinality(sq) + Cardinality(kernel) + Cardinality(cq)

\* The internal error exits are dead: get_sqe always finds room in a ring of
\* QD entries and no CQE names a slot that is not active.
NoInternalError == ret \notin {"EAGAIN", "EIO"}

\* Every byte stored in the destination is the source's byte of that offset,
\* also when reads and writes are short, fail or complete out of order.  The one
\* exception is a call about to return an error, which frees its buffers under
\* the writes still in flight: the loop never ends well with one outstanding.
DstFaithful ==
    \A x \in Offsets :
        \/ dst[x] \in {Junk, x}
        \/ dst[x] = Foreign /\ freed /\ ret \notin {"ok", "fsync"}

\* A read never asks for more bytes than its slot's buffer was allocated with.
ReadsFit ==
    \A o \in sq \cup kernel : o.op = "read" => o.len <= max_buffer_size

\* A successful call leaves a destination whose every byte is the source's.
CopyExact ==
    (pc = "done" /\ ret = "ok") =>
        /\ \A x \in 0 .. dstLen - 1 : dst[x] = x
        /\ dstLen = copied

Outcome ==
    IF pc = "done" THEN IF ret = "ok" THEN "ok" ELSE "error"
    ELSE IF freed /\ ret # "ok" THEN "failing" ELSE "running"

FC == INSTANCE FileCopy WITH size <- file_size, outcome <- Outcome

\* The pipeline implements the abstract copy: bytes land at their own offset,
\* until a failing call has freed its buffers, success means a complete copy
\* unless the kernel moved less than asked, bytes are taken back only then, and
\* nothing is stored once the call has returned.
CopyRefines == FC!FCSpec

\* The copy returns: no schedule of completions leaves it waiting.
CopyReturns == <>(pc = "done")
=============================================================================

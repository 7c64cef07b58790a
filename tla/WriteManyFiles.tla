--------------------------- MODULE WriteManyFiles ---------------------------
(***************************************************************************)
(* uring_write_manyfiles (csrc/uring_wrap.c): NFiles new files filled      *)
(* round-robin, a block at a time, with up to QD writes in flight.  The    *)
(* files are 0 .. NFiles-1; `stored[f]` is the set of offsets the kernel   *)
(* has written in file f, `lost[f]` (history) the set of those a short     *)
(* write left out: the code adds the result to `written` whatever it is    *)
(* and never sends the rest again.                                         *)
(***************************************************************************)
EXTENDS Integers, Sequences, FiniteSets, FiniteSetsExt

CONSTANTS
    NFiles,        \* nfiles
    PerFile,       \* per_file_bytes
    BlockSize,     \* block_size
    QD,            \* queue depth: slots and ring entries
    RrMod,         \* rr is an unsigned int: 2^32 in the code
    Faults         \* "setup", "submit", "wait", "io", "short", "fsync"

FaultKinds == {"setup", "submit", "wait", "io", "short", "fsync"}

ASSUME ManyFilesAssumption ==
    /\ NFiles \in Nat \ {0} /\ PerFile \in Nat \ {0}
    /\ BlockSize \in Nat \ {0} /\ QD \in Nat \ {0}
    /\ RrMod \in Nat \ {0}
    /\ Faults \subseteq FaultKinds

Files == 0 .. NFiles - 1
Slots == 0 .. QD - 1
Total == NFiles * PerFile

VARIABLES
    pc,                     \* "setup", "fill", "submit", "wait", "reap",
                            \* "end", "out", "done"
    file_off, file_done,    \* file_done: the files whose flag is set
    free_slots,             \* the stack, its top last
    inflight, written, rr,
    ret,
    sq, kernel, cq,         \* prepared SQEs, operations in the kernel, CQEs
    batch,                  \* cqes[]: the CQEs still to look at
    stored, lost

vars == <<pc, file_off, file_done, free_slots, inflight, written, rr, ret,
          sq, kernel, cq, batch, stored, lost>>

Init ==
    /\ pc = "setup"
    /\ file_off = [f \in Files |-> 0] /\ file_done = {}
    /\ free_slots = [i \in 1 .. QD |-> i - 1]
    /\ inflight = 0 /\ written = 0 /\ rr = 0
    /\ ret = "ok"
    /\ sq = {} /\ kernel = {} /\ cq = {} /\ batch = {}
    /\ stored = [f \in Files |-> {}] /\ lost = [f \in Files |-> {}]

-----------------------------------------------------------------------------
\* open, queue_init or an allocation fails: everything is undone.
SetupFails ==
    /\ pc = "setup"
    /\ "setup" \in Faults
    /\ ret' = "setup"
    /\ pc' = "done"
    /\ UNCHANGED <<file_off, file_done, free_slots, inflight, written, rr, sq,
                   kernel, cq, batch, stored, lost>>

Setup ==
    /\ pc = "setup"
    /\ pc' = "fill"
    /\ UNCHANGED <<file_off, file_done, free_slots, inflight, written, rr, ret,
                   sq, kernel, cq, batch, stored, lost>>

\* The file rr++ % nfiles names on the k-th try of a scan (k from 0).
Idx(k) == ((rr + k) % RrMod) % NFiles

\* The tries that name a file with bytes left, and the files of tries 0 .. k.
Hits == {k \in 0 .. NFiles - 1 : Idx(k) \notin file_done /\ file_off[Idx(k)] < PerFile}
Scanned(k) == {Idx(j) : j \in 0 .. k}

CanEnqueue == free_slots # <<>> /\ file_done # Files

\* Faulty variant: a ring with one entry less than the slots.
SqFull_OneShort == Cardinality(sq) >= QD - 1

SqFull == Cardinality(sq) >= QD

Pop == SubSeq(free_slots, 1, Len(free_slots) - 1)

\* A scan finds a file: its offset advances, then the write is prepared.  If
\* get_sqe fails the slot is put back, the offset stays advanced.
Enqueue ==
    /\ pc = "fill"
    /\ CanEnqueue /\ Hits # {}
    /\ LET k == Min(Hits)
           f == Idx(k)
           slot == free_slots[Len(free_slots)]
           off == file_off[f]
           len == Min({BlockSize, PerFile - off})
       IN  /\ rr' = (rr + k + 1) % RrMod
           /\ file_off' = [file_off EXCEPT ![f] = off + len]
           /\ file_done' = file_done
                  \cup {g \in Scanned(k) : file_off'[g] >= PerFile}
           /\ IF SqFull
              THEN pc' = "submit" /\ UNCHANGED <<sq, inflight, free_slots>>
              ELSE /\ sq' = sq \cup {[slot |-> slot, file |-> f, off |-> off, len |-> len]}
                   /\ inflight' = inflight + 1
                   /\ free_slots' = Pop
                   /\ UNCHANGED pc
    /\ UNCHANGED <<written, ret, kernel, cq, batch, stored, lost>>

\* The enqueueing loop ends: no slot, every file done, or a scan of nfiles
\* tries that finds nothing.
StopEnqueue ==
    /\ pc = "fill"
    /\ ~CanEnqueue \/ Hits = {}
    /\ IF CanEnqueue
       THEN /\ rr' = (rr + NFiles) % RrMod
            /\ file_done' = file_done
                   \cup {g \in Scanned(NFiles - 1) : file_off[g] >= PerFile}
       ELSE UNCHANGED <<rr, file_done>>
    /\ pc' = "submit"
    /\ UNCHANGED <<file_off, free_slots, inflight, written, ret, sq, kernel, cq,
                   batch, stored, lost>>

\* io_uring_submit; with nothing in flight the main loop is left.
Submit ==
    /\ pc = "submit"
    /\ kernel' = kernel \cup sq
    /\ sq' = {}
    /\ pc' = IF inflight = 0 THEN "end" ELSE "wait"
    /\ UNCHANGED <<file_off, file_done, free_slots, inflight, written, rr, ret,
                   cq, batch, stored, lost>>

SubmitFails ==
    /\ pc = "submit"
    /\ sq # {}
    /\ "submit" \in Faults
    /\ ret' = "submit"
    /\ pc' = "out"
    /\ UNCHANGED <<file_off, file_done, free_slots, inflight, written, rr, sq,
                   kernel, cq, batch, stored, lost>>

WaitFails ==
    /\ pc = "wait"
    /\ "wait" \in Faults
    /\ ret' = "wait"
    /\ pc' = "out"
    /\ UNCHANGED <<file_off, file_done, free_slots, inflight, written, rr, sq,
                   kernel, cq, batch, stored, lost>>

\* submit_and_wait(1), then the completions peek_batch_cqe sees; if it sees
\* none, wait_cqe delivers one.
Peek ==
    /\ pc = "wait"
    /\ \E b \in SUBSET cq \ {{}} :
         /\ batch' = b
         /\ cq' = cq \ b
    /\ pc' = "reap"
    /\ UNCHANGED <<file_off, file_done, free_slots, inflight, written, rr, ret,
                   sq, kernel, stored, lost>>

Bad(c) == c.slot >= QD \/ c.res < 0

\* Faulty variant: the slot is not returned to the stack.
Reap_KeepsSlot(c) ==
    /\ pc = "reap"
    /\ ~Bad(c)
    /\ batch' = batch \ {c}
    /\ written' = written + c.res
    /\ inflight' = inflight - 1
    /\ UNCHANGED <<pc, file_off, file_done, free_slots, rr, ret, sq, kernel, cq, stored, lost>>

\* Faulty variant: the write is not taken off inflight.
Reap_Inflight(c) ==
    /\ pc = "reap"
    /\ ~Bad(c)
    /\ batch' = batch \ {c}
    /\ written' = written + c.res
    /\ free_slots' = Append(free_slots, c.slot)
    /\ UNCHANGED <<pc, file_off, file_done, inflight, rr, ret, sq, kernel, cq, stored, lost>>

\* A completed write: counted, and its slot pushed back.
Reap(c) ==
    /\ pc = "reap"
    /\ ~Bad(c)
    /\ batch' = batch \ {c}
    /\ written' = written + c.res
    /\ inflight' = inflight - 1
    /\ free_slots' = Append(free_slots, c.slot)
    /\ UNCHANGED <<pc, file_off, file_done, rr, ret, sq, kernel, cq, stored, lost>>

\* An error result or an unknown user_data ends the call.
ReapError(c) ==
    /\ pc = "reap"
    /\ Bad(c)
    /\ batch' = batch \ {c}
    /\ ret' = IF c.slot >= QD THEN "EIO" ELSE "io"
    /\ pc' = "out"
    /\ UNCHANGED <<file_off, file_done, free_slots, inflight, written, rr, sq,
                   kernel, cq, stored, lost>>

\* Faulty variant: the main loop stops when every file is handed out.
LoopAgain_UntilDone == file_done # Files

\* The condition of the main loop.
LoopAgain == written < Total \/ inflight > 0

\* The batch is consumed; back to the head of the main loop.
BatchDone ==
    /\ pc = "reap"
    /\ batch = {}
    /\ pc' = IF LoopAgain THEN "fill" ELSE "end"
    /\ UNCHANGED <<file_off, file_done, free_slots, inflight, written, rr, ret,
                   sq, kernel, cq, batch, stored, lost>>

\* The final fsyncs.
FsyncEnd ==
    /\ pc = "end"
    /\ ret' \in IF "fsync" \in Faults THEN {"ok", "fsync"} ELSE {"ok"}
    /\ pc' = "out"
    /\ UNCHANGED <<file_off, file_done, free_slots, inflight, written, rr, sq,
                   kernel, cq, batch, stored, lost>>

\* Free, io_uring_queue_exit, close.
Exit ==
    /\ pc = "out"
    /\ sq' = {} /\ kernel' = {} /\ cq' = {}
    /\ pc' = "done"
    /\ UNCHANGED <<file_off, file_done, free_slots, inflight, written, rr, ret,
                   batch, stored, lost>>

-----------------------------------------------------------------------------
\* The kernel (external) completes a write in full or in part, or fails it.
\* `of` is history: the write a CQE is about, of which the code sees the slot.
Complete(o) ==
    /\ kernel' = kernel \ {o}
    /\ \E res \in {o.len} \cup (IF "short" \in Faults THEN 1 .. o.len ELSE {})
                          \cup (IF "io" \in Faults THEN {-1} ELSE {}) :
         /\ cq' = cq \cup {[slot |-> o.slot, res |-> res, of |-> o]}
         /\ stored' = [stored EXCEPT ![o.file] = @ \cup (o.off .. o.off + res - 1)]
         /\ lost' = IF res < 0 THEN lost
                    ELSE [lost EXCEPT ![o.file] =
                              @ \cup (o.off + res .. o.off + o.len - 1)]
    /\ UNCHANGED <<pc, file_off, file_done, free_slots, inflight, written, rr,
                   ret, sq, batch>>

-----------------------------------------------------------------------------
Writer ==
    \/ SetupFails \/ Setup \/ Enqueue \/ StopEnqueue \/ Submit \/ SubmitFails
    \/ Peek
    \/ \E c \in batch : Reap(c) \/ ReapError(c)
    \/ BatchDone \/ FsyncEnd \/ Exit

Kernel == \E o \in kernel : Complete(o)

Terminated == pc = "done" /\ UNCHANGED vars

Next == Writer \/ WaitFails \/ Kernel \/ Terminated

Spec == Init /\ [][Next]_vars

\* The thread runs, and the kernel completes what was submitted to it; a wait
\* is not rescued by an error (WaitFails has no fairness).
FairSpec == Spec /\ WF_vars(Writer) /\ WF_vars(Kernel)

-----------------------------------------------------------------------------
(* Properties *)

Running == pc \notin {"out", "done"}

Ops == sq \cup kernel
RangesIn(f) == UNION {o.off .. o.off + o.len - 1 : o \in {p \in Ops : p.file = f}}

\* Each slot is in one place: once on the free stack, or with one write that
\* is prepared, in the kernel or completed and not yet counted; inflight is
\* the number of the latter.
SlotsPartitioned ==
    Running =>
        LET used == {o.slot : o \in Ops} \cup {c.slot : c \in cq \cup batch}
            free == {free_slots[i] : i \in 1 .. Len(free_slots)}
        IN  /\ Cardinality(free) = Len(free_slots)
            /\ used \cap free = {} /\ used \cup free = Slots
            /\ Cardinality(used) = Cardinality(Ops) + Cardinality(cq \cup batch)
            /\ inflight = Cardinality(used)

\* The offset is advanced before get_sqe, which may find the ring full: yet
\* no block is skipped and none is written twice.  A byte handed out is
\* stored, or left out by a short write, or with a write not completed yet.
NoBlockLost ==
    (Running /\ \A c \in cq \cup batch : c.res >= 0) =>
        \A f \in Files :
            /\ 0 .. file_off[f] - 1 = stored[f] \cup lost[f] \cup RangesIn(f)
            /\ stored[f] \cap RangesIn(f) = {}
            /\ lost[f] \cap (stored[f] \cup RangesIn(f)) = {}

\* All bytes stored, as pairs of a file and an offset.
StoredBytes == UNION {{f} \X stored[f] : f \in Files}

\* A call that returns success has sent every byte of every file to the
\* kernel and waited for the answer: a byte that is missing is one a short
\* write left out, and the result is exactly the number of bytes stored.
AllWritten ==
    (pc = "done" /\ ret = "ok") =>
        /\ \A f \in Files : stored[f] = (0 .. PerFile - 1) \ lost[f]
        /\ written = Cardinality(StoredBytes)

\* A successful call has filled every file, as docs/USAGE.md says: true of a
\* kernel that writes what it is handed, and false after a short write.
FilesComplete ==
    (pc = "done" /\ ret = "ok") => \A f \in Files : stored[f] = 0 .. PerFile - 1

\* The call returns.
ManyReturns == <>(pc = "done")
=============================================================================

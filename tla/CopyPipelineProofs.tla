------------------------- MODULE CopyPipelineProofs -------------------------
(***************************************************************************)
(* Proofs about CopyPipeline, for every file size, queue depth, block size *)
(* and callback, and with every fault.  The inductive invariant ties each  *)
(* outstanding operation to its slot: its range is the slot's range, no    *)
(* other operation uses the slot, and the bytes last read into its buffer, *)
(* which a write will store unless the buffer is freed under it, are the   *)
(* source's bytes of that range.                                           *)
(***************************************************************************)
EXTENDS CopyPipeline, FiniteSetTheorems, TLAPS

\* Ranges stay inside the file.
InFile ==
    /\ next_off <= file_size
    /\ \A s \in Slots : slots[s].off + slots[s].len <= file_size

\* An operation not yet complete works on the range of its slot; the bytes of
\* that range are what was last read into the buffer a write points to.  (They
\* are what it stores unless the buffer has been freed: see Contents.)
OpsMatch ==
    \A o \in sq \cup kernel :
        /\ o.off = slots[o.slot].off
        /\ o.len <= slots[o.slot].len
        /\ o.op = "write" =>
              \A i \in Offsets : i < o.len => buf[o.slot][i] = o.off + i

\* A completed read left the first res bytes of the slot's range in its buffer.
CqesMatch ==
    \A c \in cq :
        /\ c.res <= slots[c.slot].len
        /\ c.op = "read" =>
              \A i \in Offsets :
                  i < c.res => buf[c.slot][i] = slots[c.slot].off + i

\* No two outstanding operations share a slot.
SlotsApart ==
    /\ \A a, b \in sq : a.slot = b.slot => a = b
    /\ \A a, b \in kernel : a.slot = b.slot => a = b
    /\ \A a, b \in cq : a.slot = b.slot => a = b
    /\ \A a \in sq, b \in kernel : a.slot # b.slot
    /\ \A a \in sq, b \in cq : a.slot # b.slot
    /\ \A a \in kernel, b \in cq : a.slot # b.slot

SlotsActive ==
    /\ \A a \in sq : slots[a.slot].active
    /\ \A a \in kernel : slots[a.slot].active
    /\ \A a \in cq : slots[a.slot].active

\* Where the submission queue can be non-empty, and how full it is.
Phases ==
    /\ pc = "setup" => sq = {} /\ kernel = {} /\ cq = {} /\ inflight = 0
    /\ pc = "prime" =>
          /\ kernel = {} /\ cq = {}
          /\ IsFiniteSet(sq) /\ Cardinality(sq) = inflight
          /\ \A o \in sq : o.slot < inflight
    /\ pc = "loop" => sq = {}
    /\ pc \in {"setup", "prime", "loop", "out"} => ~freed

\* A byte of the destination is the source's byte of that offset, or was stored
\* from a buffer that had been freed.
DstBytes ==
    \A x \in Offsets :
        dst[x] \in {Junk, x} \/ (dst[x] = Foreign /\ freed)

IndInv ==
    /\ TypeOK /\ InFile /\ OpsMatch /\ CqesMatch /\ SlotsApart /\ SlotsActive
    /\ Phases /\ DstBytes /\ NoInternalError

-----------------------------------------------------------------------------
\* Every size the pipeline asks for is a number of bytes still in the file.
LEMMA WantsInFile ==
    ASSUME TypeOK, next_off < file_size, NEW w \in Wants
    PROVE  w \in Nat /\ next_off + w <= file_size
<1> USE CopyAssumption DEF TypeOK
<1>1. file_size - next_off \in Nat
  OBVIOUS
<1>2. PICK v \in Nat : w = Lesser(v, file_size - next_off)
  <2>1. CASE CbSizes = {}
    BY <2>1 DEF Wants
  <2>2. CASE CbSizes # {}
    BY <2>2 DEF Wants
  <2> QED BY <2>1, <2>2
<1> QED BY <1>1, <1>2 DEF Lesser

\* uring_copy_path_dynamic starts in a state that satisfies the invariant.
LEMMA InitInv == Init => IndInv
<1> SUFFICES ASSUME Init PROVE IndInv
  OBVIOUS
<1> USE CopyAssumption DEF Init
<1>1. TypeOK
  BY DEF TypeOK, FaultKinds, Op, Cqe, Junk
<1>2. InFile
  BY DEF InFile
<1>3. OpsMatch /\ CqesMatch /\ SlotsApart /\ SlotsActive
  BY DEF OpsMatch, CqesMatch, SlotsApart, SlotsActive
<1>4. Phases
  BY DEF Phases
<1>5. DstBytes /\ NoInternalError
  BY DEF DstBytes, NoInternalError, Junk
<1> QED BY <1>1, <1>2, <1>3, <1>4, <1>5 DEF IndInv

\* The steps before the loop and after it, which change no slot and no buffer,
\* preserve the invariant.
LEMMA SetupFailsInv == IndInv /\ SetupFails => IndInv'
<1> SUFFICES ASSUME IndInv, SetupFails PROVE IndInv'
  OBVIOUS
<1> USE CopyAssumption DEF IndInv, SetupFails
<1>1. TypeOK'
  BY DEF TypeOK, FaultKinds
<1>2. (InFile /\ OpsMatch /\ CqesMatch /\ SlotsApart /\ SlotsActive)'
  BY DEF InFile, OpsMatch, CqesMatch, SlotsApart, SlotsActive
<1>3. Phases'
  BY DEF Phases
<1>4. (DstBytes /\ NoInternalError)'
  BY DEF DstBytes, NoInternalError
<1> QED BY <1>1, <1>2, <1>3, <1>4

\* The probe and the choice of max_buffer_size preserve the invariant.
LEMMA SetupInv == IndInv /\ Setup => IndInv'
<1> SUFFICES ASSUME IndInv, Setup PROVE IndInv'
  OBVIOUS
<1> USE CopyAssumption DEF IndInv, Setup
<1>1. max_buffer_size' \in Nat \ {0}
  <2>1. CASE max_buffer_size' \in ProbedSizes
    BY <2>1 DEF ProbedSizes, Lesser, Greater
  <2> QED BY <2>1 DEF TypeOK
<1>2. TypeOK'
  BY <1>1 DEF TypeOK
<1>3. (InFile /\ OpsMatch /\ CqesMatch /\ SlotsApart /\ SlotsActive)'
  BY DEF InFile, OpsMatch, CqesMatch, SlotsApart, SlotsActive
<1>4. Phases'
  BY FS_EmptySet DEF Phases
<1>5. (DstBytes /\ NoInternalError)'
  BY DEF DstBytes, NoInternalError
<1> QED BY <1>2, <1>3, <1>4, <1>5

\* Submitting the primed reads preserves the invariant: they move, unchanged,
\* from the ring to the kernel.
LEMMA SubmitPrimedInv == IndInv /\ SubmitPrimed => IndInv'
<1> SUFFICES ASSUME IndInv, SubmitPrimed PROVE IndInv'
  OBVIOUS
<1> USE CopyAssumption DEF IndInv, SubmitPrimed, Submit
<1>1. TypeOK'
  BY DEF TypeOK, FaultKinds
<1>2. (InFile /\ CqesMatch)'
  BY DEF InFile, CqesMatch
<1>3. OpsMatch'
  BY DEF OpsMatch
<1>4. (SlotsApart /\ SlotsActive)'
  BY DEF SlotsApart, SlotsActive, Phases
<1>5. Phases'
  BY DEF Phases
<1>6. (DstBytes /\ NoInternalError)'
  BY DEF DstBytes, NoInternalError
<1> QED BY <1>1, <1>2, <1>3, <1>4, <1>5, <1>6

\* A failed wait leaves the loop with the ring as it is.
LEMMA WaitFailsInv == IndInv /\ WaitFails => IndInv'
<1> SUFFICES ASSUME IndInv, WaitFails PROVE IndInv'
  OBVIOUS
<1> USE CopyAssumption DEF IndInv, WaitFails
<1>1. TypeOK'
  BY DEF TypeOK, FaultKinds
<1>2. (InFile /\ OpsMatch /\ CqesMatch /\ SlotsApart /\ SlotsActive)'
  BY DEF InFile, OpsMatch, CqesMatch, SlotsApart, SlotsActive
<1>3. (Phases /\ DstBytes /\ NoInternalError)'
  BY DEF Phases, DstBytes, NoInternalError
<1> QED BY <1>1, <1>2, <1>3

\* ftruncate only removes bytes of the destination.
LEMMA FinishInv == IndInv /\ Finish => IndInv'
<1> SUFFICES ASSUME IndInv, Finish PROVE IndInv'
  OBVIOUS
<1> USE CopyAssumption DEF IndInv, Finish, Truncate
<1>1. TypeOK'
  BY DEF TypeOK, FaultKinds, Junk
<1>2. (InFile /\ OpsMatch /\ CqesMatch /\ SlotsApart /\ SlotsActive)'
  BY DEF InFile, OpsMatch, CqesMatch, SlotsApart, SlotsActive
<1>3. DstBytes'
  BY DEF DstBytes, Junk
<1>4. (Phases /\ NoInternalError)'
  BY DEF Phases, NoInternalError
<1> QED BY <1>1, <1>2, <1>3, <1>4

\* Freeing the buffers changes neither the ring nor the file.
LEMMA FreeSlotsInv == IndInv /\ FreeSlots => IndInv'
<1> SUFFICES ASSUME IndInv, FreeSlots PROVE IndInv'
  OBVIOUS
<1> USE DEF IndInv, FreeSlots
<1>1. TypeOK'
  BY DEF TypeOK
<1>2. (InFile /\ OpsMatch /\ CqesMatch /\ SlotsApart /\ SlotsActive)'
  BY DEF InFile, OpsMatch, CqesMatch, SlotsApart, SlotsActive
<1>3. (Phases /\ DstBytes /\ NoInternalError)'
  BY DEF Phases, DstBytes, NoInternalError
<1> QED BY <1>1, <1>2, <1>3

\* Tearing the ring down empties it: nothing is left to match a slot.
LEMMA QueueExitInv == IndInv /\ QueueExit => IndInv'
<1> SUFFICES ASSUME IndInv, QueueExit PROVE IndInv'
  OBVIOUS
<1> USE DEF IndInv, QueueExit
<1>1. TypeOK'
  BY DEF TypeOK
<1>2. (InFile /\ OpsMatch /\ CqesMatch /\ SlotsApart /\ SlotsActive)'
  BY DEF InFile, OpsMatch, CqesMatch, SlotsApart, SlotsActive
<1>3. (Phases /\ DstBytes /\ NoInternalError)'
  BY DEF Phases, DstBytes, NoInternalError
<1> QED BY <1>1, <1>2, <1>3

\* Priming: slot `inflight` is free, so its new read shares no slot and the
\* ring has room for it.
LEMMA PrimeInv == IndInv /\ Prime => IndInv'
<1> SUFFICES ASSUME IndInv, Prime PROVE IndInv'
  OBVIOUS
<1> USE CopyAssumption DEF IndInv
<1>1. PICK want \in Wants :
         /\ slots' = [slots EXCEPT ![inflight] =
                        [off |-> next_off, len |-> want, active |-> TRUE]]
         /\ IF SqFull
            THEN NoSqe /\ UNCHANGED <<inflight, next_off>>
            ELSE /\ sq' = sq \cup {ReadOp(inflight, want)}
                 /\ inflight' = inflight + 1
                 /\ next_off' = next_off + want
                 /\ UNCHANGED <<pc, ret, kernel>>
  BY DEF Prime
<1>2. want \in Nat /\ next_off + want <= file_size
  BY WantsInFile DEF Prime
<1>3. inflight \in Slots
  BY DEF Prime, TypeOK, Slots
<1>4. IsFiniteSet(sq) /\ Cardinality(sq) = inflight /\ ~SqFull
  BY DEF Prime, Phases, SqFull, TypeOK
<1>5. /\ sq' = sq \cup {ReadOp(inflight, want)}
      /\ inflight' = inflight + 1
      /\ next_off' = next_off + want
      /\ UNCHANGED <<pc, ret, kernel>>
  BY <1>1, <1>4
<1>6. ReadOp(inflight, want) \in Op
  BY <1>2, <1>3 DEF ReadOp, Op, TypeOK
<1>7. /\ UNCHANGED <<file_size, max_buffer_size, copied, freed, cq, buf, dst,
                     dstLen, cut>>
      /\ pc = "prime" /\ kernel = {} /\ cq = {}
      /\ \A o \in sq : o.slot < inflight
  BY DEF Prime, Phases
<1>8. slots' \in [Slots -> [off : Nat, len : Nat, active : BOOLEAN]]
  BY <1>1, <1>2, <1>3 DEF TypeOK
<1>9. /\ slots'[inflight] = [off |-> next_off, len |-> want, active |-> TRUE]
      /\ \A s \in Slots : s # inflight => slots'[s] = slots[s]
  BY <1>1, <1>3 DEF TypeOK
<1>10. TypeOK'
  BY <1>2, <1>5, <1>6, <1>7, <1>8 DEF TypeOK
<1>11. InFile'
  BY <1>2, <1>5, <1>7, <1>9 DEF InFile
<1>12. OpsMatch'
  BY <1>2, <1>5, <1>7, <1>9 DEF OpsMatch, ReadOp, TypeOK, Op
<1>13. (CqesMatch /\ SlotsApart)'
  BY <1>5, <1>7 DEF CqesMatch, SlotsApart, ReadOp, TypeOK
<1>14. SlotsActive'
  BY <1>5, <1>7, <1>9 DEF SlotsActive, ReadOp, TypeOK, Op
<1>15. Phases'
  <2>1. ReadOp(inflight, want) \notin sq
    BY <1>7 DEF ReadOp, TypeOK
  <2>2. IsFiniteSet(sq') /\ Cardinality(sq') = inflight + 1
    BY <1>4, <1>5, <2>1, FS_AddElement
  <2>3. \A o \in sq' : o.slot < inflight + 1
    BY <1>5, <1>7 DEF ReadOp, TypeOK, Op, Slots
  <2> QED BY <1>5, <1>7, <2>2, <2>3 DEF Phases
<1>16. (DstBytes /\ NoInternalError)'
  BY <1>5, <1>7 DEF DstBytes, NoInternalError
<1> QED BY <1>10, <1>11, <1>12, <1>13, <1>14, <1>15, <1>16

\* A CQE that is rejected, or whose write progress_cb cancels, only leaves the
\* completion queue: its slot is active, so -EIO is never the reason.
LEMMA CqeRejectedInv ==
    ASSUME IndInv, NEW c \in cq, CqeRejected(c)
    PROVE  IndInv'
<1> USE DEF IndInv, CqeRejected, Reaped
<1>1. TypeOK'
  BY DEF TypeOK, FaultKinds
<1>2. (InFile /\ OpsMatch /\ CqesMatch /\ SlotsApart /\ SlotsActive)'
  BY DEF InFile, OpsMatch, CqesMatch, SlotsApart, SlotsActive
<1>3. NoInternalError'
  BY DEF NoInternalError, SlotsActive
<1>4. (Phases /\ DstBytes)'
  BY DEF Phases, DstBytes
<1> QED BY <1>1, <1>2, <1>3, <1>4

\* A cancelling progress callback consumes one CQE and prepares nothing.
LEMMA WriteCancelledInv ==
    ASSUME IndInv, NEW c \in cq, WriteCancelled(c)
    PROVE  IndInv'
<1> USE DEF IndInv, WriteCancelled, Reaped
<1>1. copied' \in Nat
  BY DEF TypeOK, Cqe, Rejected, CountWrite
<1>2. TypeOK'
  BY <1>1 DEF TypeOK, FaultKinds
<1>3. (InFile /\ OpsMatch /\ CqesMatch /\ SlotsApart /\ SlotsActive)'
  BY DEF InFile, OpsMatch, CqesMatch, SlotsApart, SlotsActive
<1>4. (Phases /\ DstBytes /\ NoInternalError)'
  BY DEF Phases, DstBytes, NoInternalError
<1> QED BY <1>2, <1>3, <1>4

\* A slot that retires has no other operation outstanding.
LEMMA ReadEofInv ==
    ASSUME IndInv, NEW c \in cq, ReadEof(c)
    PROVE  IndInv'
<1> USE DEF IndInv, ReadEof, Reaped
<1>1. c.slot \in Slots
  BY DEF TypeOK, Cqe
<1>2. /\ slots' \in [Slots -> [off : Nat, len : Nat, active : BOOLEAN]]
      /\ \A s \in Slots : slots'[s].off = slots[s].off
                          /\ slots'[s].len = slots[s].len
      /\ \A s \in Slots : s # c.slot => slots'[s] = slots[s]
  BY <1>1 DEF TypeOK
<1>3. TypeOK'
  BY <1>2 DEF TypeOK
<1>4. (InFile /\ OpsMatch /\ CqesMatch)'
  BY <1>2 DEF InFile, OpsMatch, CqesMatch, TypeOK, Op, Cqe
<1>5. SlotsApart'
  BY DEF SlotsApart
<1>6. SlotsActive'
  BY <1>2 DEF SlotsActive, SlotsApart, TypeOK, Op, Cqe
<1>7. (Phases /\ DstBytes /\ NoInternalError)'
  BY DEF Phases, DstBytes, NoInternalError
<1> QED BY <1>3, <1>4, <1>5, <1>6, <1>7

\* The write that follows a read takes over the read's slot, and the bytes it
\* will store are the ones the read left in the buffer.
LEMMA ReadDoneInv ==
    ASSUME IndInv, NEW c \in cq, ReadDone(c)
    PROVE  IndInv'
<1> DEFINE w == WriteOp(c.slot, c.res)
<1> USE CopyAssumption DEF IndInv
<1>1. /\ pc = "loop" /\ inflight > 0 /\ cq' = cq \ {c} /\ sq = {}
      /\ c.op = "read" /\ c.res > 0 /\ c.slot \in Slots /\ c.res \in Nat
      /\ UNCHANGED <<file_size, max_buffer_size, slots, next_off, copied,
                     freed, buf, dst, dstLen, cut>>
  BY DEF ReadDone, Reaped, Phases, TypeOK, Cqe
<1>2. ~SqFull
  BY <1>1, FS_EmptySet DEF SqFull
<1>3. Submit({w}) /\ inflight' = inflight
  BY <1>2 DEF ReadDone
<1>4. /\ kernel' \cup sq' = kernel \cup {w}
      /\ kernel' = kernel \/ kernel' = kernel \cup {w}
      /\ sq' = {} \/ (sq' = {w} /\ kernel' = kernel)
      /\ sq' = {w} => pc' = "out"
      /\ pc' \in {"loop", "out"}
      /\ ret' \in {ret, "submit"}
  BY <1>1, <1>3 DEF Submit
<1>5. /\ w \in Op /\ w.slot = c.slot /\ w.op = "write"
      /\ w.off = slots[c.slot].off /\ w.len = c.res
  BY <1>1 DEF WriteOp, Op, TypeOK
<1>6. TypeOK'
  BY <1>1, <1>3, <1>4, <1>5 DEF TypeOK, FaultKinds
<1>7. (InFile /\ CqesMatch)'
  BY <1>1 DEF InFile, CqesMatch
<1>8. OpsMatch'
  BY <1>1, <1>4, <1>5 DEF OpsMatch, CqesMatch
<1>9. SlotsApart'
  BY <1>1, <1>4, <1>5 DEF SlotsApart
<1>10. SlotsActive'
  BY <1>1, <1>4, <1>5 DEF SlotsActive
<1>11. (Phases /\ DstBytes /\ NoInternalError)'
  BY <1>1, <1>4 DEF Phases, DstBytes, NoInternalError
<1> QED BY <1>6, <1>7, <1>8, <1>9, <1>10, <1>11

\* After a write the slot moves to the next range; no operation still refers
\* to its old one.
LEMMA WriteDoneInv ==
    ASSUME IndInv, NEW c \in cq, WriteDone(c)
    PROVE  IndInv'
<1> USE CopyAssumption DEF IndInv
<1>1. /\ pc = "loop" /\ inflight > 0 /\ cq' = cq \ {c} /\ sq = {}
      /\ c.slot \in Slots /\ copied' \in Nat
      /\ UNCHANGED <<file_size, max_buffer_size, freed, buf, dst, dstLen, cut>>
  BY DEF WriteDone, Reaped, Phases, TypeOK, Cqe, CountWrite, Rejected
<1>2. CASE ~(next_off < file_size)
  <2>1. /\ slots' = [slots EXCEPT ![c.slot].active = FALSE]
        /\ inflight' = inflight - 1
        /\ UNCHANGED <<pc, ret, next_off, sq, kernel>>
    BY <1>2 DEF WriteDone
  <2>2. /\ slots' \in [Slots -> [off : Nat, len : Nat, active : BOOLEAN]]
        /\ \A s \in Slots : slots'[s].off = slots[s].off
                            /\ slots'[s].len = slots[s].len
        /\ \A s \in Slots : s # c.slot => slots'[s] = slots[s]
    BY <1>1, <2>1 DEF TypeOK
  <2>3. TypeOK'
    BY <1>1, <2>1, <2>2 DEF TypeOK
  <2>4. (InFile /\ OpsMatch /\ CqesMatch)'
    BY <1>1, <2>1, <2>2 DEF InFile, OpsMatch, CqesMatch, TypeOK, Op, Cqe
  <2>5. SlotsApart'
    BY <1>1, <2>1 DEF SlotsApart
  <2>6. SlotsActive'
    BY <1>1, <2>1, <2>2 DEF SlotsActive, SlotsApart, TypeOK, Op, Cqe
  <2>7. (Phases /\ DstBytes /\ NoInternalError)'
    BY <1>1, <2>1 DEF Phases, DstBytes, NoInternalError
  <2> QED BY <2>3, <2>4, <2>5, <2>6, <2>7
<1>3. CASE next_off < file_size
  <2>1. ~SqFull
    BY <1>1, FS_EmptySet DEF SqFull
  <2>2. PICK want \in Wants :
           /\ slots' = [slots EXCEPT ![c.slot].off = next_off,
                                     ![c.slot].len = want]
           /\ Submit({ReadOp(c.slot, want)})
           /\ inflight' = inflight
           /\ next_off' = next_off + want
    BY <1>3, <2>1 DEF WriteDone
  <2>3. want \in Nat /\ next_off + want <= file_size
    BY <1>3, WantsInFile
  <2> DEFINE r == ReadOp(c.slot, want)
  <2>4. /\ kernel' \cup sq' = kernel \cup {r}
        /\ kernel' = kernel \/ kernel' = kernel \cup {r}
        /\ sq' = {} \/ (sq' = {r} /\ kernel' = kernel)
        /\ sq' = {r} => pc' = "out"
        /\ pc' \in {"loop", "out"}
        /\ ret' \in {ret, "submit"}
    BY <1>1, <2>2 DEF Submit
  <2>5. /\ r \in Op /\ r.slot = c.slot /\ r.op = "read"
        /\ r.off = next_off /\ r.len = want
    BY <1>1, <2>3 DEF ReadOp, Op, TypeOK
  <2>6. /\ slots' \in [Slots -> [off : Nat, len : Nat, active : BOOLEAN]]
        /\ slots'[c.slot].off = next_off /\ slots'[c.slot].len = want
        /\ slots'[c.slot].active = slots[c.slot].active
        /\ \A s \in Slots : s # c.slot => slots'[s] = slots[s]
    BY <1>1, <2>2, <2>3 DEF TypeOK
  <2>7. /\ \A o \in kernel : o.slot \in Slots /\ o.slot # c.slot
        /\ \A d \in cq' : d.slot \in Slots /\ d.slot # c.slot
    BY <1>1 DEF SlotsApart, TypeOK, Op, Cqe
  <2>8. TypeOK'
    BY <1>1, <2>2, <2>3, <2>4, <2>5, <2>6 DEF TypeOK, FaultKinds
  <2>9. InFile'
    BY <1>1, <2>2, <2>3, <2>6 DEF InFile
  <2>10. OpsMatch'
    BY <1>1, <2>3, <2>4, <2>5, <2>6, <2>7 DEF OpsMatch
  <2>11. CqesMatch'
    BY <1>1, <2>6, <2>7 DEF CqesMatch
  <2>12. SlotsApart'
    BY <1>1, <2>4, <2>5, <2>7 DEF SlotsApart
  <2>13. SlotsActive'
    BY <1>1, <2>4, <2>5, <2>6, <2>7 DEF SlotsActive
  <2>14. (Phases /\ DstBytes /\ NoInternalError)'
    BY <1>1, <2>4 DEF Phases, DstBytes, NoInternalError
  <2> QED BY <2>8, <2>9, <2>10, <2>11, <2>12, <2>13, <2>14
<1> QED BY <1>2, <1>3

-----------------------------------------------------------------------------
\* The part of the invariant that does not speak of buffers and files follows
\* whenever one operation moves from the kernel to the completion queue.
LEMMA CompleteKeeps ==
    ASSUME IndInv, NEW o \in kernel, NEW res \in Nat \cup {-1},
           Complete(o, res), res <= o.len
    PROVE  /\ (SlotsApart /\ SlotsActive /\ Phases /\ InFile /\ NoInternalError)'
           /\ kernel' \subseteq Op /\ cq' \subseteq Cqe /\ cut' \in BOOLEAN
           /\ UNCHANGED <<pipeVars, sq>>
<1> DEFINE q == [op |-> o.op, slot |-> o.slot, res |-> res]
<1> USE DEF IndInv, Complete
<1>1. o \in Op /\ q \in Cqe
  BY DEF TypeOK, Op, Cqe
<1>2. kernel' = kernel \ {o} /\ cq' = cq \cup {q} /\ q.slot = o.slot
  OBVIOUS
<1>3. UNCHANGED <<pipeVars, sq>>
  OBVIOUS
<1>4. UNCHANGED <<pc, file_size, slots, next_off, inflight, ret, freed, sq>>
  BY <1>3 DEF pipeVars
<1>5. kernel' \subseteq Op /\ cq' \subseteq Cqe /\ cut' \in BOOLEAN
  BY <1>1, <1>2 DEF TypeOK
<1>6. SlotsApart'
  BY <1>2, <1>4 DEF SlotsApart
<1>7. SlotsActive'
  BY <1>2, <1>4 DEF SlotsActive
<1>8. (Phases /\ InFile /\ NoInternalError)'
  BY <1>2, <1>4 DEF Phases, InFile, NoInternalError
<1> QED BY <1>3, <1>5, <1>6, <1>7, <1>8

\* A read fills the buffer of its own slot, which no write is using.
LEMMA KernelReadInv ==
    ASSUME IndInv, NEW o \in kernel, KernelRead(o)
    PROVE  IndInv'
<1> USE CopyAssumption DEF IndInv
<1>1. PICK res \in ReadResults(o) :
         /\ Complete(o, res)
         /\ buf' = [buf EXCEPT ![o.slot] =
                      [i \in Offsets |-> IF i < res THEN o.off + i ELSE @[i]]]
  BY DEF KernelRead
<1>2. o \in Op /\ o.op = "read" /\ UNCHANGED <<dst, dstLen>>
  BY DEF KernelRead, TypeOK
<1>3. res \in Nat /\ res <= o.len
  BY <1>2 DEF ReadResults, Op
<1>4. /\ (SlotsApart /\ SlotsActive /\ Phases /\ InFile /\ NoInternalError)'
      /\ kernel' \subseteq Op /\ cq' \subseteq Cqe /\ cut' \in BOOLEAN
      /\ UNCHANGED <<pipeVars, sq>>
  BY <1>1, <1>3, CompleteKeeps
<1>5. UNCHANGED <<pc, file_size, max_buffer_size, slots, next_off, inflight,
                  copied, ret, freed, sq>>
  BY <1>4 DEF pipeVars
<1>6. /\ kernel' = kernel \ {o}
      /\ cq' = cq \cup {[op |-> "read", slot |-> o.slot, res |-> res]}
  BY <1>1, <1>2 DEF Complete
<1>7. o.slot \in Slots /\ o.off = slots[o.slot].off
      /\ o.len <= slots[o.slot].len /\ o.off \in Nat /\ o.len \in Nat
  BY <1>2 DEF OpsMatch, Op
<1>8. /\ \A i \in Offsets : buf'[o.slot][i] =
                              IF i < res THEN o.off + i ELSE buf[o.slot][i]
      /\ \A s \in Slots : s # o.slot => buf'[s] = buf[s]
  BY <1>1, <1>7 DEF TypeOK
<1>9. buf' \in [Slots -> [Offsets -> Offsets \cup {Junk}]]
  <2>1. \A i \in Offsets : i < res => o.off + i \in Offsets
    BY <1>3, <1>7 DEF InFile, TypeOK, Offsets
  <2> QED BY <1>1, <1>7, <2>1 DEF TypeOK
<1>10. TypeOK'
  BY <1>2, <1>4, <1>5, <1>9 DEF TypeOK
<1>11. OpsMatch'
  <2>1. \A a \in sq' \cup kernel' : a \in sq \cup kernel /\ a.slot \in Slots
                                    /\ a.slot # o.slot
    BY <1>5, <1>6 DEF SlotsApart, TypeOK, Op
  <2> QED BY <1>5, <1>8, <2>1 DEF OpsMatch
<1>12. CqesMatch'
  <2>1. \A d \in cq : d.slot \in Slots /\ d.slot # o.slot
    BY DEF SlotsApart, TypeOK, Cqe
  <2> SUFFICES ASSUME NEW d \in cq'
               PROVE  /\ d.res <= slots[d.slot].len
                      /\ d.op = "read" => \A i \in Offsets :
                           i < d.res => buf'[d.slot][i] = slots[d.slot].off + i
    BY <1>5 DEF CqesMatch
  <2>2. CASE d \in cq
    BY <1>8, <2>1, <2>2 DEF CqesMatch
  <2>3. CASE d = [op |-> "read", slot |-> o.slot, res |-> res]
    <3>1. d.res = res /\ d.slot = o.slot
      BY <2>3
    <3>2. d.res <= slots[d.slot].len
      BY <1>3, <1>7, <3>1 DEF TypeOK
    <3> QED BY <1>7, <1>8, <3>1, <3>2
  <2> QED BY <1>6, <2>2, <2>3
<1>13. DstBytes'
  BY <1>2, <1>5 DEF DstBytes
<1> QED BY <1>4, <1>10, <1>11, <1>12, <1>13

\* A write stores, at each offset of its range, the source byte of that offset,
\* unless its buffer was freed under it.
LEMMA KernelWriteInv ==
    ASSUME IndInv, NEW o \in kernel, KernelWrite(o)
    PROVE  IndInv'
<1> USE CopyAssumption DEF IndInv
<1>1. PICK res \in WriteResults(o), bytes \in Contents(o.slot) :
         /\ Complete(o, res)
         /\ dst' = [x \in Offsets |->
                      IF x \in o.off .. o.off + res - 1
                      THEN bytes[x - o.off] ELSE dst[x]]
         /\ dstLen' = Greater(dstLen, o.off + res)
  BY DEF KernelWrite
<1>2. o \in Op /\ o.op = "write" /\ UNCHANGED buf
  BY DEF KernelWrite, TypeOK
<1>3. res \in Nat /\ res <= o.len
  BY <1>2 DEF WriteResults, Op
<1>4. /\ (SlotsApart /\ SlotsActive /\ Phases /\ InFile /\ NoInternalError)'
      /\ kernel' \subseteq Op /\ cq' \subseteq Cqe /\ cut' \in BOOLEAN
      /\ UNCHANGED <<pipeVars, sq>>
  BY <1>1, <1>3, CompleteKeeps
<1>5. UNCHANGED <<pc, file_size, max_buffer_size, slots, next_off, inflight,
                  copied, ret, freed, sq>>
  BY <1>4 DEF pipeVars
<1>6. /\ kernel' = kernel \ {o}
      /\ cq' = cq \cup {[op |-> "write", slot |-> o.slot, res |-> res]}
  BY <1>1, <1>2 DEF Complete
<1>7. o.slot \in Slots /\ o.len <= slots[o.slot].len
      /\ o.off \in Nat /\ o.len \in Nat
  BY <1>2 DEF OpsMatch, Op
<1>8. \A x \in Offsets : x \in o.off .. o.off + res - 1 =>
                           \/ bytes[x - o.off] = x
                           \/ bytes[x - o.off] = Foreign /\ freed
  <2> SUFFICES ASSUME NEW x \in Offsets, x \in o.off .. o.off + res - 1
               PROVE  \/ bytes[x - o.off] = x
                      \/ bytes[x - o.off] = Foreign /\ freed
    OBVIOUS
  <2>1. x - o.off \in Offsets /\ x - o.off < o.len
    BY <1>3, <1>7 DEF Offsets
  <2>2. buf[o.slot][x - o.off] = x
    BY <1>2, <1>7, <2>1 DEF OpsMatch, Offsets
  <2> QED BY <2>1, <2>2 DEF Contents
<1>9. \A x \in Offsets : \/ dst'[x] \in {Junk, x}
                         \/ dst'[x] = Foreign /\ freed
  BY <1>1, <1>8 DEF DstBytes
<1>10. dst' \in [Offsets -> Offsets \cup {Junk, Foreign}] /\ dstLen' \in Nat
  <2>1. dstLen' \in Nat
    BY <1>1, <1>3, <1>7 DEF Greater, TypeOK
  <2> QED BY <1>1, <1>9, <2>1
<1>11. TypeOK'
  BY <1>2, <1>4, <1>5, <1>10 DEF TypeOK
<1>12. OpsMatch'
  BY <1>2, <1>5, <1>6 DEF OpsMatch
<1>13. CqesMatch'
  <2>1. res <= slots[o.slot].len
    BY <1>3, <1>7 DEF TypeOK
  <2> QED BY <1>2, <1>5, <1>6, <2>1 DEF CqesMatch
<1>14. DstBytes'
  BY <1>5, <1>9 DEF DstBytes
<1> QED BY <1>4, <1>11, <1>12, <1>13, <1>14

\* A failing operation leaves the kernel with an error CQE for its slot.
LEMMA KernelErrorInv ==
    ASSUME IndInv, NEW o \in kernel, KernelError(o)
    PROVE  IndInv'
<1> USE CopyAssumption DEF IndInv
<1>1. Complete(o, -1) /\ UNCHANGED <<buf, dst, dstLen>>
  BY DEF KernelError
<1>2. o \in Op
  BY DEF TypeOK
<1>3. /\ (SlotsApart /\ SlotsActive /\ Phases /\ InFile /\ NoInternalError)'
      /\ kernel' \subseteq Op /\ cq' \subseteq Cqe /\ cut' \in BOOLEAN
      /\ UNCHANGED <<pipeVars, sq>>
  <2>1. -1 \in Nat \cup {-1} /\ -1 <= o.len
    BY <1>2 DEF Op
  <2> QED BY <1>1, <2>1, CompleteKeeps
<1>4. UNCHANGED <<pc, file_size, max_buffer_size, slots, next_off, inflight,
                  copied, ret, freed, sq>>
  BY <1>3 DEF pipeVars
<1>5. /\ kernel' = kernel \ {o}
      /\ cq' = cq \cup {[op |-> o.op, slot |-> o.slot, res |-> -1]}
  BY <1>1 DEF Complete
<1>6. TypeOK'
  BY <1>1, <1>3, <1>4 DEF TypeOK
<1>7. OpsMatch'
  BY <1>1, <1>4, <1>5 DEF OpsMatch
<1>8. CqesMatch'
  <2>1. -1 <= slots[o.slot].len /\ o.slot \in Slots
    BY <1>2 DEF TypeOK, Op
  <2>2. \A i \in Offsets : ~(i < -1)
    BY DEF Offsets
  <2> QED BY <1>1, <1>4, <1>5, <2>1, <2>2 DEF CqesMatch
<1>9. DstBytes'
  BY <1>1, <1>4 DEF DstBytes
<1> QED BY <1>3, <1>6, <1>7, <1>8, <1>9

-----------------------------------------------------------------------------
\* Every step of the thread and of the kernel preserves the invariant.
LEMMA NextInv == IndInv /\ [Next]_vars => IndInv'
<1> SUFFICES ASSUME IndInv, [Next]_vars PROVE IndInv'
  OBVIOUS
<1>1. CASE Pipeline
  BY <1>1, SetupFailsInv, SetupInv, PrimeInv, SubmitPrimedInv, CqeRejectedInv,
     ReadEofInv, ReadDoneInv, WriteDoneInv, WriteCancelledInv,
     FinishInv, FreeSlotsInv, QueueExitInv
  DEF Pipeline
<1>2. CASE WaitFails
  BY <1>2, WaitFailsInv
<1>3. CASE Kernel
  BY <1>3, KernelReadInv, KernelWriteInv, KernelErrorInv DEF Kernel
<1>4. CASE UNCHANGED vars
  BY <1>4 DEF vars, pipeVars, IndInv, TypeOK, InFile, OpsMatch, CqesMatch,
              SlotsApart, SlotsActive, Phases, DstBytes, NoInternalError
<1> QED BY <1>1, <1>2, <1>3, <1>4 DEF Next, Terminated

\* The invariant holds throughout.
THEOREM CopyInvariant == Spec => []IndInv
<1>1. Init => IndInv
  BY InitInv
<1>2. IndInv /\ [Next]_vars => IndInv'
  BY NextInv
<1> QED BY <1>1, <1>2, PTL DEF Spec

\* The variables of uring_copy_path_dynamic keep their types.
THEOREM CopyTypeOK == Spec => []TypeOK
<1>1. IndInv => TypeOK
  BY DEF IndInv
<1> QED BY <1>1, CopyInvariant, PTL

\* The -EAGAIN and -EIO exits of the reaping loop are never taken.
THEOREM CopyNoInternalError == Spec => []NoInternalError
<1>1. IndInv => NoInternalError
  BY DEF IndInv
<1> QED BY <1>1, CopyInvariant, PTL

\* A slot, and so a buffer, has at most one operation outstanding.
THEOREM CopyOneOpPerSlot == Spec => []OneOpPerSlot
<1>1. IndInv => OneOpPerSlot
  BY DEF IndInv, OneOpPerSlot, Outstanding, SlotsApart, SlotsActive
<1> QED BY <1>1, CopyInvariant, PTL

-----------------------------------------------------------------------------
(* Counting: `inflight` is the number of operations outstanding.            *)

CountInv ==
    /\ IsFiniteSet(sq) /\ IsFiniteSet(kernel) /\ IsFiniteSet(cq)
    /\ InflightExact

\* Every step keeps `inflight` equal to the number of operations outstanding:
\* one leaves the ring for each that is counted out.
LEMMA CountNext == IndInv /\ CountInv /\ [Next]_vars => CountInv'
<1> SUFFICES ASSUME IndInv, CountInv, [Next]_vars PROVE CountInv'
  OBVIOUS
<1> USE CopyAssumption
<1>t. TypeOK /\ TypeOK'
  BY NextInv DEF IndInv
<1>f. /\ IsFiniteSet(sq) /\ IsFiniteSet(kernel) /\ IsFiniteSet(cq)
      /\ Cardinality(sq) \in Nat /\ Cardinality(kernel) \in Nat
      /\ Cardinality(cq) \in Nat
  BY FS_CardinalityType DEF CountInv
\* The steps that move nothing.
<1>1. CASE SetupFails \/ Setup \/ WaitFails \/ Finish \/ FreeSlots
           \/ UNCHANGED vars
  BY <1>1 DEF SetupFails, Setup, WaitFails, Finish, FreeSlots, vars, pipeVars,
              CountInv, InflightExact
<1>2. CASE QueueExit
  BY <1>2, FS_EmptySet DEF QueueExit, CountInv, InflightExact
<1>3. CASE Prime
  <2>1. PICK want : /\ ~SqFull
                    /\ sq' = sq \cup {ReadOp(inflight, want)}
                    /\ inflight' = inflight + 1
    BY <1>3 DEF Prime, IndInv, Phases, SqFull, TypeOK
  <2>2. ReadOp(inflight, want) \notin sq
    BY <1>3 DEF ReadOp, Prime, IndInv, Phases, TypeOK
  <2>3. IsFiniteSet(sq') /\ Cardinality(sq') = Cardinality(sq) + 1
    BY <1>f, <2>1, <2>2, FS_AddElement
  <2>4. kernel' = kernel /\ cq' = cq /\ pc = "prime" /\ pc' = "prime"
    BY <1>3, <2>1 DEF Prime
  <2> QED BY <1>f, <1>t, <2>1, <2>3, <2>4 DEF CountInv, InflightExact, TypeOK
<1>4. CASE SubmitPrimed
  <2>1. /\ pc = "prime" /\ kernel = {} /\ cq = {} /\ cq' = cq
        /\ inflight' = inflight
        /\ (kernel' = sq /\ sq' = {}) \/ (sq' = sq /\ kernel' = kernel)
    BY <1>4 DEF SubmitPrimed, Submit, IndInv, Phases
  <2>2. Cardinality({}) = 0 /\ IsFiniteSet({})
    BY FS_EmptySet
  <2>3. pc' \in {"loop", "out"} /\ inflight = Cardinality(sq)
    BY <1>4, <1>f, <2>1, <2>2 DEF SubmitPrimed, Submit, CountInv, InflightExact
  <2>4. CASE kernel' = sq /\ sq' = {}
    BY <1>f, <2>1, <2>2, <2>3, <2>4 DEF CountInv, InflightExact
  <2>5. CASE sq' = sq /\ kernel' = kernel
    BY <1>f, <2>1, <2>2, <2>3, <2>5 DEF CountInv, InflightExact
  <2> QED BY <2>1, <2>4, <2>5
\* One CQE is consumed and nothing prepared.
<1>5. ASSUME NEW c \in cq, CqeRejected(c) \/ ReadEof(c) \/ WriteCancelled(c)
      PROVE  CountInv'
  <2>1. /\ pc = "loop" /\ cq' = cq \ {c} /\ inflight' = inflight - 1
        /\ UNCHANGED <<sq, kernel>>
    BY <1>5 DEF CqeRejected, ReadEof, WriteCancelled, Reaped
  <2>2. IsFiniteSet(cq') /\ Cardinality(cq') = Cardinality(cq) - 1
    BY <1>f, <2>1, FS_RemoveElement
  <2> QED BY <1>f, <1>t, <2>1, <2>2 DEF CountInv, InflightExact, TypeOK
\* One CQE is consumed and one operation prepared in its place.
<1>6. ASSUME NEW c \in cq, NEW op, op.slot = c.slot, Reaped(c), Submit({op}),
             inflight' = inflight
      PROVE  CountInv'
  <2>1. pc = "loop" /\ sq = {} /\ cq' = cq \ {c}
    BY <1>6 DEF Reaped, IndInv, Phases
  <2>2. op \notin kernel
    BY <1>6 DEF IndInv, SlotsApart
  <2>3. IsFiniteSet(cq') /\ Cardinality(cq') = Cardinality(cq) - 1
    BY <1>f, <2>1, FS_RemoveElement
  <2>4. /\ IsFiniteSet(kernel \cup {op})
        /\ Cardinality(kernel \cup {op}) = Cardinality(kernel) + 1
        /\ IsFiniteSet({op}) /\ Cardinality({op}) = 1
        /\ IsFiniteSet({}) /\ Cardinality({}) = 0
    BY <1>f, <2>2, FS_AddElement, FS_EmptySet, FS_Singleton
  <2>5. CASE kernel' = kernel \cup {op} /\ sq' = {}
    BY <1>6, <1>f, <1>t, <2>1, <2>3, <2>4, <2>5
    DEF CountInv, InflightExact, TypeOK
  <2>6. CASE kernel' = kernel /\ sq' = {op}
    BY <1>6, <1>f, <1>t, <2>1, <2>3, <2>4, <2>6
    DEF CountInv, InflightExact, TypeOK
  <2> QED BY <1>6, <2>1, <2>5, <2>6 DEF Submit
<1>s. pc = "loop" => ~SqFull
  BY FS_EmptySet DEF IndInv, Phases, SqFull
<1>7. ASSUME NEW c \in cq, ReadDone(c)
      PROVE  CountInv'
  <2>1. /\ Reaped(c) /\ Submit({WriteOp(c.slot, c.res)})
        /\ inflight' = inflight
    BY <1>7, <1>s DEF ReadDone, Reaped
  <2> QED BY <1>6, <2>1 DEF WriteOp
<1>8. ASSUME NEW c \in cq, WriteDone(c)
      PROVE  CountInv'
  <2>1. CASE next_off < file_size
    <3>1. PICK want \in Wants : /\ Submit({ReadOp(c.slot, want)})
                                /\ inflight' = inflight
      BY <1>8, <1>s, <2>1 DEF WriteDone, Reaped
    <3> QED BY <1>6, <1>8, <3>1 DEF ReadOp, WriteDone
  <2>2. CASE ~(next_off < file_size)
    <3>1. /\ pc = "loop" /\ cq' = cq \ {c} /\ inflight' = inflight - 1
          /\ UNCHANGED <<sq, kernel>>
      BY <1>8, <2>2 DEF WriteDone, Reaped
    <3>2. IsFiniteSet(cq') /\ Cardinality(cq') = Cardinality(cq) - 1
      BY <1>f, <3>1, FS_RemoveElement
    <3> QED BY <1>f, <1>t, <3>1, <3>2 DEF CountInv, InflightExact, TypeOK
  <2> QED BY <2>1, <2>2
\* One operation moves from the kernel to the completion queue.
<1>9. ASSUME NEW o \in kernel, NEW res, Complete(o, res)
      PROVE  CountInv'
  <2> DEFINE q == [op |-> o.op, slot |-> o.slot, res |-> res]
  <2>1. /\ kernel' = kernel \ {o} /\ cq' = cq \cup {q}
        /\ UNCHANGED <<sq, pc, inflight>>
    BY <1>9 DEF Complete, pipeVars
  <2>2. q.slot = o.slot /\ q \notin cq
    BY DEF IndInv, SlotsApart
  <2>3. /\ IsFiniteSet(kernel') /\ Cardinality(kernel') = Cardinality(kernel) - 1
        /\ IsFiniteSet(cq') /\ Cardinality(cq') = Cardinality(cq) + 1
    BY <1>f, <2>1, <2>2, FS_AddElement, FS_RemoveElement
  <2> HIDE DEF q
  <2> QED BY <1>f, <1>t, <2>1, <2>3 DEF CountInv, InflightExact, TypeOK
<1>10. CASE Kernel
  BY <1>9, <1>10 DEF Kernel, KernelRead, KernelWrite, KernelError
<1> QED
  BY <1>1, <1>2, <1>3, <1>4, <1>5, <1>7, <1>8, <1>10
  DEF Next, Pipeline, Terminated

\* The condition of the reaping loop is exact: it neither ends with a
\* completion still due nor waits for one that will never come.
THEOREM CopyInflightExact == Spec => []InflightExact
<1>1. Init => CountInv
  BY FS_EmptySet DEF Init, CountInv, InflightExact
<1>2. CountInv => InflightExact
  BY DEF CountInv
<1> QED BY <1>1, <1>2, CountNext, CopyInvariant, PTL DEF Spec

-----------------------------------------------------------------------------
\* The sizes asked for fit buffers at least as large as a block.
LEMMA WantsFit ==
    ASSUME TypeOK, next_off < file_size, BlockSize <= max_buffer_size,
           NEW w \in Wants
    PROVE  w <= max_buffer_size
<1> USE CopyAssumption DEF TypeOK
<1>1. PICK v \in Nat : v <= max_buffer_size /\ w = Lesser(v, file_size - next_off)
  BY DEF Wants
<1> QED BY <1>1 DEF Lesser

\* With blocks within the cap, no read is longer than the buffers allocated,
\* whatever the callback answers after it was probed.
THEOREM CopyReadsFit ==
    ASSUME BlockSize <= BufferCap
    PROVE  Spec => []ReadsFit
<1> DEFINE Fit == BlockSize <= max_buffer_size /\ ReadsFit
<1> USE CopyAssumption
<1>1. Init => Fit
  BY DEF Init, ReadsFit
<1>2. ASSUME IndInv, Fit, [Next]_vars
      PROVE  Fit'
  <2>t. TypeOK /\ TypeOK'
    BY <1>2, NextInv DEF IndInv
  <2>1. CASE Setup
    <3>1. sq' = {} /\ kernel' = {}
      BY <1>2, <2>1 DEF Setup, IndInv, Phases
    <3>2. CASE max_buffer_size' \in ProbedSizes
      BY <1>2, <3>1, <3>2 DEF ProbedSizes, Lesser, Greater, ReadsFit
    <3> QED BY <1>2, <2>1, <3>1, <3>2 DEF Setup, ReadsFit
  <2>2. CASE Prime
    <3>1. PICK want \in Wants :
             /\ sq' \subseteq sq \cup {ReadOp(inflight, want)}
             /\ UNCHANGED <<max_buffer_size, kernel>>
      BY <2>2 DEF Prime, NoSqe
    <3>2. want <= max_buffer_size
      BY <1>2, <2>t, <2>2, WantsFit DEF Prime
    <3> QED BY <1>2, <3>1, <3>2 DEF ReadsFit, ReadOp
  <2>3. ASSUME NEW c \in cq, WriteDone(c)
        PROVE  Fit'
    <3>1. CASE next_off < file_size
      <4>1. PICK want \in Wants :
               /\ sq' \cup kernel' \subseteq sq \cup kernel \cup {ReadOp(c.slot, want)}
               /\ UNCHANGED max_buffer_size
        BY <2>3, <3>1 DEF WriteDone, Submit, NoSqe
      <4>2. want <= max_buffer_size
        BY <1>2, <2>t, <3>1, WantsFit
      <4> QED BY <1>2, <4>1, <4>2 DEF ReadsFit, ReadOp
    <3>2. CASE ~(next_off < file_size)
      BY <1>2, <2>3, <3>2 DEF WriteDone, ReadsFit
    <3> QED BY <3>1, <3>2
  <2>4. ASSUME NEW c \in cq, ReadDone(c)
        PROVE  Fit'
    <3>1. /\ sq' \cup kernel' \subseteq sq \cup kernel \cup {WriteOp(c.slot, c.res)}
          /\ UNCHANGED max_buffer_size
      BY <2>4 DEF ReadDone, Submit, NoSqe
    <3> QED BY <1>2, <3>1 DEF ReadsFit, WriteOp
  <2>5. CASE Kernel
    BY <1>2, <2>5 DEF Kernel, KernelRead, KernelWrite, KernelError, Complete,
                      pipeVars, ReadsFit
  <2>6. CASE SubmitPrimed
    BY <1>2, <2>6 DEF SubmitPrimed, Submit, ReadsFit
  <2>7. CASE SetupFails \/ WaitFails \/ Finish \/ FreeSlots \/ QueueExit
             \/ UNCHANGED vars
             \/ \E c \in cq : CqeRejected(c) \/ ReadEof(c) \/ WriteCancelled(c)
    BY <1>2, <2>7 DEF SetupFails, WaitFails, Finish, FreeSlots, QueueExit, vars,
                      pipeVars, CqeRejected, ReadEof, WriteCancelled, ReadsFit
  <2> QED BY <1>2, <2>1, <2>2, <2>3, <2>4, <2>5, <2>6, <2>7
          DEF Next, Pipeline, Terminated
<1>3. Fit => ReadsFit
  OBVIOUS
<1>4. IndInv /\ Fit /\ [Next]_vars => Fit'
  BY <1>2
<1> HIDE DEF Fit
<1> QED BY <1>1, <1>3, <1>4, CopyInvariant, PTL DEF Spec

-----------------------------------------------------------------------------
(* The refinement of FileCopy: what the destination holds.                  *)

\* The range of the file slot s works on.
RangeOf(s) == slots[s].off .. slots[s].off + slots[s].len - 1

\* Offsets whose byte is in the destination and in no slot's range any more.
Settled ==
    {x \in 0 .. next_off - 1 :
        dst[x] = x /\ \A s \in Slots : slots[s].active => x \notin RangeOf(s)}

\* The destination ends within the file and has no byte beyond its length.
DstBounds ==
    /\ dstLen <= file_size
    /\ \A x \in Offsets : dst[x] # Junk => x < dstLen

\* Slots in use have ranges of their own, behind which the next read starts.
RangesApart ==
    /\ \A s \in Slots : slots[s].active => slots[s].off + slots[s].len <= next_off
    /\ \A s, t \in Slots :
          (slots[s].active /\ slots[t].active /\ s # t)
              => RangeOf(s) \cap RangeOf(t) = {}

\* The bytes of a write that has completed are in the destination.
WritesLanded ==
    \A c \in cq : c.op = "write" =>
        \A x \in Offsets :
            x \in slots[c.slot].off .. slots[c.slot].off + c.res - 1 => dst[x] = x

\* While nothing was cut short, operations and completions are as long as
\* their slot's range, and every byte handed out is stored or on its way.
FullLengths ==
    ~cut =>
        /\ \A s \in Slots : slots[s].active => slots[s].len > 0
        /\ \A o \in sq \cup kernel : o.len = slots[o.slot].len
        /\ \A c \in cq : c.res = slots[c.slot].len
        /\ \A x \in 0 .. next_off - 1 :
              dst[x] = x \/ \E s \in Slots : slots[s].active /\ x \in RangeOf(s)

\* `copied` counts settled bytes.
CopiedExact ==
    /\ copied <= Cardinality(Settled)
    /\ ~cut => copied = Cardinality(Settled)

\* A slot in use has an operation outstanding, and all are used as long as
\* there is something left to read.
SlotsBusy ==
    /\ pc = "prime" =>
          /\ inflight <= QD
          /\ \A s \in Slots : slots[s].active => \E o \in sq : o.slot = s
    /\ pc = "loop" =>
          /\ \A s \in Slots : slots[s].active =>
                \E o \in kernel \cup cq : o.slot = s
          /\ ~cut /\ next_off < file_size => inflight = QD

\* What holds once the call is bound to succeed.
CopyComplete ==
    cut \/ (dstLen = file_size /\ \A x \in 0 .. file_size - 1 : dst[x] = x)

Ends ==
    /\ pc = "setup" =>
          /\ dstLen = 0 /\ next_off = 0 /\ copied = 0
          /\ \A s \in Slots : ~slots[s].active
    /\ pc \in {"out", "exit"} /\ ret \in {"ok", "fsync"} => kernel = {}
    /\ pc \in {"out", "exit"} /\ ret = "ok" => CopyComplete
    /\ pc = "done" => kernel = {}

Running == RangesApart /\ WritesLanded /\ FullLengths /\ CopiedExact /\ SlotsBusy

RefInv == DstBounds /\ Ends /\ (pc \in {"prime", "loop"} => Running)

\* There is always something to ask for before the end of the file.
LEMMA WantsPositive ==
    ASSUME TypeOK, next_off < file_size, NEW w \in Wants
    PROVE  w > 0
<1> USE CopyAssumption DEF TypeOK
<1>1. PICK v \in Nat \ {0} : w = Lesser(v, file_size - next_off)
  BY DEF Wants
<1> QED BY <1>1 DEF Lesser

\* There are no more settled bytes than bytes handed out.
LEMMA SettledSize ==
    TypeOK => /\ IsFiniteSet(Settled)
              /\ Cardinality(Settled) \in Nat
              /\ Cardinality(Settled) <= next_off
<1> SUFFICES ASSUME TypeOK
             PROVE  /\ IsFiniteSet(Settled)
                    /\ Cardinality(Settled) \in Nat
                    /\ Cardinality(Settled) <= next_off
  OBVIOUS
<1>1. /\ IsFiniteSet(0 .. next_off - 1)
      /\ Cardinality(0 .. next_off - 1) = next_off
  <2>1. next_off \in Nat /\ 0 \in Int /\ next_off - 1 \in Int
    BY DEF TypeOK
  <2>2. CASE next_off = 0
    <3>1. 0 .. next_off - 1 = {}
      BY <2>2
    <3> QED BY <2>2, <3>1, FS_EmptySet
  <2>3. CASE next_off > 0
    BY <2>1, <2>3, FS_Interval
  <2> QED BY <2>1, <2>2, <2>3
<1>2. Settled \subseteq 0 .. next_off - 1
  BY DEF Settled
<1> QED BY <1>1, <1>2, FS_Subset, FS_CardinalityType

\* Counting a write of res bytes settles at least these, and when nothing was
\* cut short exactly these.
LEMMA WriteSettles ==
    ASSUME IndInv, Running, NEW c \in cq, c.op = "write", c.res >= 0
    PROVE  LET S == Settled \cup {x \in RangeOf(c.slot) : dst[x] = x}
           IN  /\ copied + c.res <= Cardinality(S)
               /\ ~cut => copied + c.res = Cardinality(S)
<1> DEFINE off == slots[c.slot].off
           len == slots[c.slot].len
           D == {x \in RangeOf(c.slot) : dst[x] = x}
           R == off .. off + c.res - 1
<1>1. /\ c.slot \in Slots /\ c.res \in Nat /\ off \in Nat /\ len \in Nat
      /\ c.res <= len /\ off + len <= file_size /\ copied \in Nat
      /\ file_size <= MaxFileSize /\ file_size \in Nat /\ MaxFileSize \in Nat
      /\ slots[c.slot].active
  BY CopyAssumption DEF IndInv, TypeOK, Cqe, CqesMatch, InFile, SlotsActive
<1>2. R \subseteq D
  BY <1>1 DEF Running, WritesLanded, RangeOf, Offsets
<1>3. IsFiniteSet(R) /\ Cardinality(R) = c.res
  <2>1. CASE c.res = 0
    <3>1. R = {}
      BY <1>1, <2>1
    <3> QED BY <2>1, <3>1, FS_EmptySet
  <2>2. CASE c.res > 0
    <3>1. off \in Int /\ off + c.res - 1 \in Int /\ ~(off > off + c.res - 1)
          /\ (off + c.res - 1) - off + 1 = c.res
      BY <1>1, <2>2
    <3> QED BY <3>1, FS_Interval
  <2> QED BY <1>1, <2>1, <2>2
<1>4. IsFiniteSet(D)
  <2>1. IsFiniteSet(RangeOf(c.slot))
    <3>1. off \in Int /\ off + len - 1 \in Int
      BY <1>1
    <3> QED BY <3>1, FS_Interval DEF RangeOf
  <2>2. D \subseteq RangeOf(c.slot)
    OBVIOUS
  <2> QED BY <2>1, <2>2, FS_Subset
<1>5. Settled \cap D = {}
  BY <1>1 DEF Settled
<1>6. /\ Cardinality(Settled \cup D) = Cardinality(Settled) + Cardinality(D)
      /\ Cardinality(Settled) \in Nat /\ Cardinality(D) \in Nat
  <2>1. /\ IsFiniteSet(Settled) /\ Cardinality(Settled) \in Nat
        /\ Cardinality(D) \in Nat
    BY <1>4, SettledSize, FS_CardinalityType DEF IndInv
  <2>2. /\ IsFiniteSet(Settled \cup D)
        /\ Cardinality(Settled \cup D) =
              Cardinality(Settled) + Cardinality(D) - Cardinality(Settled \cap D)
    BY <1>4, <2>1, FS_Union
  <2>3. Cardinality(Settled \cap D) = 0
    BY <1>5, FS_EmptySet
  <2> HIDE DEF D
  <2> QED BY <2>1, <2>2, <2>3
<1>7. c.res <= Cardinality(D)
  <2> HIDE DEF D, R
  <2>1. R \in SUBSET D
    BY <1>2
  <2> QED BY <1>3, <1>4, <2>1, FS_Subset
<1>8. ~cut => c.res = Cardinality(D)
  <2>1. SUFFICES ASSUME ~cut PROVE c.res = Cardinality(D)
    OBVIOUS
  <2>2. c.res = len
    BY <2>1 DEF Running, FullLengths
  <2>3. D \subseteq R
    BY <1>1, <2>2 DEF RangeOf
  <2> QED BY <1>2, <1>3, <2>3
<1>9. /\ copied <= Cardinality(Settled)
      /\ ~cut => copied = Cardinality(Settled)
  BY DEF Running, CopiedExact
<1>10. /\ copied + c.res <= Cardinality(Settled \cup D)
       /\ ~cut => copied + c.res = Cardinality(Settled \cup D)
  <2> HIDE DEF D, R, off, len
  <2> QED BY <1>1, <1>6, <1>7, <1>8, <1>9
<1> QED BY <1>10

\* A completion in the kernel moves an operation to the completion queue: a
\* write stores bytes only in its own slot's range, so nothing settles or is
\* unsettled before the thread reaps it.
LEMMA CompleteRunning ==
    ASSUME IndInv, IndInv', Running, pc = "loop", NEW o \in kernel, NEW res \in Int,
           Complete(o, res), res <= o.len,
           \A x \in Offsets :
              dst'[x] = dst[x] \/ (dst'[x] = x /\ x \in o.off .. o.off + res - 1),
           o.op = "write" =>
              \A x \in Offsets : x \in o.off .. o.off + res - 1 => dst'[x] = x
    PROVE  Running'
<1> DEFINE q == [op |-> o.op, slot |-> o.slot, res |-> res]
<1>1. /\ kernel' = kernel \ {o} /\ cq' = cq \cup {q}
      /\ cut' = (cut \/ res < o.len)
      /\ UNCHANGED <<pc, file_size, slots, next_off, inflight, copied, sq>>
  BY DEF Complete, pipeVars
<1>2. /\ o.slot \in Slots /\ o.off = slots[o.slot].off /\ o.len <= slots[o.slot].len
      /\ o.off \in Nat /\ o.len \in Nat /\ slots[o.slot].len \in Nat
      /\ slots[o.slot].active
      /\ next_off <= MaxFileSize /\ next_off \in Nat /\ MaxFileSize \in Nat
  BY CopyAssumption DEF IndInv, TypeOK, Op, OpsMatch, SlotsActive, InFile
<1>3. RangesApart'
  BY <1>1 DEF Running, RangesApart, RangeOf
<1>4. \A x \in Offsets : dst[x] = x => dst'[x] = x
  OBVIOUS
<1>5. \A x \in 0 .. next_off - 1 : x \in Offsets
  BY <1>2 DEF Offsets
<1>6. WritesLanded'
  <2>1. ASSUME NEW c \in cq, c.op = "write", NEW x \in Offsets,
               x \in slots[c.slot].off .. slots[c.slot].off + c.res - 1
        PROVE  dst'[x] = x
    BY <1>4, <2>1 DEF Running, WritesLanded
  <2>2. q.slot = o.slot /\ q.res = res /\ q.op = o.op
    OBVIOUS
  <2> HIDE DEF q
  <2> QED BY <1>1, <1>2, <2>1, <2>2 DEF WritesLanded
<1>7. FullLengths'
  <2>1. SUFFICES ASSUME ~cut' PROVE FullLengths'
    BY DEF FullLengths
  <2>a. ~cut /\ ~(res < o.len)
    BY <1>1, <2>1, Zenon
  <2>2. ~cut /\ res = o.len /\ FullLengths
    BY <1>2, <2>a DEF Running
  <2>3. q.slot = o.slot /\ q.res = res
    OBVIOUS
  <2>4. o.len = slots[o.slot].len
    BY <2>2 DEF FullLengths
  <2>5. \A c \in cq' : c.res = slots'[c.slot].len
    <3> HIDE DEF q
    <3> QED BY <1>1, <2>2, <2>3, <2>4 DEF FullLengths
  <2>6. \A x \in 0 .. next_off - 1 :
           dst'[x] = x \/ \E s \in Slots : slots[s].active /\ x \in RangeOf(s)
    BY <1>4, <1>5, <2>2 DEF FullLengths
  <2> QED BY <1>1, <2>2, <2>5, <2>6 DEF FullLengths, RangeOf
<1>8. Settled' = Settled
  <2>1. \A x \in Offsets : dst'[x] # dst[x] => x \in RangeOf(o.slot)
    BY <1>2 DEF RangeOf
  <2>2. ASSUME NEW x \in 0 .. next_off - 1,
               \A s \in Slots : slots[s].active => x \notin RangeOf(s)
        PROVE  dst'[x] = dst[x]
    BY <1>2, <1>5, <2>1, <2>2
  <2> QED BY <1>1, <2>2 DEF Settled, RangeOf
<1>9. CopiedExact'
  BY <1>1, <1>8 DEF Running, CopiedExact
<1>10. SlotsBusy'
  <2>1. q.slot = o.slot
    OBVIOUS
  <2>2. ASSUME NEW s \in Slots, slots[s].active
        PROVE  \E a \in kernel' \cup cq' : a.slot = s
    <3>1. PICK a \in kernel \cup cq : a.slot = s
      BY <2>2 DEF Running, SlotsBusy
    <3> HIDE DEF q
    <3> QED BY <1>1, <2>1, <3>1
  <2> QED BY <1>1, <2>2 DEF Running, SlotsBusy
<1> QED BY <1>3, <1>6, <1>7, <1>9, <1>10 DEF Running

\* What the kernel stores lies within the file and within the destination's
\* new length.
LEMMA KernelRef ==
    ASSUME IndInv, IndInv', RefInv, Kernel
    PROVE  RefInv'
<1> USE CopyAssumption
<1>1. PICK o \in kernel : KernelRead(o) \/ KernelWrite(o) \/ KernelError(o)
  BY DEF Kernel
<1>2. /\ o.slot \in Slots /\ o.off = slots[o.slot].off /\ o.len <= slots[o.slot].len
      /\ o.off \in Nat /\ o.len \in Nat /\ slots[o.slot].len \in Nat
      /\ o.off + o.len <= file_size
      /\ file_size \in Nat /\ file_size <= MaxFileSize /\ MaxFileSize \in Nat
      /\ dstLen \in Nat
  BY DEF IndInv, TypeOK, Op, OpsMatch, InFile
<1>3. PICK res \in Int :
         /\ Complete(o, res) /\ res <= o.len
         /\ \A x \in Offsets :
               \/ dst'[x] = dst[x]
               \/ x \in o.off .. o.off + res - 1 /\ (dst'[x] = x \/ freed)
         /\ o.op = "write" /\ ~freed =>
               \A x \in Offsets : x \in o.off .. o.off + res - 1 => dst'[x] = x
         /\ \/ dstLen' = dstLen /\ dst' = dst
            \/ dstLen' = Greater(dstLen, o.off + res) /\ res >= 0
  <2>1. CASE KernelRead(o)
    <3>1. PICK res \in ReadResults(o) : Complete(o, res)
      BY <2>1 DEF KernelRead
    <3>2. res \in Int /\ res <= o.len
      BY <1>2, <3>1 DEF ReadResults
    <3>3. dst' = dst /\ dstLen' = dstLen /\ o.op = "read"
      BY <2>1 DEF KernelRead
    <3> QED BY <3>1, <3>2, <3>3
  <2>2. CASE KernelError(o)
    <3>1. dst' = dst /\ dstLen' = dstLen /\ Complete(o, -1)
      BY <2>2 DEF KernelError
    <3>2. -1 <= o.len /\ -1 \in Int /\ o.off .. o.off + (-1) - 1 = {}
      BY <1>2
    <3> QED BY <3>1, <3>2
  <2>3. CASE KernelWrite(o)
    <3>1. PICK res \in WriteResults(o), bytes \in Contents(o.slot) :
             /\ Complete(o, res)
             /\ dst' = [x \in Offsets |->
                          IF x \in o.off .. o.off + res - 1
                          THEN bytes[x - o.off] ELSE dst[x]]
             /\ dstLen' = Greater(dstLen, o.off + res)
      BY <2>3 DEF KernelWrite
    <3>2. res \in Nat /\ res <= o.len
      BY <1>2, <3>1 DEF WriteResults
    <3>3. ASSUME ~freed, NEW x \in Offsets, x \in o.off .. o.off + res - 1
          PROVE  bytes[x - o.off] = x
      <4>1. x - o.off \in Offsets /\ x - o.off < o.len /\ o.off + (x - o.off) = x
        BY <1>2, <3>2, <3>3 DEF Offsets
      <4>2. o.op = "write"
        BY <2>3 DEF KernelWrite
      <4> QED BY <3>3, <4>1, <4>2 DEF IndInv, OpsMatch, Contents
    <3> QED BY <3>1, <3>2, <3>3
  <2> QED BY <1>1, <2>1, <2>2, <2>3
<1>4. /\ kernel # {}
      /\ UNCHANGED <<pc, file_size, ret, slots, next_off, copied>>
  BY <1>3 DEF Complete, pipeVars
<1>5. /\ pc \notin {"setup", "prime", "done"}
      /\ ~(pc \in {"out", "exit"} /\ ret \in {"ok", "fsync"})
  BY <1>4 DEF IndInv, Phases, RefInv, Ends
<1>6. Ends'
  BY <1>4, <1>5 DEF Ends
<1>7. DstBounds'
  <2>1. dstLen' \in Nat /\ dstLen' <= file_size /\ dstLen <= dstLen'
    BY <1>2, <1>3 DEF Greater, RefInv, DstBounds
  <2>2. ASSUME NEW x \in Offsets, dst'[x] # Junk
        PROVE  x < dstLen'
    <3>1. x \in Nat
      BY <1>2 DEF Offsets
    <3>2. CASE dst'[x] = dst[x]
      BY <1>2, <2>1, <2>2, <3>1, <3>2 DEF RefInv, DstBounds
    <3>3. CASE dst'[x] # dst[x] /\ x \in o.off .. o.off + res - 1
      BY <1>2, <1>3, <3>1, <3>3 DEF Greater
    <3> QED BY <1>3, <3>2, <3>3
  <2> QED BY <1>4, <2>1, <2>2 DEF DstBounds
<1>8. ASSUME pc \in {"prime", "loop"} PROVE Running'
  <2>1. pc = "loop" /\ ~freed
    BY <1>5, <1>8 DEF IndInv, Phases
  <2> QED BY <1>3, <2>1, CompleteRunning DEF RefInv
<1> QED BY <1>4, <1>6, <1>7, <1>8 DEF RefInv

\* Before the first read nothing is stored; afterwards the ring is primed.
LEMMA SetupRef ==
    ASSUME IndInv, IndInv', RefInv, Setup \/ SetupFails
    PROVE  RefInv'
<1>1. /\ pc = "setup" /\ kernel = {} /\ cq = {} /\ sq = {} /\ inflight = 0
      /\ next_off = 0 /\ copied = 0 /\ \A s \in Slots : ~slots[s].active
      /\ UNCHANGED <<file_size, slots, next_off, inflight, copied, sq, kernel,
                     cq, dst, dstLen, cut>>
      /\ pc' \in {"prime", "done"}
  BY DEF Setup, SetupFails, IndInv, Phases, RefInv, Ends
<1>2. (DstBounds /\ Ends)'
  BY <1>1 DEF RefInv, DstBounds, Ends
<1>3. (RangesApart /\ WritesLanded /\ FullLengths)'
  BY <1>1 DEF RangesApart, WritesLanded, FullLengths
<1>4. CopiedExact'
  <2>1. Settled' = {}
    BY <1>1 DEF Settled
  <2> QED BY <1>1, <2>1, FS_EmptySet DEF CopiedExact
<1>5. SlotsBusy'
  BY <1>1, CopyAssumption DEF SlotsBusy
<1> QED BY <1>2, <1>3, <1>4, <1>5 DEF RefInv, Running

\* Priming gives the free slot `inflight` the range behind all others.
LEMMA PrimeRef ==
    ASSUME IndInv, IndInv', RefInv, Prime
    PROVE  RefInv'
<1> USE CopyAssumption
<1>1. /\ pc = "prime" /\ kernel = {} /\ cq = {} /\ Running /\ ~SqFull
      /\ inflight < QD /\ next_off < file_size
      /\ \A o \in sq : o.slot < inflight
      /\ UNCHANGED <<file_size, copied, cq, dst, dstLen, cut>>
  BY DEF Prime, IndInv, Phases, RefInv, SqFull, TypeOK
<1>0. PICK k \in Slots : k = inflight
  BY <1>1 DEF IndInv, TypeOK, Slots
<1>2. PICK want \in Wants :
         /\ slots' = [slots EXCEPT ![k] =
                        [off |-> next_off, len |-> want, active |-> TRUE]]
         /\ sq' = sq \cup {ReadOp(k, want)}
         /\ inflight' = k + 1 /\ next_off' = next_off + want
         /\ UNCHANGED <<pc, ret, kernel>>
  BY <1>0, <1>1 DEF Prime
<1>3. want \in Nat /\ want > 0 /\ next_off + want <= file_size
  BY <1>1, WantsInFile, WantsPositive DEF IndInv
<1>4. /\ next_off \in Nat /\ k \in Nat
      /\ \A s \in Slots : /\ slots[s].off \in Nat /\ slots[s].len \in Nat
                          /\ slots[s].active \in BOOLEAN
  BY <1>0, <1>1 DEF IndInv, TypeOK, Slots
<1>5. /\ slots'[k] = [off |-> next_off, len |-> want, active |-> TRUE]
      /\ \A s \in Slots : s # k => slots'[s] = slots[s]
  BY <1>2, <1>4 DEF IndInv, TypeOK
<1>6. ~slots[k].active
  BY <1>0, <1>1, <1>4 DEF Running, SlotsBusy
<1>7. /\ RangeOf(k)' = next_off .. next_off + want - 1
      /\ \A s \in Slots : s # k => RangeOf(s)' = RangeOf(s)
      /\ \A s \in Slots : slots[s].active =>
            \A x \in RangeOf(s) : x \in Int /\ x < next_off
  <2>1. RangeOf(k)' = next_off .. next_off + want - 1
    BY <1>5 DEF RangeOf
  <2>2. \A s \in Slots : s # k => RangeOf(s)' = RangeOf(s)
    BY <1>5 DEF RangeOf
  <2>3. ASSUME NEW s \in Slots, slots[s].active, NEW x \in RangeOf(s)
        PROVE  x \in Int /\ x < next_off
    <3>1. slots[s].off + slots[s].len <= next_off
      BY <1>1, <2>3 DEF Running, RangesApart
    <3>2. /\ slots[s].off \in Nat /\ slots[s].len \in Nat /\ next_off \in Nat
          /\ x \in slots[s].off .. slots[s].off + slots[s].len - 1
      BY <1>4, <2>3 DEF RangeOf
    <3> QED BY <3>1, <3>2
  <2> QED BY <2>1, <2>2, <2>3
<1>8. (DstBounds /\ Ends)'
  BY <1>1, <1>2 DEF RefInv, DstBounds, Ends
<1>9. RangesApart'
  <2>1. \A s \in Slots : slots'[s].active =>
           slots'[s].off + slots'[s].len <= next_off'
    BY <1>1, <1>2, <1>3, <1>4, <1>5 DEF Running, RangesApart
  <2>2. ASSUME NEW s \in Slots, NEW t \in Slots, slots'[s].active,
               slots'[t].active, s # t
        PROVE  RangeOf(s)' \cap RangeOf(t)' = {}
    <3>1. CASE s # k /\ t # k
      BY <1>1, <1>5, <1>7, <2>2, <3>1 DEF Running, RangesApart
    <3>2. CASE s = k
      BY <1>3, <1>4, <1>5, <1>7, <2>2, <3>2
    <3>3. CASE t = k
      BY <1>3, <1>4, <1>5, <1>7, <2>2, <3>3
    <3> QED BY <3>1, <3>2, <3>3
  <2> QED BY <2>1, <2>2 DEF RangesApart
<1>10. WritesLanded'
  BY <1>1 DEF WritesLanded
<1>11. FullLengths'
  <2>1. SUFFICES ASSUME ~cut' PROVE FullLengths'
    BY DEF FullLengths
  <2>2. ~cut /\ FullLengths
    BY <1>1, <2>1 DEF Running
  <2>3. \A s \in Slots : slots'[s].active => slots'[s].len > 0
    BY <1>3, <1>5, <2>2 DEF FullLengths
  <2>4. \A o \in sq' \cup kernel' : o.len = slots'[o.slot].len
    <3>1. \A o \in sq : o.slot \in Slots /\ o.slot # k
      BY <1>0, <1>1, <1>4 DEF IndInv, TypeOK, Op
    <3> QED BY <1>1, <1>2, <1>5, <2>2, <3>1 DEF FullLengths, ReadOp
  <2>5. ASSUME NEW x \in 0 .. next_off' - 1
        PROVE  dst'[x] = x \/ \E s \in Slots : slots'[s].active /\ x \in RangeOf(s)'
    <3>1. CASE x < next_off
      <4>1. x \in 0 .. next_off - 1
        BY <1>2, <1>3, <1>4, <3>1
      <4>2. CASE dst[x] = x
        BY <1>1, <4>2
      <4>3. ASSUME NEW s \in Slots, slots[s].active, x \in RangeOf(s)
            PROVE  slots'[s].active /\ x \in RangeOf(s)'
        BY <1>5, <1>6, <1>7, <4>3
      <4> QED BY <2>2, <4>1, <4>2, <4>3 DEF FullLengths
    <3>2. CASE ~(x < next_off)
      BY <1>2, <1>3, <1>4, <1>5, <1>7, <3>2
    <3> QED BY <3>1, <3>2
  <2> QED BY <1>1, <2>3, <2>4, <2>5 DEF FullLengths
<1>12. CopiedExact'
  <2>1. ASSUME NEW x \in 0 .. next_off - 1
        PROVE  (\A s \in Slots : slots'[s].active => x \notin RangeOf(s)')
               <=> (\A s \in Slots : slots[s].active => x \notin RangeOf(s))
    <3>1. x \notin RangeOf(k)'
      BY <1>3, <1>4, <1>7
    <3> QED BY <1>5, <1>6, <1>7, <3>1
  <2>2. ASSUME NEW x \in Settled' PROVE x \in 0 .. next_off - 1
    <3>1. x \in 0 .. next_off' - 1 /\ x \notin RangeOf(k)'
      BY <1>4, <1>5 DEF Settled
    <3> QED BY <1>2, <1>3, <1>4, <1>7, <3>1
  <2>3. 0 .. next_off - 1 \subseteq 0 .. next_off' - 1
    BY <1>2, <1>3, <1>4
  <2>4. Settled' = Settled
    BY <1>1, <2>1, <2>2, <2>3 DEF Settled
  <2> QED BY <1>1, <2>4 DEF Running, CopiedExact
<1>13. SlotsBusy'
  <2>1. ReadOp(k, want).slot = k
    BY DEF ReadOp
  <2> QED BY <1>0, <1>1, <1>2, <1>4, <1>5, <2>1 DEF Running, SlotsBusy
<1> QED BY <1>8, <1>9, <1>10, <1>11, <1>12, <1>13 DEF RefInv, Running

\* When priming ends every slot is in use, or the whole file was handed out.
LEMMA SubmitPrimedRef ==
    ASSUME IndInv, IndInv', RefInv, SubmitPrimed
    PROVE  RefInv'
<1> USE CopyAssumption
<1>1. /\ pc = "prime" /\ kernel = {} /\ cq = {} /\ Running
      /\ ~(inflight < QD /\ next_off < file_size)
      /\ UNCHANGED <<file_size, slots, next_off, inflight, copied, cq, dst,
                     dstLen, cut>>
      /\ \/ pc' = "loop" /\ kernel' = sq /\ sq' = {}
         \/ pc' = "out" /\ ret' = "submit"
  BY DEF SubmitPrimed, Submit, IndInv, Phases, RefInv
<1>2. (DstBounds /\ Ends)'
  BY <1>1 DEF RefInv, DstBounds, Ends
<1>3. ASSUME pc' = "loop" PROVE Running'
  <2>1. (RangesApart /\ WritesLanded)'
    BY <1>1 DEF Running, RangesApart, RangeOf, WritesLanded
  <2>2. FullLengths'
    BY <1>1, <1>3 DEF Running, FullLengths, RangeOf
  <2>3. CopiedExact'
    <3>1. Settled' = Settled
      BY <1>1 DEF Settled, RangeOf
    <3> QED BY <1>1, <3>1 DEF Running, CopiedExact
  <2>4. SlotsBusy'
    BY <1>1, <1>3 DEF Running, SlotsBusy, IndInv, TypeOK
  <2> QED BY <2>1, <2>2, <2>3, <2>4 DEF Running
<1> QED BY <1>1, <1>2, <1>3 DEF RefInv

\* Every error exit of the loop leaves the destination alone.
LEMMA LeaveRef ==
    ASSUME IndInv, IndInv', RefInv,
           WaitFails \/ \E c \in cq : CqeRejected(c) \/ WriteCancelled(c)
    PROVE  RefInv'
<1>1. /\ pc' = "out" /\ ret' \notin {"ok", "fsync"}
      /\ UNCHANGED <<file_size, dst, dstLen>>
  BY DEF WaitFails, CqeRejected, WriteCancelled
<1> QED BY <1>1 DEF RefInv, DstBounds, Ends

\* A read of 0 bytes means that something was cut short: its slot retires and
\* only then can a byte of its range count as settled.
LEMMA ReadEofRef ==
    ASSUME IndInv, IndInv', RefInv, NEW c \in cq, ReadEof(c)
    PROVE  RefInv'
<1>1. /\ pc = "loop" /\ Running /\ cq' = cq \ {c} /\ c.res = 0 /\ sq = {}
      /\ slots' = [slots EXCEPT ![c.slot].active = FALSE]
      /\ UNCHANGED <<pc, file_size, next_off, copied, ret, sq, kernel, dst,
                     dstLen, cut>>
  BY DEF ReadEof, Reaped, RefInv, IndInv, Phases
<1>2. /\ c.slot \in Slots /\ slots[c.slot].active
      /\ \A s \in Slots : slots[s].active \in BOOLEAN
  BY DEF IndInv, TypeOK, Cqe, SlotsActive
<1>3. cut
  BY <1>1, <1>2 DEF Running, FullLengths
<1>4. /\ \A s \in Slots : /\ slots'[s].off = slots[s].off
                          /\ slots'[s].len = slots[s].len
                          /\ slots'[s].active => slots[s].active
      /\ ~slots'[c.slot].active
      /\ \A s \in Slots : RangeOf(s)' = RangeOf(s)
  BY <1>1, <1>2 DEF IndInv, TypeOK, RangeOf
<1>5. (DstBounds /\ Ends)'
  BY <1>1 DEF RefInv, DstBounds, Ends
<1>6. RangesApart'
  BY <1>1, <1>4 DEF Running, RangesApart
<1>7. WritesLanded'
  <2>1. \A d \in cq : d.slot \in Slots
    BY DEF IndInv, TypeOK, Cqe
  <2> QED BY <1>1, <1>4, <2>1 DEF Running, WritesLanded
<1>8. FullLengths'
  BY <1>1, <1>3 DEF FullLengths
<1>9. CopiedExact'
  <2>1. Settled \in SUBSET Settled'
    BY <1>1, <1>4 DEF Settled
  <2>2. IsFiniteSet(Settled') /\ Cardinality(Settled') \in Nat
    <3>1. TypeOK'
      BY DEF IndInv
    <3>2. (IsFiniteSet(Settled) /\ Cardinality(Settled) \in Nat
           /\ Cardinality(Settled) <= next_off)'
      BY <3>1, SettledSize, PTL
    <3> QED BY <3>2
  <2>3. Cardinality(Settled) <= Cardinality(Settled')
    BY <2>1, <2>2, FS_Subset
  <2>4. Cardinality(Settled) \in Nat /\ copied \in Nat
    BY SettledSize DEF IndInv, TypeOK
  <2>5. copied <= Cardinality(Settled)
    BY <1>1 DEF Running, CopiedExact
  <2> QED BY <1>1, <1>3, <2>2, <2>3, <2>4, <2>5 DEF CopiedExact
<1>10. SlotsBusy'
  <2>1. ASSUME NEW s \in Slots, slots'[s].active
        PROVE  \E o \in kernel' \cup cq' : o.slot = s
    <3>1. PICK o \in kernel \cup cq : o.slot = s
      BY <1>1, <1>4, <2>1 DEF Running, SlotsBusy
    <3>2. o # c
      BY <1>4, <2>1, <3>1
    <3> QED BY <1>1, <3>1, <3>2
  <2> QED BY <1>1, <1>3, <2>1 DEF SlotsBusy
<1> QED BY <1>5, <1>6, <1>7, <1>8, <1>9, <1>10 DEF RefInv, Running

\* The write that follows a read takes its place; the destination is as before.
LEMMA ReadDoneRef ==
    ASSUME IndInv, IndInv', RefInv, NEW c \in cq, ReadDone(c)
    PROVE  RefInv'
<1> DEFINE w == WriteOp(c.slot, c.res)
<1>1. /\ pc = "loop" /\ Running /\ cq' = cq \ {c} /\ sq = {}
      /\ c.slot \in Slots /\ c.op = "read"
      /\ UNCHANGED <<file_size, slots, next_off, copied, dst, dstLen, cut>>
  BY DEF ReadDone, Reaped, RefInv, IndInv, Phases, TypeOK, Cqe
<1>2. ~SqFull
  BY <1>1, FS_EmptySet, CopyAssumption DEF SqFull
<1>3. /\ inflight' = inflight
      /\ \/ pc' = "loop" /\ kernel' = kernel \cup {w} /\ sq' = {}
         \/ pc' = "out" /\ ret' = "submit"
  BY <1>1, <1>2 DEF ReadDone, Submit
<1>4. (DstBounds /\ Ends)'
  BY <1>1, <1>3 DEF RefInv, DstBounds, Ends
<1>5. ASSUME pc' = "loop" PROVE Running'
  <2>1. w.slot = c.slot /\ w.len = c.res
    BY DEF WriteOp
  <2> HIDE DEF w
  <2>2. kernel' = kernel \cup {w} /\ sq' = {}
    BY <1>3, <1>5
  <2>3. (RangesApart /\ WritesLanded)'
    BY <1>1 DEF Running, RangesApart, RangeOf, WritesLanded
  <2>4. FullLengths'
    BY <1>1, <2>1, <2>2 DEF Running, FullLengths, RangeOf
  <2>5. CopiedExact'
    <3>1. Settled' = Settled
      BY <1>1 DEF Settled, RangeOf
    <3> QED BY <1>1, <3>1 DEF Running, CopiedExact
  <2>6. SlotsBusy'
    BY <1>1, <1>3, <1>5, <2>1, <2>2 DEF Running, SlotsBusy
  <2> QED BY <2>3, <2>4, <2>5, <2>6 DEF Running
<1> QED BY <1>1, <1>3, <1>4, <1>5 DEF RefInv

\* A write that is counted gives its range up: the slot takes the next range of
\* the file, or retires.
LEMMA WriteDoneRef ==
    ASSUME IndInv, IndInv', RefInv, NEW c \in cq, WriteDone(c)
    PROVE  RefInv'
<1> USE CopyAssumption
<1> DEFINE k == c.slot
           D == {x \in RangeOf(k) : dst[x] = x}
<1>1. /\ pc = "loop" /\ Running /\ cq' = cq \ {c} /\ sq = {} /\ inflight > 0
      /\ k \in Slots /\ c.op = "write" /\ c.res >= 0 /\ c.res \in Nat
      /\ copied' = copied + c.res
      /\ UNCHANGED <<file_size, dst, dstLen, cut>>
  BY DEF WriteDone, Reaped, RefInv, IndInv, Phases, TypeOK, Cqe, Rejected, CountWrite
<1>2. /\ slots[k].active /\ next_off \in Nat /\ next_off <= file_size
      /\ file_size \in Nat /\ file_size <= MaxFileSize
      /\ \A s \in Slots : /\ slots[s].off \in Nat /\ slots[s].len \in Nat
                          /\ slots[s].active \in BOOLEAN
  BY DEF IndInv, TypeOK, SlotsActive, InFile
<1>3. /\ \A o \in kernel : o.slot \in Slots /\ o.slot # k
      /\ \A d \in cq' : d.slot \in Slots /\ d.slot # k
  BY <1>1 DEF IndInv, TypeOK, Op, Cqe, SlotsApart
<1>4. ~SqFull
  BY <1>1, FS_EmptySet DEF SqFull
<1>5. ASSUME NEW s \in Slots, slots[s].active, NEW x \in RangeOf(s)
      PROVE  x \in Nat /\ x < next_off
  <2>1. slots[s].off + slots[s].len <= next_off
    BY <1>1, <1>5 DEF Running, RangesApart
  <2>2. /\ slots[s].off \in Nat /\ slots[s].len \in Nat
        /\ x \in slots[s].off .. slots[s].off + slots[s].len - 1
    BY <1>2, <1>5 DEF RangeOf
  <2> QED BY <1>2, <2>1, <2>2
<1>6. \A s \in Slots : s # k /\ slots[s].active => RangeOf(s) \cap RangeOf(k) = {}
  BY <1>1, <1>2 DEF Running, RangesApart
<1>7. ASSUME ~cut, NEW x \in RangeOf(k) PROVE dst[x] = x
  <2>1. c.res = slots[k].len
    BY <1>1, <1>7 DEF Running, FullLengths
  <2>2. x \in Offsets
    BY <1>1, <1>2, <1>5, <1>7 DEF Offsets
  <2> QED BY <1>1, <1>7, <2>1, <2>2 DEF Running, WritesLanded, RangeOf
<1>8. Settled' = Settled \cup D => CopiedExact'
  <2>1. /\ copied + c.res <= Cardinality(Settled \cup D)
        /\ ~cut => copied + c.res = Cardinality(Settled \cup D)
    BY <1>1, WriteSettles
  <2> HIDE DEF D
  <2> QED BY <1>1, <2>1 DEF CopiedExact
<1>9. DstBounds'
  BY <1>1 DEF RefInv, DstBounds
<1>10. ASSUME NEW s \in Slots, s # k, slots[s].active
       PROVE  \E o \in kernel \cup cq' : o.slot = s
  <2>1. PICK o \in kernel \cup cq : o.slot = s
    BY <1>1, <1>10 DEF Running, SlotsBusy
  <2> QED BY <1>1, <1>10, <2>1
<1>11. CASE next_off < file_size
  <2>1. PICK want \in Wants :
           /\ slots' = [slots EXCEPT ![k].off = next_off, ![k].len = want]
           /\ Submit({ReadOp(k, want)})
           /\ inflight' = inflight /\ next_off' = next_off + want
    BY <1>4, <1>11 DEF WriteDone
  <2>2. want \in Nat /\ want > 0 /\ next_off + want <= file_size
    BY <1>11, WantsInFile, WantsPositive DEF IndInv
  <2>3. /\ slots'[k].off = next_off /\ slots'[k].len = want /\ slots'[k].active
        /\ \A s \in Slots : s # k => slots'[s] = slots[s]
    BY <1>1, <1>2, <2>1 DEF IndInv, TypeOK
  <2>4. /\ RangeOf(k)' = next_off .. next_off + want - 1
        /\ \A s \in Slots : s # k => RangeOf(s)' = RangeOf(s)
    BY <2>3 DEF RangeOf
  <2>5. \/ pc' = "out" /\ ret' = "submit"
        \/ pc' = "loop" /\ kernel' = kernel \cup {ReadOp(k, want)} /\ sq' = {}
    BY <1>1, <2>1 DEF Submit
  <2>6. Ends'
    BY <2>5 DEF Ends
  <2>7. ASSUME pc' = "loop" PROVE Running'
    <3>1. kernel' = kernel \cup {ReadOp(k, want)} /\ sq' = {}
      BY <2>5, <2>7
    <3>2. ReadOp(k, want).slot = k /\ ReadOp(k, want).len = want
      BY DEF ReadOp
    <3>3. RangesApart'
      <4>1. \A s \in Slots : slots'[s].active =>
               slots'[s].off + slots'[s].len <= next_off'
        <5>1. slots'[k].off + slots'[k].len <= next_off'
          BY <1>2, <2>1, <2>2, <2>3
        <5>2. ASSUME NEW s \in Slots, slots[s].active
              PROVE  slots[s].off + slots[s].len <= next_off'
          <6>1. slots[s].off + slots[s].len <= next_off
            BY <1>1, <5>2 DEF Running, RangesApart
          <6>2. slots[s].off \in Nat /\ slots[s].len \in Nat
            BY <1>2
          <6> QED BY <1>2, <2>1, <2>2, <6>1, <6>2
        <5> QED BY <2>3, <5>1, <5>2
      <4>2. ASSUME NEW s \in Slots, NEW t \in Slots, slots'[s].active,
                   slots'[t].active, s # t
            PROVE  RangeOf(s)' \cap RangeOf(t)' = {}
        <5>1. CASE s # k /\ t # k
          BY <1>1, <2>3, <2>4, <4>2, <5>1 DEF Running, RangesApart
        <5>2. CASE s = k
          BY <1>2, <1>5, <2>2, <2>3, <2>4, <4>2, <5>2
        <5>3. CASE t = k
          BY <1>2, <1>5, <2>2, <2>3, <2>4, <4>2, <5>3
        <5> QED BY <5>1, <5>2, <5>3
      <4> QED BY <4>1, <4>2 DEF RangesApart
    <3>4. WritesLanded'
      BY <1>1, <1>3, <2>3 DEF Running, WritesLanded
    <3>5. FullLengths'
      <4>1. SUFFICES ASSUME ~cut' PROVE FullLengths'
        BY DEF FullLengths
      <4>2. ~cut /\ FullLengths
        BY <1>1, <4>1 DEF Running
      <4>3. \A s \in Slots : slots'[s].active => slots'[s].len > 0
        BY <2>2, <2>3, <4>2 DEF FullLengths
      <4>4. \A o \in sq' \cup kernel' : o.len = slots'[o.slot].len
        BY <1>3, <2>3, <3>1, <3>2, <4>2 DEF FullLengths
      <4>5. \A d \in cq' : d.res = slots'[d.slot].len
        BY <1>1, <1>3, <2>3, <4>2 DEF FullLengths
      <4>6. ASSUME NEW x \in 0 .. next_off' - 1
            PROVE  dst'[x] = x \/ \E s \in Slots : slots'[s].active /\ x \in RangeOf(s)'
        <5>1. CASE x < next_off
          <6>1. x \in 0 .. next_off - 1
            BY <1>2, <2>1, <2>2, <5>1
          <6>2. CASE dst[x] = x
            BY <1>1, <6>2
          <6>3. ASSUME NEW s \in Slots, slots[s].active, x \in RangeOf(s), s # k
                PROVE  slots'[s].active /\ x \in RangeOf(s)'
            BY <2>3, <2>4, <6>3
          <6>4. CASE x \in RangeOf(k)
            BY <1>1, <1>7, <4>2, <6>4
          <6> QED BY <4>2, <6>1, <6>2, <6>3, <6>4 DEF FullLengths
        <5>2. CASE ~(x < next_off)
          <6>1. x \in next_off .. next_off + want - 1
            BY <1>2, <2>1, <2>2, <5>2
          <6> QED BY <1>1, <2>3, <2>4, <6>1
        <5> QED BY <5>1, <5>2
      <4> QED BY <4>3, <4>4, <4>5, <4>6 DEF FullLengths
    <3>6. CopiedExact'
      <4>1. ASSUME NEW x \in 0 .. next_off - 1
            PROVE  (\A s \in Slots : slots'[s].active => x \notin RangeOf(s)')
                   <=> (\A s \in Slots : s # k /\ slots[s].active => x \notin RangeOf(s))
        <5>1. x \notin RangeOf(k)'
          BY <1>2, <2>2, <2>4
        <5> QED BY <2>3, <2>4, <5>1
      <4>2. ASSUME NEW x \in Settled' PROVE x \in 0 .. next_off - 1
        <5>1. x \in 0 .. next_off' - 1 /\ x \notin RangeOf(k)'
          BY <1>1, <2>3 DEF Settled
        <5> QED BY <1>2, <2>1, <2>2, <2>4, <5>1
      <4>3. 0 .. next_off - 1 \subseteq 0 .. next_off' - 1
        BY <1>2, <2>1, <2>2
      <4>4. Settled' = {x \in 0 .. next_off - 1 : dst[x] = x /\
               \A s \in Slots : s # k /\ slots[s].active => x \notin RangeOf(s)}
        BY <1>1, <4>1, <4>2, <4>3 DEF Settled
      <4>5. Settled' = Settled \cup D
        <5>1. \A x \in D : x \in 0 .. next_off - 1
          BY <1>1, <1>2, <1>5
        <5>2. \A x \in D : \A s \in Slots : s # k /\ slots[s].active => x \notin RangeOf(s)
          BY <1>6
        <5> QED BY <1>1, <1>2, <4>4, <5>1, <5>2 DEF Settled
      <4> QED BY <1>8, <4>5
    <3>7. SlotsBusy'
      <4>1. ASSUME NEW s \in Slots, slots'[s].active
            PROVE  \E o \in kernel' \cup cq' : o.slot = s
        <5>1. CASE s = k
          BY <3>1, <3>2, <5>1
        <5>2. CASE s # k
          BY <1>10, <2>3, <3>1, <4>1, <5>2
        <5> QED BY <5>1, <5>2
      <4>2. ~cut' /\ next_off' < file_size' => inflight' = QD
        BY <1>1, <1>11, <2>1 DEF Running, SlotsBusy
      <4> QED BY <2>7, <4>1, <4>2 DEF SlotsBusy
    <3> QED BY <3>3, <3>4, <3>5, <3>6, <3>7 DEF Running
  <2> QED BY <1>9, <2>5, <2>6, <2>7 DEF RefInv
<1>12. CASE ~(next_off < file_size)
  <2>1. /\ slots' = [slots EXCEPT ![k].active = FALSE]
        /\ UNCHANGED <<pc, ret, next_off, sq, kernel>>
    BY <1>12 DEF WriteDone
  <2>2. /\ ~slots'[k].active
        /\ \A s \in Slots : /\ slots'[s].off = slots[s].off
                            /\ slots'[s].len = slots[s].len
        /\ \A s \in Slots : s # k => slots'[s] = slots[s]
    BY <1>1, <1>2, <2>1 DEF IndInv, TypeOK
  <2>3. \A s \in Slots : RangeOf(s)' = RangeOf(s)
    BY <2>2 DEF RangeOf
  <2>4. Ends'
    BY <1>1, <2>1 DEF Ends
  <2>5. RangesApart'
    BY <1>1, <2>1, <2>2, <2>3 DEF Running, RangesApart
  <2>6. WritesLanded'
    BY <1>1, <1>3, <2>2 DEF Running, WritesLanded
  <2>7. FullLengths'
    <3>1. SUFFICES ASSUME ~cut' PROVE FullLengths'
      BY DEF FullLengths
    <3>2. ~cut /\ FullLengths
      BY <1>1, <3>1 DEF Running
    <3>3. \A s \in Slots : slots'[s].active => slots'[s].len > 0
      BY <2>2, <3>2 DEF FullLengths
    <3>4. /\ \A o \in sq' \cup kernel' : o.len = slots'[o.slot].len
          /\ \A d \in cq' : d.res = slots'[d.slot].len
      BY <1>1, <1>3, <2>1, <2>2, <3>2 DEF FullLengths
    <3>5. ASSUME NEW x \in 0 .. next_off' - 1
          PROVE  dst'[x] = x \/ \E s \in Slots : slots'[s].active /\ x \in RangeOf(s)'
      <4>1. x \in 0 .. next_off - 1
        BY <2>1
      <4>2. CASE x \in RangeOf(k)
        BY <1>1, <1>7, <3>2, <4>2
      <4> QED BY <1>1, <2>2, <2>3, <3>2, <4>1, <4>2 DEF FullLengths
    <3> QED BY <3>3, <3>4, <3>5 DEF FullLengths
  <2>8. CopiedExact'
    <3>1. \A x \in D : x \in 0 .. next_off - 1
      BY <1>1, <1>2, <1>5
    <3>2. \A x \in D : \A s \in Slots : s # k /\ slots[s].active => x \notin RangeOf(s)
      BY <1>6
    <3>3. Settled' = Settled \cup D
      BY <1>1, <1>2, <2>1, <2>2, <2>3, <3>1, <3>2 DEF Settled
    <3> QED BY <1>8, <3>3
  <2>9. SlotsBusy'
    BY <1>1, <1>10, <1>12, <2>1, <2>2 DEF SlotsBusy
  <2> QED BY <1>9, <2>4, <2>5, <2>6, <2>7, <2>8, <2>9 DEF RefInv, Running
<1> QED BY <1>11, <1>12

\* With nothing in flight no slot is in use; unless something was cut short the
\* whole file was handed out and every byte of it is settled, so that ftruncate
\* to `copied` removes nothing.  A cut copy only loses its tail.
LEMMA FinishCounts ==
    ASSUME IndInv, CountInv, RefInv, pc = "loop", inflight = 0
    PROVE  /\ kernel = {} /\ cq = {}
           /\ copied \in Nat /\ copied <= dstLen /\ dstLen <= file_size
           /\ ~cut => /\ copied = file_size /\ dstLen = file_size
                      /\ \A x \in 0 .. file_size - 1 : dst[x] = x
<1> USE CopyAssumption
<1>1. /\ Running /\ next_off \in Nat /\ next_off <= file_size /\ copied \in Nat
      /\ dstLen \in Nat /\ dstLen <= file_size
      /\ file_size \in Nat /\ file_size <= MaxFileSize
  BY DEF RefInv, DstBounds, IndInv, TypeOK, InFile
<1>2. kernel = {} /\ cq = {}
  <2>1. /\ IsFiniteSet(sq) /\ IsFiniteSet(kernel) /\ IsFiniteSet(cq)
        /\ Cardinality(sq) \in Nat /\ Cardinality(kernel) \in Nat
        /\ Cardinality(cq) \in Nat
        /\ 0 = Cardinality(sq) + Cardinality(kernel) + Cardinality(cq)
    BY FS_CardinalityType DEF CountInv, InflightExact
  <2>2. Cardinality(kernel) = 0 /\ Cardinality(cq) = 0
    <3>1. \A a, b, d \in Nat : 0 = a + b + d => b = 0 /\ d = 0
      OBVIOUS
    <3> QED BY <2>1, <3>1
  <2> QED BY <2>1, <2>2, FS_EmptySet
<1>3. \A s \in Slots : ~slots[s].active
  BY <1>1, <1>2 DEF Running, SlotsBusy
<1>4. \A x \in 0 .. next_off - 1 : x \in Offsets
  BY <1>1 DEF Offsets
<1>5. copied <= dstLen
  <2>1. Settled \subseteq 0 .. dstLen - 1
    <3>1. ASSUME NEW x \in Settled PROVE x \in 0 .. dstLen - 1
      <4>1. x \in 0 .. next_off - 1 /\ dst[x] = x
        BY DEF Settled
      <4>2. x \in Offsets /\ dst[x] # Junk
        BY <1>1, <1>4, <4>1 DEF Junk
      <4>3. x < dstLen
        BY <4>2 DEF RefInv, DstBounds
      <4> QED BY <1>1, <4>1, <4>3
    <3> QED BY <3>1
  <2>2. IsFiniteSet(0 .. dstLen - 1) /\ Cardinality(0 .. dstLen - 1) = dstLen
    <3>1. 0 \in Int /\ dstLen - 1 \in Int
      BY <1>1
    <3>2. /\ IsFiniteSet(0 .. dstLen - 1)
          /\ Cardinality(0 .. dstLen - 1) =
                IF 0 > dstLen - 1 THEN 0 ELSE (dstLen - 1) - 0 + 1
      BY <3>1, FS_Interval
    <3> QED BY <1>1, <3>2
  <2>3. Cardinality(Settled) <= dstLen
    <3>1. Cardinality(Settled) <= Cardinality(0 .. dstLen - 1)
      BY <2>1, <2>2, FS_Subset
    <3> QED BY <2>2, <3>1
  <2>4. copied <= Cardinality(Settled) /\ Cardinality(Settled) \in Nat
    BY <1>1, SettledSize DEF Running, CopiedExact, IndInv
  <2> QED BY <1>1, <2>3, <2>4
<1>6. ASSUME ~cut
      PROVE  /\ copied = file_size /\ dstLen = file_size
             /\ \A x \in 0 .. file_size - 1 : dst[x] = x
  <2>1. next_off = file_size
    BY <1>1, <1>6 DEF Running, SlotsBusy
  <2>2. \A x \in 0 .. file_size - 1 : dst[x] = x
    BY <1>1, <1>3, <1>6, <2>1 DEF Running, FullLengths
  <2>3. Settled = 0 .. file_size - 1
    BY <1>3, <2>1, <2>2 DEF Settled
  <2>4. Cardinality(0 .. file_size - 1) = file_size
    <3>1. 0 \in Int /\ file_size - 1 \in Int
      BY <1>1
    <3>2. Cardinality(0 .. file_size - 1) =
             IF 0 > file_size - 1 THEN 0 ELSE (file_size - 1) - 0 + 1
      BY <3>1, FS_Interval
    <3> QED BY <1>1, <3>2
  <2>5. copied = file_size
    BY <1>1, <1>6, <2>3, <2>4 DEF Running, CopiedExact
  <2> QED BY <1>1, <1>5, <2>2, <2>5
<1> QED BY <1>1, <1>2, <1>5, <1>6

\* The end of the loop and the cleanup: what `ret` promises is there.
LEMMA EndRef ==
    ASSUME IndInv, IndInv', CountInv, RefInv, Finish \/ FreeSlots \/ QueueExit
    PROVE  RefInv'
<1> USE CopyAssumption
<1>1. CASE FreeSlots
  BY <1>1 DEF FreeSlots, RefInv, DstBounds, Ends, CopyComplete
<1>2. CASE QueueExit
  BY <1>2 DEF QueueExit, RefInv, DstBounds, Ends
<1>3. CASE Finish
  <2>1. /\ pc = "loop" /\ inflight = 0 /\ pc' = "out" /\ Truncate
        /\ UNCHANGED <<file_size, kernel, cut>>
    BY <1>3 DEF Finish
  <2>2. /\ kernel = {}
        /\ copied \in Nat /\ copied <= dstLen /\ dstLen <= file_size
        /\ ~cut => /\ copied = file_size /\ dstLen = file_size
                   /\ \A x \in 0 .. file_size - 1 : dst[x] = x
    BY <2>1, FinishCounts
  <2>3. /\ dstLen \in Nat /\ file_size \in Nat /\ file_size <= MaxFileSize
        /\ Offsets = 0 .. MaxFileSize - 1
    BY DEF IndInv, TypeOK, Offsets
  <2>4. DstBounds'
    <3>1. CASE UNCHANGED <<dst, dstLen>>
      BY <2>1, <3>1 DEF RefInv, DstBounds
    <3>2. CASE /\ dst' = [x \in Offsets |-> IF x < copied THEN dst[x] ELSE Junk]
               /\ dstLen' = copied
      BY <2>1, <2>2, <2>3, <3>2 DEF DstBounds
    <3> QED BY <2>1, <3>1, <3>2 DEF Truncate
  <2>5. CopyComplete'
    <3>1. CASE cut
      BY <2>1, <3>1 DEF CopyComplete
    <3>2. CASE ~cut
      <4>1. CASE UNCHANGED <<dst, dstLen>>
        BY <2>1, <2>2, <3>2, <4>1 DEF CopyComplete
      <4>2. CASE /\ dst' = [x \in Offsets |-> IF x < copied THEN dst[x] ELSE Junk]
                 /\ dstLen' = copied
        BY <2>1, <2>2, <2>3, <3>2, <4>2 DEF CopyComplete
      <4> QED BY <2>1, <4>1, <4>2 DEF Truncate
    <3> QED BY <3>1, <3>2
  <2> QED BY <2>1, <2>2, <2>4, <2>5 DEF RefInv, Ends
<1> QED BY <1>1, <1>2, <1>3

\* Every step preserves what the refinement rests on.
LEMMA RefNext == IndInv /\ CountInv /\ RefInv /\ [Next]_vars => RefInv'
<1> SUFFICES ASSUME IndInv, CountInv, RefInv, [Next]_vars PROVE RefInv'
  OBVIOUS
<1>1. IndInv'
  BY NextInv
<1>2. CASE Pipeline
  BY <1>1, <1>2, SetupRef, PrimeRef, SubmitPrimedRef, LeaveRef, ReadEofRef,
     ReadDoneRef, WriteDoneRef, EndRef
  DEF Pipeline
<1>3. CASE WaitFails
  BY <1>1, <1>3, LeaveRef
<1>4. CASE Kernel
  BY <1>1, <1>4, KernelRef
<1>5. CASE UNCHANGED vars
  BY <1>5 DEF vars, pipeVars, RefInv, DstBounds, Ends, CopyComplete, Running,
              RangesApart, WritesLanded, FullLengths, CopiedExact, SlotsBusy,
              Settled, RangeOf
<1> QED BY <1>2, <1>3, <1>4, <1>5 DEF Next, Terminated

\* Nothing is in the kernel when a call that went well frees its buffers, so
\* only a failing call can have stored a byte that was not the source's.
LEMMA FaithNext ==
    IndInv /\ RefInv /\ DstFaithful /\ [Next]_vars => DstFaithful'
<1> SUFFICES ASSUME IndInv, RefInv, DstFaithful, [Next]_vars,
                    NEW x \in Offsets, dst'[x] \notin {Junk, x}
             PROVE  dst'[x] = Foreign /\ freed' /\ ret' \notin {"ok", "fsync"}
  BY DEF DstFaithful
<1>1. dst'[x] = Foreign /\ freed'
  BY NextInv DEF IndInv, DstBytes
<1>2. CASE FreeSlots
  <2>1. ~freed /\ dst' = dst
    BY <1>2 DEF FreeSlots, IndInv, Phases
  <2> QED BY <2>1 DEF DstFaithful
<1>3. CASE Kernel
  <2>1. freed' = freed /\ ret' = ret /\ kernel # {}
    BY <1>3 DEF Kernel, KernelRead, KernelWrite, KernelError, Complete, pipeVars
  <2>2. pc \in {"exit", "done"}
    BY <1>1, <2>1 DEF IndInv, TypeOK, Phases
  <2> QED BY <1>1, <2>1, <2>2 DEF RefInv, Ends
<1>4. CASE QueueExit \/ UNCHANGED vars
  BY <1>1, <1>4 DEF QueueExit, vars, pipeVars, DstFaithful
<1>5. CASE \/ SetupFails \/ Setup \/ Prime \/ SubmitPrimed \/ Finish \/ WaitFails
           \/ \E c \in cq : \/ CqeRejected(c) \/ ReadEof(c) \/ ReadDone(c)
                            \/ WriteDone(c) \/ WriteCancelled(c)
  <2>1. freed' = freed /\ pc \in {"setup", "prime", "loop"}
    BY <1>5 DEF SetupFails, Setup, Prime, SubmitPrimed, Finish, WaitFails,
                CqeRejected, ReadEof, ReadDone, WriteDone, WriteCancelled, Reaped
  <2> QED BY <1>1, <2>1 DEF IndInv, Phases
<1> QED BY <1>2, <1>3, <1>4, <1>5 DEF Next, Pipeline, Terminated

\* Whatever completes short, fails or arrives out of order, a byte stored in
\* the destination is the source's byte of that offset; only a call that goes on
\* to return an error may store what it finds in a buffer it has freed.
THEOREM CopyDstFaithful == Spec => []DstFaithful
<1>1. Init => CountInv /\ RefInv /\ DstFaithful
  BY CopyAssumption, FS_EmptySet
  DEF Init, CountInv, InflightExact, RefInv, DstBounds, Ends, DstFaithful
<1> QED BY <1>1, CopyInvariant, CountNext, RefNext, FaithNext, PTL DEF Spec

\* Each step of the pipeline or of the kernel is a step of the abstract copy, or
\* changes nothing it speaks of.
LEMMA StepRefines ==
    ASSUME IndInv, CountInv, RefInv, [Next]_vars
    PROVE  [FC!FCNext]_(FC!copyVars)
<1> USE CopyAssumption
<1>1. /\ file_size \in Nat /\ dstLen \in Nat /\ DOMAIN dst = Offsets
      /\ Offsets = 0 .. MaxFileSize - 1 /\ cut \in BOOLEAN /\ dstLen <= file_size
      /\ file_size <= MaxFileSize
  BY DEF IndInv, TypeOK, Offsets, RefInv, DstBounds
<1>2. IndInv' /\ RefInv'
  BY NextInv, RefNext
<1>f. pc \in {"setup", "prime", "loop", "out"} => ~freed /\ Outcome = "running"
  BY DEF IndInv, Phases, Outcome
\* Steps the abstract copy does not see.
<1>3. CASE UNCHANGED <<file_size, dst, dstLen, cut, Outcome>>
  BY <1>3 DEF FC!copyVars
\* The call returns.
<1>4. ASSUME UNCHANGED <<file_size, dst, dstLen, cut>>, pc # "done", pc' = "done",
             Outcome = "running" \/ ret' # "ok",
             ret' = "ok" =>
                cut \/ (dstLen = file_size /\ \A x \in 0 .. file_size - 1 : dst[x] = x)
      PROVE  FC!FCNext
  <2>1. Outcome \in {"running", "failing"}
    BY <1>4 DEF Outcome
  <2>2. CASE ret' = "ok"
    <3>1. Outcome' = "ok"
      BY <1>4, <2>2 DEF Outcome
    <3>2. FC!Succeed
      BY <1>4, <2>2, <3>1 DEF FC!Succeed
    <3> QED BY <3>2 DEF FC!FCNext
  <2>3. CASE ret' # "ok"
    <3>1. Outcome' = "error"
      BY <1>4, <2>3 DEF Outcome
    <3>2. FC!Fail
      BY <1>4, <2>1, <3>1 DEF FC!Fail, FC!Open
    <3> QED BY <3>2 DEF FC!FCNext
  <2> QED BY <2>2, <2>3
<1>5. CASE Setup \/ SetupFails
  <2>1. /\ UNCHANGED <<file_size, dst, dstLen, cut>> /\ pc = "setup"
        /\ pc' = "prime" \/ (pc' = "done" /\ (file_size = 0 \/ ret' = "setup"))
        /\ dstLen = 0
    BY <1>5 DEF Setup, SetupFails, RefInv, Ends
  <2>2. CASE pc' = "done"
    BY <1>1, <1>4, <1>f, <2>1, <2>2
  <2>3. CASE pc' = "prime"
    BY <1>2, <1>3, <1>f, <2>1, <2>3 DEF IndInv, Phases, Outcome
  <2> QED BY <2>1, <2>2, <2>3
<1>6. CASE QueueExit
  <2>1. /\ UNCHANGED <<file_size, dst, dstLen, cut, ret>> /\ pc = "exit" /\ pc' = "done"
    BY <1>6 DEF QueueExit
  <2>2. ret = "ok" => CopyComplete
    BY <2>1 DEF RefInv, Ends
  <2>3. ret = "ok" => Outcome = "running"
    BY <2>1 DEF Outcome
  <2> QED BY <1>4, <2>1, <2>2, <2>3 DEF CopyComplete
<1>7. CASE Finish
  <2>1. /\ pc = "loop" /\ inflight = 0 /\ pc' = "out" /\ Truncate
        /\ UNCHANGED <<file_size, cut>>
    BY <1>7 DEF Finish
  <2>2. /\ copied \in Nat /\ copied <= dstLen
        /\ ~cut => copied = file_size /\ dstLen = file_size
    BY <2>1, FinishCounts
  <2>3. Outcome = "running" /\ Outcome' = "running"
    BY <1>2, <1>f, <2>1 DEF IndInv, Phases, Outcome
  <2>4. CASE UNCHANGED <<dst, dstLen>>
    BY <1>3, <2>1, <2>3, <2>4
  <2>5. CASE /\ dst' = [x \in Offsets |-> IF x < copied THEN dst[x] ELSE Junk]
             /\ dstLen' = copied
    <3>1. CASE cut
      <4>1. dstLen' \in 0 .. dstLen
        BY <1>1, <2>2, <2>5
      <4>2. dst' = [x \in DOMAIN dst |-> IF x < dstLen' THEN dst[x] ELSE FC!Hole]
        BY <1>1, <2>5 DEF FC!Hole, Junk
      <4>3. FC!Shorten
        BY <2>1, <2>3, <3>1, <4>1, <4>2 DEF FC!Shorten
      <4> QED BY <4>3 DEF FC!FCNext
    <3>2. CASE ~cut
      <4>1. \A x \in Offsets : ~(x < copied) => dst[x] = Junk
        BY <2>2, <3>2 DEF RefInv, DstBounds
      <4>2. dst' = dst
        BY <1>1, <2>5, <4>1 DEF IndInv, TypeOK
      <4> QED BY <1>3, <2>1, <2>2, <2>3, <2>5, <3>2, <4>2
    <3> QED BY <3>1, <3>2
  <2> QED BY <2>1, <2>4, <2>5 DEF Truncate
\* The kernel stores bytes.
<1>8. CASE Kernel
  <2>1. PICK o \in kernel : KernelRead(o) \/ KernelWrite(o) \/ KernelError(o)
    BY <1>8 DEF Kernel
  <2>2. PICK res : Complete(o, res)
    BY <2>1 DEF KernelRead, KernelWrite, KernelError
  <2>3. /\ UNCHANGED <<file_size, pc, ret, freed>> /\ cut' = (cut \/ res < o.len)
    BY <2>2 DEF Complete, pipeVars
  <2>4. cut' \in {cut, TRUE}
    <3>1. cut \in BOOLEAN /\ cut' \in BOOLEAN /\ (cut => cut')
      BY <1>2, <2>3, Zenon DEF IndInv, TypeOK
    <3> QED BY <3>1
  <2>5. /\ Outcome' = Outcome /\ Outcome \in {"running", "failing"}
        /\ freed => Outcome = "failing"
    <3>1. pc # "done" /\ (pc = "exit" => ret # "ok")
      BY <2>1 DEF RefInv, Ends
    <3>2. freed => pc = "exit"
      BY <3>1 DEF IndInv, TypeOK, Phases
    <3> QED BY <2>3, <3>1, <3>2 DEF Outcome
  <2>6. DOMAIN dst' = DOMAIN dst
    BY <1>1, <1>2 DEF IndInv, TypeOK
  <2>7. /\ \A x \in Offsets : \/ dst'[x] = dst[x]
                              \/ x < file_size /\ dst'[x] = x
                              \/ x < file_size /\ dst'[x] = Foreign /\ freed
        /\ dstLen' \in dstLen .. file_size
    <3>1. CASE UNCHANGED <<dst, dstLen>>
      BY <1>1, <3>1
    <3>2. CASE KernelWrite(o)
      <4>1. /\ dstLen' >= dstLen /\ dstLen' <= file_size /\ dstLen' \in Nat
        <5>1. dstLen' \in Nat /\ dstLen' <= file_size
          BY <1>2, <2>3 DEF IndInv, TypeOK, RefInv, DstBounds
        <5>2. PICK n : dstLen' = Greater(dstLen, n)
          BY <3>2 DEF KernelWrite
        <5> QED BY <1>1, <5>1, <5>2 DEF Greater
      <4>2. ASSUME NEW x \in Offsets, dst'[x] # dst[x]
            PROVE  x < file_size /\ (dst'[x] = x \/ (dst'[x] = Foreign /\ freed))
        <5>1. /\ dst'[x] \in {Junk, x} \/ (dst'[x] = Foreign /\ freed)
              /\ dst'[x] # Junk => x < dstLen'
          BY <1>2, <2>3 DEF IndInv, DstBytes, RefInv, DstBounds
        <5>2. dst'[x] # Junk
          <6>1. PICK r \in WriteResults(o), bytes \in Contents(o.slot) :
                   dst' = [y \in Offsets |->
                             IF y \in o.off .. o.off + r - 1
                             THEN bytes[y - o.off] ELSE dst[y]]
            BY <3>2 DEF KernelWrite
          <6>2. /\ o.off \in Nat /\ o.len \in Nat /\ r \in Nat /\ r <= o.len
                /\ o.op = "write"
            BY <3>2, <6>1 DEF IndInv, TypeOK, Op, WriteResults, KernelWrite
          <6>3. x \in o.off .. o.off + r - 1 /\ dst'[x] = bytes[x - o.off]
            BY <4>2, <6>1
          <6>4. x - o.off \in Offsets /\ x - o.off < o.len
            BY <1>1, <6>2, <6>3
          <6>5. buf[o.slot][x - o.off] = o.off + (x - o.off)
            BY <6>2, <6>4 DEF IndInv, OpsMatch
          <6>6. bytes[x - o.off] \in {o.off + (x - o.off), Foreign}
            BY <6>4, <6>5 DEF Contents
          <6> QED BY <1>1, <6>2, <6>3, <6>6 DEF Junk, Foreign
        <5>3. x \in Nat
          BY <1>1
        <5> QED BY <1>1, <4>1, <5>1, <5>2, <5>3
      <4> QED BY <1>1, <4>1, <4>2
    <3> QED BY <2>1, <3>1, <3>2 DEF KernelRead, KernelError
  <2>8. FC!Store
    BY <1>1, <2>3, <2>4, <2>5, <2>6, <2>7
    DEF FC!Store, FC!Open, FC!Nobodys, Foreign
  <2> QED BY <2>8 DEF FC!FCNext
\* The buffers are let go: nothing to see after a success, the end otherwise.
<1>g. CASE FreeSlots
  <2>1. /\ UNCHANGED <<file_size, dst, dstLen, cut, ret>> /\ Outcome = "running"
        /\ pc' = "exit" /\ freed'
    BY <1>f, <1>g DEF FreeSlots
  <2>2. CASE ret = "ok"
    BY <1>3, <2>1, <2>2 DEF Outcome
  <2>3. CASE ret # "ok"
    <3>1. FC!GiveUp
      BY <2>1, <2>3 DEF FC!GiveUp, Outcome
    <3> QED BY <3>1 DEF FC!FCNext
  <2> QED BY <2>2, <2>3
<1>9. CASE Prime \/ SubmitPrimed \/ WaitFails
           \/ \E c \in cq : \/ CqeRejected(c) \/ ReadEof(c) \/ ReadDone(c)
                            \/ WriteDone(c) \/ WriteCancelled(c)
  <2>1. /\ UNCHANGED <<file_size, dst, dstLen, cut, freed>>
        /\ pc \in {"prime", "loop"} /\ pc' # "done"
    BY <1>9 DEF Prime, SubmitPrimed, Submit, WaitFails, CqeRejected,
                ReadEof, ReadDone, WriteDone, WriteCancelled, Reaped, NoSqe
  <2> QED BY <1>3, <1>f, <2>1 DEF Outcome
<1>10. CASE UNCHANGED vars
  BY <1>3, <1>10 DEF vars, pipeVars, Outcome
<1> QED BY <1>5, <1>6, <1>7, <1>8, <1>9, <1>10, <1>g DEF Next, Pipeline, Terminated

\* uring_copy_path_dynamic implements the abstract copy: bytes land at their own
\* offset until a failing call has freed its buffers, success means a complete
\* copy unless the system moved less than it was asked to, and nothing is stored
\* once the call has returned.
THEOREM CopyRefinesFileCopy == Spec => CopyRefines
<1>1. Init => FC!FCInit
  BY DEF Init, FC!FCInit, FC!Hole, Junk, Offsets, Outcome
<1>2. Init => CountInv /\ RefInv
  <2>1. Init => CountInv
    BY FS_EmptySet DEF Init, CountInv, InflightExact
  <2>2. Init => RefInv
    BY CopyAssumption DEF Init, RefInv, DstBounds, Ends
  <2> QED BY <2>1, <2>2
<1>3. IndInv /\ CountInv /\ RefInv /\ [Next]_vars => [FC!FCNext]_(FC!copyVars)
  BY StepRefines
<1> QED BY <1>1, <1>2, <1>3, CopyInvariant, CountNext, RefNext, PTL
        DEF Spec, CopyRefines, FC!FCSpec

=============================================================================

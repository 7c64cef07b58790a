------------------------------ MODULE FileCopy ------------------------------
(***************************************************************************)
(* What uring_copy_path_dynamic promises, whatever order its reads and     *)
(* writes complete in: the destination only ever receives bytes of the     *)
(* source, each at its own offset, and the call reports success only when  *)
(* the destination is the source, or when a transfer was cut short.  A     *)
(* failed call may leave any part of it behind and, between giving up and  *)
(* returning, may store bytes that are nobody's.                           *)
(***************************************************************************)
EXTENDS Integers

CONSTANT MaxFileSize

VARIABLES size,     \* length of the source
          dst,      \* offset |-> the source offset of the byte there, or Hole
          dstLen,   \* length of the destination
          cut,      \* the system has moved less than it was asked to
          outcome   \* "running", "failing", "ok" or "error"

copyVars == <<size, dst, dstLen, cut, outcome>>

Hole == -1
Nobodys == -2

Open == outcome \in {"running", "failing"}

FCInit ==
    /\ size \in 0 .. MaxFileSize
    /\ dst = [x \in 0 .. MaxFileSize - 1 |-> Hole]
    /\ dstLen = 0
    /\ cut = FALSE
    /\ outcome = "running"

\* Some offsets below `size` receive the source byte of the same offset, or
\* any byte once the call is failing; a transfer may be cut short.
Store ==
    /\ Open
    /\ \A x \in DOMAIN dst :
          \/ dst'[x] = dst[x]
          \/ x < size /\ dst'[x] = x
          \/ x < size /\ dst'[x] = Nobodys /\ outcome = "failing"
    /\ DOMAIN dst' = DOMAIN dst
    /\ dstLen' \in dstLen .. size
    /\ cut' \in {cut, TRUE}
    /\ UNCHANGED <<size, outcome>>

\* After a cut the destination may lose its tail.
Shorten ==
    /\ outcome = "running"
    /\ cut
    /\ dstLen' \in 0 .. dstLen
    /\ dst' = [x \in DOMAIN dst |-> IF x < dstLen' THEN dst[x] ELSE Hole]
    /\ UNCHANGED <<size, cut, outcome>>

Succeed ==
    /\ outcome = "running"
    /\ cut \/ (dstLen = size /\ \A x \in 0 .. size - 1 : dst[x] = x)
    /\ outcome' = "ok"
    /\ UNCHANGED <<size, dst, dstLen, cut>>

\* The call is lost: it lets go of its memory, and returns an error.
GiveUp ==
    /\ outcome = "running"
    /\ outcome' = "failing"
    /\ UNCHANGED <<size, dst, dstLen, cut>>

Fail ==
    /\ Open
    /\ outcome' = "error"
    /\ UNCHANGED <<size, dst, dstLen, cut>>

FCNext == Store \/ Shorten \/ Succeed \/ GiveUp \/ Fail

FCSpec == FCInit /\ [][FCNext]_copyVars
=============================================================================

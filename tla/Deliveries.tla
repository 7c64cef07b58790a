----------------------------- MODULE Deliveries -----------------------------
(***************************************************************************)
(* What UringAsync promises the tasks that wait on one ring, whatever the  *)
(* loop does in between: completions are taken in the order they arrived   *)
(* and go to waits in the order those began, one each, past no task that   *)
(* is waiting.  A wait ends once, with a completion or without.  One that  *)
(* has ended without may still cost one completion, never two; no other is *)
(* lost, unless somebody else uses the ring.                               *)
(***************************************************************************)
EXTENDS Integers, Sequences, FiniteSets

CONSTANT MaxWaits

VARIABLES posted,   \* completions in the order they arrived
          taken,    \* how many of them have left the ring
          state,    \* wait |-> "none", "pending", "result" or "ended"
          given,    \* wait |-> the completion it was given, or 0
          gone,     \* ended waits that cost nothing any more
          shared    \* somebody else has used the ring

deliveryVars == <<posted, taken, state, given, gone, shared>>

Tasks == 1 .. MaxWaits
Waiting == {k \in Tasks : state[k] = "pending"}
Ended == {k \in Tasks : state[k] = "ended"}

DInit ==
    /\ posted = <<>> /\ taken = 0
    /\ state = [k \in Tasks |-> "none"] /\ given = [k \in Tasks |-> 0]
    /\ gone = {} /\ shared = FALSE

\* A wait begins, after all those that began before.
Join(k) ==
    /\ \A j \in k .. MaxWaits : state[j] = "none"
    /\ state' = [state EXCEPT ![k] = "pending"]
    /\ UNCHANGED <<posted, taken, given, gone, shared>>

\* Operation o completes, for the first time.
Post(o) ==
    /\ \A i \in 1 .. Len(posted) : posted[i] # o
    /\ posted' = Append(posted, o)
    /\ UNCHANGED <<taken, state, given, gone, shared>>

\* The waits of T are next in line.  Each takes the next completion.
Serve(T) ==
    /\ T \subseteq Waiting \cup (Ended \ gone)
    /\ \A k \in T, j \in Waiting : j < k => j \in T
    /\ taken' = taken + Cardinality(T)
    /\ taken' <= Len(posted)
    /\ state' = [k \in Tasks |-> IF k \in T \cap Waiting THEN "result" ELSE state[k]]
    /\ given' = [k \in Tasks |->
                   IF k \in T \cap Waiting
                   THEN posted[taken + Cardinality({j \in T : j <= k})]
                   ELSE given[k]]
    /\ gone' = gone \cup (T \ Waiting)
    /\ UNCHANGED <<posted, shared>>

\* The waits of T end without a completion; ended ones leave the line.
End(T) ==
    /\ T \subseteq Waiting
    /\ state' = [k \in Tasks |-> IF k \in T THEN "ended" ELSE state[k]]
    /\ gone \subseteq gone' /\ gone' \subseteq Ended \cup T
    /\ UNCHANGED <<posted, taken, given, shared>>

\* Somebody else takes completions, or destroys the ring.
Intrude ==
    /\ shared' = TRUE
    /\ taken' \in taken .. Len(posted)
    /\ UNCHANGED <<posted, state, given, gone>>

DNext ==
    \/ \E k \in Tasks : Join(k) \/ Post(k)
    \/ \E T \in SUBSET Tasks : Serve(T) \/ End(T)
    \/ Intrude

DSpec == DInit /\ [][DNext]_deliveryVars
=============================================================================

-------------------------- MODULE EntryPointProofs --------------------------
(***************************************************************************)
(* Proofs about the functions a program calls without an object of its own *)
(* to call them on.  Orchestrate: copy, write and write_many end as their  *)
(* arguments ask, for every request, every callback and every combination  *)
(* of faults.  AioHelpers: sendfile_splice, iter_multishot_accept and      *)
(* wait_completion_in_executor account for the completions of the ring     *)
(* they share, for every file, every number of connections and of other    *)
(* operations.  The two modules have no variable in common.                *)
(***************************************************************************)
EXTENDS Orchestrate, AioHelpers, SequenceTheorems, FiniteSetTheorems, TLAPS

-----------------------------------------------------------------------------
(* copy, write and write_many *)

\* Before the C function opens its files nothing has happened.
NothingDone ==
    /\ total = 0 /\ handed = 0 /\ retired = 0 /\ written = 0 /\ synced = 0
    /\ ~touched /\ ~cut /\ ~undurable /\ ~stopped

\* What the C function was asked for is what the caller asked for, but for
\* the fsync of a copy that goes through copy_path and what ctypes wraps.
ArgsMatch ==
    /\ args.fn = req.fn
    /\ args.qd \in Nat /\ args.block \in Nat
    /\ args.cb \in {"null", "fixed", "adaptive", "user"}
    /\ req.fn # "copy" => args.mb = AsUint(req.size)
    /\ args.nfiles = IF req.fn = "write_many" THEN AsUint(req.nfiles) ELSE 1
    /\ (req.fn # "copy" \/ req.mode = "auto" \/ Extras) => (args.fsync <=> EndAsked)
    /\ args.dsync <=> DataAsked
    /\ args.dsync => req.fn = "write"

\* How far a pipeline under way has come.
Advance ==
    /\ total \in Nat \ {0} /\ handed \in 0 .. total /\ retired \in Nat
    /\ ~cut => retired = 0 /\ written = handed
    /\ retired # 0 => req.fn = "copy"

\* The bookkeeping of a pipeline under way.
Progress ==
    /\ args.qd > 0 /\ args.block > 0 /\ ~stopped
    /\ ~Wrapped => total = Asked
    /\ args.dsync => ~undurable
    /\ req.fn = "write" => handed = 0 \/ undurable \/ args.dsync
    /\ ~args.fsync => synced = 0

CallInv ==
    /\ req \in Requests
    /\ pc = "called" => NothingDone
    /\ pc = "native" => NothingDone /\ ArgsMatch
    /\ pc = "run" => ArgsMatch /\ Advance /\ Progress /\ synced = 0
    /\ pc = "sync" => ArgsMatch /\ Advance /\ Progress /\ ~More
    /\ EndsAsAsked

\* A request has the type of the arguments of the three functions.
LEMMA RequestTypes ==
    ASSUME req \in Requests
    PROVE  /\ req.fn \in {"copy", "write", "write_many"} /\ req.mode \in Modes
           /\ req.qd \in Nat /\ req.block \in Nat /\ req.size \in Nat
           /\ req.nfiles \in Nat
           /\ req.fsync \in BOOLEAN /\ req.dsync \in BOOLEAN
           /\ req.fn # "write" => ~req.dsync
           /\ req.fn = "write_many" => ~req.cb /\ ~req.progress
<1>1. /\ req \in [fn : {"copy", "write", "write_many"}, mode : Modes, qd : QDs,
                  block : Blocks, size : Sizes \cup MBs, nfiles : FileCounts \cup {1},
                  fsync : BOOLEAN, dsync : BOOLEAN, policy : Policies,
                  cb : BOOLEAN, progress : BOOLEAN]
      /\ req.fn # "write" => ~req.dsync
      /\ req.fn = "write_many" => ~req.cb /\ ~req.progress
  BY Zenon DEF Requests
<1>2. /\ req.fn \in {"copy", "write", "write_many"} /\ req.mode \in Modes
      /\ req.qd \in QDs /\ req.block \in Blocks /\ req.size \in Sizes \cup MBs
      /\ req.nfiles \in FileCounts \cup {1}
      /\ req.fsync \in BOOLEAN /\ req.dsync \in BOOLEAN
  BY <1>1
<1>3. QDs \cup Blocks \cup Sizes \cup MBs \cup FileCounts \cup UserSizes \subseteq Nat
  BY OrchestrateAssumption
<1>4. 1 \in Nat
  OBVIOUS
<1>5. req.qd \in Nat /\ req.block \in Nat /\ req.size \in Nat /\ req.nfiles \in Nat
  BY <1>2, <1>3, <1>4, Zenon
<1> QED BY <1>1, <1>2, <1>5

\* ctypes gives a natural number below 2^32, the same one if it fits.
LEMMA AsUintOK ==
    ASSUME NEW n \in Nat
    PROVE  AsUint(n) \in Nat /\ (n < UintMod => AsUint(n) = n)
<1>1. UintMod \in Nat /\ UintMod > 1
  BY OrchestrateAssumption
<1> QED BY <1>1 DEF AsUint

\* The presets give natural numbers.
LEMMA TuningTypes ==
    ASSUME NEW mode, NEW qd \in Nat, NEW block \in Nat
    PROVE  /\ ResolveCopyTuning(mode, qd, block)[1] \in Nat
           /\ ResolveCopyTuning(mode, qd, block)[2] \in Nat
           /\ ResolveWriteTuning(mode, qd, block)[1] \in Nat
           /\ ResolveWriteTuning(mode, qd, block)[2] \in Nat
<1>1. \A a, b \in Nat : Lesser(a, b) \in Nat /\ Greater(a, b) \in Nat
  BY DEF Lesser, Greater
<1>2. /\ CopySafeQD \in Nat /\ CopySafeBlock \in Nat /\ CopyFastQD \in Nat
      /\ CopyFastBlock \in Nat /\ WriteSafeQD \in Nat /\ WriteSafeBlock \in Nat
      /\ WriteFastQD \in Nat /\ WriteFastBlock \in Nat
  BY OrchestrateAssumption
<1>3. CASE mode = "safe"
  BY <1>1, <1>2, <1>3 DEF ResolveCopyTuning, ResolveWriteTuning
<1>4. CASE mode = "fast"
  BY <1>1, <1>2, <1>4 DEF ResolveCopyTuning, ResolveWriteTuning
<1>5. CASE mode \notin {"safe", "fast"}
  BY <1>5 DEF ResolveCopyTuning, ResolveWriteTuning
<1> QED BY <1>3, <1>4, <1>5

\* copy, write and write_many hand the sync policy on as it was asked for.
LEMMA DispatchInv == ASSUME CallInv, Dispatch PROVE CallInv'
<1>1. /\ pc = "called" /\ pc' = "native" /\ NothingDone /\ req \in Requests
      /\ req.policy \in IF req.fn = "write" THEN WritePolicies ELSE CopyPolicies
      /\ args' = CASE req.fn = "copy" -> Copy
                   [] req.fn = "write" -> Write
                   [] req.fn = "write_many" -> WriteMany
      /\ UNCHANGED <<req, max_buffer, total, touched, synced, result>>
      /\ UNCHANGED moving
  BY DEF Dispatch, CallInv
<1>2. NothingDone'
  BY <1>1 DEF NothingDone, moving
<1>3. /\ req.fn \in {"copy", "write", "write_many"}
      /\ req.fsync \in BOOLEAN /\ req.dsync \in BOOLEAN
      /\ req.fn # "write" => ~req.dsync
  BY <1>1, RequestTypes
<1>4. SUFFICES ArgsMatch'
  BY <1>1, <1>2 DEF CallInv, EndsAsAsked
<1> DEFINE ct == ResolveCopyTuning(req.mode, req.qd, req.block)
           wt == ResolveWriteTuning(req.mode, req.qd, req.block)
<1>5. /\ AsUint(ct[1]) \in Nat /\ AsUint(ct[2]) \in Nat
      /\ AsUint(wt[1]) \in Nat /\ AsUint(wt[2]) \in Nat
  <2>1. req.qd \in Nat /\ req.block \in Nat
    BY <1>1, RequestTypes
  <2>2. ct[1] \in Nat /\ ct[2] \in Nat /\ wt[1] \in Nat /\ wt[2] \in Nat
    BY <2>1, TuningTypes
  <2> QED BY <2>2, AsUintOK
<1>6. CASE req.fn = "copy"
  <2>1. args' = Copy
    BY <1>1, <1>6
  <2>2. /\ args'.fn = "copy" /\ args'.dsync = FALSE /\ args'.nfiles = 1
        /\ args'.qd = AsUint(ct[1]) /\ args'.block = AsUint(ct[2])
        /\ args'.cb \in {"null", "fixed", "adaptive", "user"}
        /\ (req.mode = "auto" \/ Extras) =>
              args'.fsync = CopyFsync(req.policy, req.fsync)
    BY <2>1 DEF Copy, CopyPathDynamic, CopyPath, DefaultCb
  <2>3. ~DataAsked /\ (CopyFsync(req.policy, req.fsync) <=> EndAsked)
    BY <1>1, <1>3, <1>6 DEF DataAsked, EndAsked, CopyFsync, CopyPolicies
  <2> HIDE DEF ct, wt
  <2> QED BY <1>1, <1>5, <1>6, <2>2, <2>3 DEF ArgsMatch, DataAsked, EndAsked, Extras
<1>7. CASE req.fn = "write_many"
  <2>1. args' = WriteMany
    BY <1>1, <1>7
  <2>2. /\ args'.fn = "write_many" /\ args'.dsync = FALSE
        /\ args'.nfiles = AsUint(req.nfiles) /\ args'.mb = AsUint(req.size)
        /\ args'.qd = AsUint(wt[1]) /\ args'.block = AsUint(wt[2])
        /\ args'.cb = "null"
        /\ args'.fsync = CopyFsync(req.policy, req.fsync)
    BY <2>1 DEF WriteMany, WriteManyfiles
  <2>3. ~DataAsked /\ (CopyFsync(req.policy, req.fsync) <=> EndAsked)
    BY <1>1, <1>3, <1>7 DEF DataAsked, EndAsked, CopyFsync, CopyPolicies
  <2> HIDE DEF ct, wt
  <2> QED BY <1>1, <1>5, <1>7, <2>2, <2>3 DEF ArgsMatch, DataAsked, EndAsked, Extras
<1>8. CASE req.fn = "write"
  <2> DEFINE sync == WriteFsyncDsync(req.policy, req.fsync, req.dsync)
  <2>1. args' = Write
    BY <1>1, <1>8
  <2>2. /\ args'.fn = "write" /\ args'.fsync = sync[1] /\ args'.dsync = sync[2]
        /\ args'.mb = AsUint(req.size) /\ args'.nfiles = 1
        /\ args'.qd = AsUint(wt[1]) /\ args'.block = AsUint(wt[2])
        /\ args'.cb \in {"null", "fixed", "adaptive", "user"}
    BY <2>1 DEF Write, WriteNewfileDynamic, WriteNewfile, DefaultCb
  <2>3. (sync[1] <=> EndAsked) /\ (sync[2] <=> DataAsked)
    BY <1>1, <1>3, <1>8 DEF WriteFsyncDsync, DataAsked, EndAsked, WritePolicies
  <2> HIDE DEF ct, wt, sync
  <2> QED BY <1>1, <1>5, <1>8, <2>2, <2>3 DEF ArgsMatch, DataAsked, EndAsked, Extras
<1> QED BY <1>3, <1>6, <1>7, <1>8

\* The pipeline has something to write: all that was asked for, if ctypes
\* passed the sizes on as they are.
LEMMA SetupTotal ==
    ASSUME CallInv, Setup
    PROVE  total' \in Nat \ {0} /\ (~Wrapped => total' = Asked)
<1>1. /\ req \in Requests /\ ArgsMatch /\ ArgsValid
      /\ args.fn = "copy" => req.size > 0
      /\ total' = CASE args.fn = "copy" -> req.size
                    [] args.fn = "write" -> Greater(args.mb * MiB, args.block)
                    [] args.fn = "write_many" -> args.nfiles * (args.mb * MiB)
  BY DEF Setup, CallInv
<1>2. /\ req.fn \in {"copy", "write", "write_many"} /\ args.fn = req.fn
      /\ req.size \in Nat /\ req.nfiles \in Nat /\ args.block \in Nat
      /\ MiB \in Nat \ {0} /\ UintMod \in Nat
  BY <1>1, RequestTypes, OrchestrateAssumption DEF ArgsMatch
<1>3. \A m, n \in Nat \ {0} : m * n \in Nat \ {0}
  OBVIOUS
<1>4. CASE req.fn = "copy"
  BY <1>1, <1>2, <1>4 DEF Asked
<1>5. CASE req.fn = "write"
  <2>1. args.mb = AsUint(req.size) /\ args.mb > 0
    BY <1>1, <1>5 DEF ArgsMatch, ArgsValid
  <2>2. args.mb \in Nat \ {0} /\ (~Wrapped => args.mb = req.size)
    BY <1>2, <1>5, <2>1, AsUintOK DEF Wrapped
  <2>3. args.mb * MiB \in Nat \ {0}
    BY <1>2, <1>3, <2>2
  <2>4. Greater(args.mb * MiB, args.block) \in Nat \ {0}
    BY <1>2, <2>3 DEF Greater
  <2>5. total' = Greater(args.mb * MiB, args.block)
    BY <1>1, <1>2, <1>5
  <2> QED BY <1>5, <2>2, <2>4, <2>5 DEF Asked
<1>6. CASE req.fn = "write_many"
  <2>1. /\ args.mb = AsUint(req.size) /\ args.mb > 0
        /\ args.nfiles = AsUint(req.nfiles) /\ args.nfiles > 0
    BY <1>1, <1>6 DEF ArgsMatch, ArgsValid
  <2>2. /\ args.mb \in Nat \ {0} /\ args.nfiles \in Nat \ {0}
        /\ ~Wrapped => args.mb = req.size /\ args.nfiles = req.nfiles
    BY <1>2, <1>6, <2>1, AsUintOK DEF Wrapped
  <2>3. args.nfiles * (args.mb * MiB) \in Nat \ {0}
    BY <1>2, <1>3, <2>2
  <2>4. total' = args.nfiles * (args.mb * MiB)
    BY <1>1, <1>2, <1>6
  <2> QED BY <1>6, <2>2, <2>3, <2>4 DEF Asked
<1> QED BY <1>2, <1>4, <1>5, <1>6

\* A chunk is not empty and ends within the file.
LEMMA WantsOK ==
    ASSUME ArgsMatch, Advance, args.block > 0, More, NEW n \in Wants
    PROVE  n \in Nat \ {0} /\ handed + n \in 0 .. total /\ handed + n # 0
<1>1. args.block \in Nat /\ args.cb \in {"null", "fixed", "adaptive", "user"}
  BY DEF ArgsMatch
<1>2. total \in Nat /\ handed \in Nat /\ handed < total
  BY DEF Advance, More
<1>3. CbSizes(handed, total) \subseteq Nat
  <2>1. AdaptiveBufferSize(handed, total, args.block) \in Nat
    BY <1>1, <1>2 DEF AdaptiveBufferSize
  <2>2. UserSizes \subseteq Nat /\ UintMod \in Nat
    BY OrchestrateAssumption
  <2>3. CASE args.cb \in {"null", "fixed"}
    BY <1>1, <2>3 DEF CbSizes
  <2>4. CASE args.cb = "adaptive"
    BY <2>1, <2>4, AsUintOK DEF CbSizes
  <2>5. CASE args.cb = "user"
    <3>1. \A k \in UserSizes : AsUint(k) \in Nat
      BY <2>2, AsUintOK
    <3>2. CbSizes(handed, total)
            = {AsUint(k) : k \in UserSizes} \cup {args.block} \cup (0 .. UintMod - 1)
      BY <2>5 DEF CbSizes
    <3> QED BY <1>1, <2>2, <3>1, <3>2
  <2> QED BY <1>1, <2>3, <2>4, <2>5
<1>4. PICK k \in CbSizes(handed, total) :
         n = Lesser(IF k > 0 /\ k <= max_buffer THEN k ELSE args.block, total - handed)
  BY DEF Wants
<1>5. k \in Nat
  BY <1>3
<1>6. PICK b \in Nat \ {0} : n = Lesser(b, total - handed)
  BY <1>1, <1>4, <1>5
<1> QED BY <1>2, <1>6 DEF Lesser

\* A step that leaves the request and the arguments alone.
LEMMA ArgsKept ==
    ASSUME ArgsMatch, UNCHANGED <<req, args>>
    PROVE  ArgsMatch' /\ Asked' = Asked /\ (Wrapped' <=> Wrapped)
BY DEF ArgsMatch, Asked, Wrapped, Extras, EndAsked, DataAsked

\* A chunk, moved in full or in part, and the answer of progress_cb.
LEMMA ChunkInv == ASSUME CallInv, Chunk PROVE CallInv'
<1>1. /\ pc = "run" /\ ArgsMatch /\ Advance /\ Progress /\ synced = 0
      /\ req \in Requests /\ More
      /\ undurable' = (undurable \/ ~args.dsync)
      /\ UNCHANGED <<req, args, max_buffer, total, touched, retired, synced>>
  BY DEF Chunk, CallInv
<1>2. PICK n \in Wants : \E m \in Moved(n) :
         /\ handed' = handed + n
         /\ written' = written + m
         /\ cut' = (cut \/ m < n)
  BY DEF Chunk
<1>3. PICK m \in Moved(n) :
         /\ handed' = handed + n
         /\ written' = written + m
         /\ cut' = (cut \/ m < n)
  BY <1>2
<1>4. n \in Nat \ {0} /\ handed + n \in 0 .. total /\ handed + n # 0
  BY <1>1, WantsOK DEF Progress
<1>5. m \in Nat /\ m <= n
  BY <1>4 DEF Moved
<1>6. ~cut' => ~cut /\ m = n
  <2>1. ~cut' => ~cut /\ ~(m < n)
    BY <1>3
  <2> QED BY <1>4, <1>5, <2>1
<1>7. Advance'
  BY <1>1, <1>3, <1>4, <1>6 DEF Advance
<1>8. ArgsMatch' /\ Asked' = Asked /\ (Wrapped' <=> Wrapped)
  BY <1>1, ArgsKept
<1>9. (args.dsync => ~undurable') /\ (undurable' \/ args.dsync)
  BY <1>1, Zenon DEF Progress
<1>10. PICK a \in ProgressAnswers :
         /\ stopped' = (a[1] = "stop")
         /\ escaped' = (escaped \/ a[1] = "escape")
         /\ IF a[2] # 0 THEN Ends("ECANCELED") ELSE UNCHANGED <<pc, result>>
  BY DEF Chunk
<1>11. /\ a[2] # 0 => a[1] = "stop" \/ a[1] = "escape"
       /\ a[2] = 0 => a[1] # "stop"
  BY DEF ProgressAnswers
<1>12. CASE a[2] # 0
  <2>1. pc' = "done" /\ result' = "ECANCELED" /\ (stopped' \/ escaped')
    BY <1>10, <1>11, <1>12 DEF Ends
  <2> QED BY <1>1, <2>1 DEF CallInv, EndsAsAsked
<1>13. CASE a[2] = 0
  <2>1. pc' = "run" /\ ~stopped'
    BY <1>1, <1>10, <1>11, <1>13
  <2>2. Progress'
    BY <1>1, <1>8, <1>9, <2>1 DEF Progress
  <2> QED BY <1>1, <1>7, <1>8, <2>1, <2>2 DEF CallInv, EndsAsAsked
<1> QED BY <1>12, <1>13

\* A read that gives nothing retires its slot and leaves a gap.
LEMMA EndOfSourceInv == ASSUME CallInv, EndOfSource PROVE CallInv'
<1>1. /\ pc = "run" /\ ArgsMatch /\ Advance /\ Progress /\ synced = 0
      /\ req \in Requests /\ More /\ args.fn = "copy"
      /\ retired' = retired + 1 /\ cut' = TRUE
      /\ UNCHANGED <<pc, req, args, total, undurable, stopped, synced, result>>
  BY DEF EndOfSource, CallInv
<1>2. PICK n \in Wants : handed' = handed + n
  BY DEF EndOfSource
<1>3. handed' \in 0 .. total
  BY <1>1, <1>2, WantsOK DEF Progress
<1>4. Advance'
  <2>1. req.fn = "copy" /\ retired + 1 \in Nat /\ total \in Nat \ {0}
    BY <1>1 DEF Advance, ArgsMatch
  <2> QED BY <1>1, <1>3, <2>1 DEF Advance
<1>5. ArgsMatch' /\ Asked' = Asked /\ (Wrapped' <=> Wrapped)
  BY <1>1, ArgsKept
<1>6. Progress'
  BY <1>1, <1>5 DEF Progress, ArgsMatch
<1> QED BY <1>1, <1>4, <1>5, <1>6 DEF CallInv, EndsAsAsked

\* However a call of copy, write or write_many ends, for every request, size,
\* callback and fault: one that returns was not told to stop, has written all
\* that was asked unless the kernel cut a transfer short or ctypes wrapped a
\* size, and has synced as asked; one that was stopped raises ECANCELED; one
\* refused for its arguments has left the destination untouched.
THEOREM CallEndsAsAsked == CallSpec => []EndsAsAsked
<1>1. CallInit => CallInv
  BY DEF CallInit, CallInv, NothingDone, EndsAsAsked
<1>2. CallInv /\ [CallNext]_callVars => CallInv'
  <2> SUFFICES ASSUME CallInv, [CallNext]_callVars PROVE CallInv'
    OBVIOUS
  <2>1. CASE Rejected
    BY <2>1 DEF Rejected, Ends, CallInv, NothingDone, EndsAsAsked, moving
  <2>2. CASE Dispatch
    BY <2>2, DispatchInv
  <2>3. CASE InvalidArgs
    BY <2>3 DEF InvalidArgs, Ends, CallInv, NothingDone, EndsAsAsked, moving
  <2>4. CASE EmptySource
    <3>1. /\ req.fn = "copy" /\ req.size = 0 /\ req \in Requests
          /\ NothingDone /\ ArgsMatch
          /\ pc' = "done" /\ result' = "returned"
          /\ UNCHANGED <<req, args, synced>> /\ UNCHANGED moving
      BY <2>4 DEF EmptySource, Ends, CallInv, ArgsMatch
    <3>2. ~DataAsked
      BY <3>1 DEF ArgsMatch
    <3>3. /\ Asked' = 0 /\ FsyncForgotten' /\ ~DataAsked'
          /\ ~stopped' /\ written' = 0 /\ synced' = 0 /\ req'.fn = "copy"
      BY <3>1, <3>2 DEF Asked, FsyncForgotten, DataAsked, NothingDone, moving
    <3> QED BY <3>1, <3>3 DEF CallInv, EndsAsAsked
  <2>5. CASE SetupFails
    BY <2>5 DEF SetupFails, Ends, CallInv, NothingDone, EndsAsAsked, moving
  <2>6. CASE Setup
    <3>1. /\ req \in Requests /\ ArgsMatch /\ NothingDone /\ ArgsValid
          /\ pc' = "run" /\ UNCHANGED <<req, args, synced>> /\ UNCHANGED moving
      BY <2>6 DEF Setup, CallInv
    <3>2. total' \in Nat \ {0} /\ (~Wrapped => total' = Asked)
      BY <2>6, SetupTotal
    <3>3. ArgsMatch' /\ Asked' = Asked /\ (Wrapped' <=> Wrapped)
      BY <3>1, ArgsKept
    <3>4. Advance'
      BY <3>1, <3>2 DEF Advance, NothingDone, moving
    <3>5. Progress'
      BY <3>1, <3>2, <3>3 DEF Progress, NothingDone, ArgsValid, moving
    <3> QED BY <3>1, <3>3, <3>4, <3>5 DEF CallInv, NothingDone, EndsAsAsked
  <2>7. CASE Chunk
    BY <2>7, ChunkInv
  <2>8. CASE EndOfSource
    BY <2>8, EndOfSourceInv
  <2>9. CASE AllFiles
    <3>1. /\ pc = "run" /\ pc' = "run" /\ ArgsMatch /\ Advance /\ Progress
          /\ synced = 0 /\ req \in Requests /\ args.fn = "write_many"
          /\ handed' = total /\ cut' = (written' < total) /\ undurable' = TRUE
          /\ UNCHANGED <<req, args, total, retired, stopped, synced>>
      BY <2>9 DEF AllFiles, CallInv
    <3>2. written' <= total /\ (written' < total \/ written' = total)
      <4>1. PICK b : written' \in IF "short" \in Faults THEN b .. total ELSE {total}
        BY <2>9 DEF AllFiles
      <4>2. total \in Nat
        BY <3>1 DEF Advance
      <4>3. written' = total \/ (written' \in Int /\ written' <= total)
        BY <4>1, <4>2
      <4> QED BY <4>2, <4>3
    <3>3. ArgsMatch' /\ Asked' = Asked /\ (Wrapped' <=> Wrapped)
      BY <3>1, ArgsKept
    <3>4. ~args.dsync /\ req.fn = "write_many"
      BY <3>1 DEF ArgsMatch
    <3>5. retired = 0
      BY <3>1, <3>4 DEF Advance
    <3>6. Advance'
      <4>1. total \in Nat \ {0} /\ total \in 0 .. total
        BY <3>1 DEF Advance
      <4>2. ~cut' => written' = total
        BY <3>1, <3>2
      <4> QED BY <3>1, <3>5, <4>1, <4>2 DEF Advance
    <3>7. Progress'
      BY <3>1, <3>3, <3>4 DEF Progress
    <3> QED BY <3>1, <3>3, <3>6, <3>7 DEF CallInv, EndsAsAsked
  <2>10. CASE PipelineFails
    BY <2>10 DEF PipelineFails, Ends, CallInv, Progress, EndsAsAsked, moving
  <2>11. CASE Drained
    <3>1. /\ req \in Requests /\ ArgsMatch /\ Advance /\ Progress /\ ~More
          /\ pc' = "sync" /\ UNCHANGED <<req, args, total, synced>>
          /\ UNCHANGED moving
      BY <2>11 DEF Drained, CallInv
    <3>2. ArgsMatch' /\ Asked' = Asked /\ (Wrapped' <=> Wrapped)
      BY <3>1, ArgsKept
    <3>3. Advance' /\ Progress' /\ ~More'
      BY <3>1, <3>2 DEF Advance, Progress, More, moving
    <3> QED BY <3>1, <3>2, <3>3 DEF CallInv, EndsAsAsked
  <2>12. CASE FsyncFile
    <3>1. /\ pc = "sync" /\ args.fsync /\ ArgsMatch /\ Advance /\ Progress /\ ~More
          /\ UNCHANGED <<req, args, total>> /\ UNCHANGED moving
          /\ req \in Requests
      BY <2>12 DEF FsyncFile, CallInv
    <3>2. ArgsMatch' /\ Asked' = Asked /\ (Wrapped' <=> Wrapped)
      BY <3>1, ArgsKept
    <3>3. Advance' /\ Progress' /\ ~More'
      BY <3>1, <3>2 DEF Advance, Progress, More, moving
    <3>4. CASE UNCHANGED <<pc, result>>
      BY <3>1, <3>2, <3>3, <3>4 DEF CallInv, EndsAsAsked
    <3>5. CASE Ends("fsync")
      BY <3>1, <3>3, <3>5 DEF Ends, CallInv, EndsAsAsked, Progress
    <3> QED BY <2>12, <3>4, <3>5 DEF FsyncFile
  <2>13. CASE Return
    <3>1. /\ pc = "sync" /\ ArgsMatch /\ Advance /\ Progress /\ ~More
          /\ req \in Requests
          /\ pc' = "done" /\ result' = "returned"
          /\ args.fsync => synced = Files
          /\ UNCHANGED <<req, args, total, synced>> /\ UNCHANGED moving
      BY <2>13 DEF Return, Ends, CallInv
    <3>2. ~FsyncForgotten => synced = (IF EndAsked THEN Files ELSE 0)
      BY <3>1 DEF FsyncForgotten, ArgsMatch, Progress
    <3>3. retired = 0 => handed = total /\ total # 0
      BY <3>1 DEF More, Advance, Progress, ArgsMatch
    <3>4. ~cut /\ ~Wrapped => written = Asked
      BY <3>1, <3>3 DEF Advance, Progress
    <3>5. req.fn = "write" => handed # 0
      BY <3>1, <3>3 DEF Advance
    <3>6. (DataAsked => ~undurable) /\ (req.fn = "write" /\ ~DataAsked => undurable)
      BY <3>1, <3>5 DEF ArgsMatch, Progress
    <3>7. ~stopped
      BY <3>1 DEF Progress
    <3>8. Asked' = Asked /\ (Wrapped' <=> Wrapped)
      BY <3>1, ArgsKept
    <3>9. EndsAsAsked'
      BY <3>1, <3>2, <3>4, <3>6, <3>7, <3>8
      DEF EndsAsAsked, FsyncForgotten, Extras, EndAsked, DataAsked, Files, moving
    <3> QED BY <3>1, <3>9 DEF CallInv
  <2>14. CASE UNCHANGED callVars
    <3>1. /\ UNCHANGED <<pc, req, args, max_buffer, total, touched, synced, result>>
          /\ UNCHANGED <<handed, retired, written, cut, undurable, stopped, escaped>>
      BY <2>14 DEF callVars
    <3>2. /\ Asked' = Asked /\ (Wrapped' <=> Wrapped) /\ Files' = Files
          /\ (Extras' <=> Extras) /\ (EndAsked' <=> EndAsked)
          /\ (DataAsked' <=> DataAsked)
      BY <3>1 DEF Asked, Wrapped, Files, Extras, EndAsked, DataAsked
    <3>3. FsyncForgotten' <=> FsyncForgotten
      BY <3>1, <3>2 DEF FsyncForgotten
    <3>4. EndsAsAsked'
      BY <3>1, <3>2, <3>3 DEF CallInv, EndsAsAsked
    <3>5. (NothingDone => NothingDone') /\ (Advance => Advance') /\ (~More => ~More')
      BY <3>1 DEF NothingDone, Advance, More
    <3>6. ArgsMatch => ArgsMatch'
      BY <3>1, ArgsKept
    <3>7. Progress => Progress'
      BY <3>1, <3>2 DEF Progress
    <3> QED BY <3>1, <3>4, <3>5, <3>6, <3>7 DEF CallInv
  <2> QED BY <2>1, <2>2, <2>3, <2>4, <2>5, <2>6, <2>7, <2>8, <2>9, <2>10, <2>11,
             <2>12, <2>13, <2>14 DEF CallNext
<1>3. CallInv => EndsAsAsked
  BY DEF CallInv
<1> QED BY <1>1, <1>2, <1>3, PTL DEF CallSpec

-----------------------------------------------------------------------------
(* The helpers on UringAsync: the inductive invariant *)

Cqes == [tag : {SendTag, AcceptTag, OtherTag}, res : Int]
Ranges == [off : Nat, len : Nat]
Workers == [n : Nat, awaited : BOOLEAN, seen : Int]

\* An operation carries the tag of the task that submitted it.
OpOK(o) ==
    \/ o.op = "splice" /\ o.tag = SendTag /\ o.off \in Nat /\ o.len \in Nat
    \/ o.op = "accept" /\ o.tag = AcceptTag
    \/ o.op = "nop" /\ o.tag = OtherTag

HelperTypes ==
    /\ count \in Nat \cup {None} /\ chunk \in Nat
    /\ send \in [st : {"run", "await", "returned", "raised"}, total : Nat, off : Nat]
    /\ yielded \in Seq(Nat)
    /\ waiters \in Seq({"send", "acc", "other"})
    /\ exec \in [st : {"idle", "await", "returned", "raised"}, n : Nat]
    /\ workers \subseteq Workers /\ IsFiniteSet(workers)
    /\ \A o \in kernel : OpOK(o)
    /\ cq \in Seq(Cqes) /\ moved \in Seq(Ranges)
    /\ {head, conns, got, thrown, abandoned} \subseteq Nat

\* A worker that found a CQE at the head takes that one, or the head has moved.
HeadSeen ==
    \A w \in workers : w.seen <= head /\ (w.seen = head => cq # <<>>)

\* sendfile_splice is in the queue of waits at most once, while it awaits.
SendQueued ==
    /\ \A i \in 1 .. Len(waiters) : waiters[i] = "send" => send.st = "await"
    /\ \A i, j \in 1 .. Len(waiters) :
          waiters[i] = "send" /\ waiters[j] = "send" => i = j

\* The ranges spliced follow one another from 0 on; where the last one ends.
Tiled ==
    \A i \in 1 .. Len(moved) :
        moved[i].off = IF i = 1 THEN 0 ELSE moved[i - 1].off + moved[i - 1].len
MovedEnd == IF moved = <<>> THEN 0 ELSE moved[Len(moved)].off + moved[Len(moved)].len

NoSplice == \A o \in kernel : o.op # "splice"
NoSendCqe == \A i \in 1 .. Len(cq) : cq[i].tag # SendTag

\* sendfile_splice has counted what was moved; n more bytes are still wanted.
Counted == Tiled /\ MovedEnd = send.total
Fits(n) == count # None => send.total + n <= count

\* A splice has completed as c, and is not counted yet.
Landed(c) ==
    /\ Tiled /\ Fits(0) /\ Fits(c.res)
    /\ MovedEnd = IF c.res > 0 THEN send.total + c.res ELSE send.total
    /\ c.res <= 0 => ended

\* Between two splices none is outstanding.
SendIdle ==
    /\ send.st \in {"run", "returned"} => NoSplice /\ NoSendCqe /\ Counted /\ Fits(0)
    /\ (send.st = "returned" /\ (count = None \/ send.total < count)) => ended

\* While one is awaited it is in the kernel, or its completion is in the ring,
\* or somebody else was given that.
SendAwaits ==
    send.st = "await" =>
        /\ \A o \in kernel : o.op = "splice" =>
              NoSendCqe /\ Counted /\ o.off = send.off /\ Fits(o.len)
        /\ \A o, p \in kernel : o.op = "splice" /\ p.op = "splice" => o = p
        /\ \A i \in 1 .. Len(cq) : cq[i].tag = SendTag => NoSplice /\ Landed(cq[i])
        /\ \A i, j \in 1 .. Len(cq) : cq[i].tag = SendTag /\ cq[j].tag = SendTag => i = j

SendInv == send.off = send.total /\ SendQueued /\ SendIdle /\ SendAwaits

\* A completion that carries a connection.
Conn(c) == c.tag = AcceptTag /\ c.res >= 0

\* Connections rise: those yielded, then those in the ring, up to the last made.
ConnsRise ==
    /\ \A i \in 1 .. Len(yielded) : /\ yielded[i] \in 1 .. conns
                                    /\ i > 1 => yielded[i - 1] < yielded[i]
    /\ \A i \in 1 .. Len(cq) : Conn(cq[i]) => cq[i].res \in 1 .. conns
    /\ \A i, j \in 1 .. Len(cq) :
          Conn(cq[i]) /\ Conn(cq[j]) /\ i < j => cq[i].res < cq[j].res
    /\ yielded # <<>> =>
          \A i \in 1 .. Len(cq) : Conn(cq[i]) => yielded[Len(yielded)] < cq[i].res

\* The workers of cancelled waits; each will take a completion yet.
LeftBehind == {w \in workers : ~w.awaited}
LossCounted == head - got + Cardinality(LeftBehind) <= thrown + abandoned

HelpersInv == HelperTypes /\ HeadSeen /\ SendInv /\ ConnsRise /\ LossCounted

\* The rest of a queue.
LEMMA TailIs ==
    ASSUME NEW S, NEW s \in Seq(S), s # <<>>
    PROVE  /\ Tail(s) \in Seq(S) /\ Len(s) \in Nat \ {0} /\ Len(Tail(s)) = Len(s) - 1
           /\ Head(s) = s[1] /\ Head(s) \in S
           /\ \A i \in 1 .. Len(Tail(s)) :
                 i + 1 \in 1 .. Len(s) /\ i + 1 # 1 /\ Tail(s)[i] = s[i + 1]
<1>1. Len(s) \in Nat \ {0}
  BY EmptySeq
<1>2. /\ Tail(s) \in Seq(S) /\ Len(Tail(s)) = Len(s) - 1
      /\ Head(s) = s[1] /\ Head(s) \in S
  BY <1>1
<1>3. \A i \in 1 .. Len(s) - 1 : i + 1 \in 1 .. Len(s) /\ i + 1 # 1
  BY <1>1
<1>4. \A i \in 1 .. Len(s) - 1 : Tail(s)[i] = s[i + 1]
  BY <1>1
<1> QED BY <1>1, <1>2, <1>3, <1>4

\* A sequence with one more member.
LEMMA AppendIs ==
    ASSUME NEW S, NEW s \in Seq(S), NEW e \in S
    PROVE  /\ Append(s, e) \in Seq(S) /\ Len(s) \in Nat
           /\ Len(Append(s, e)) = Len(s) + 1 /\ Append(s, e) # <<>>
           /\ Append(s, e)[Len(s) + 1] = e
           /\ \A i \in 1 .. Len(s) : Append(s, e)[i] = s[i]
           /\ \A i \in 1 .. Len(s) + 1 : i \in 1 .. Len(s) \/ i = Len(s) + 1
<1>1. Len(s) \in Nat
  OBVIOUS
<1>2. \A i \in 1 .. Len(s) + 1 : i \in 1 .. Len(s) \/ i = Len(s) + 1
  BY <1>1
<1> QED BY <1>1, <1>2

-----------------------------------------------------------------------------
(* Types *)

\* A worker is added to, or taken from, those there are.
LEMMA WorkersSet ==
    ASSUME HelperTypes, NEW w \in Workers, NEW v \in workers
    PROVE  /\ workers \cup {w} \subseteq Workers /\ IsFiniteSet(workers \cup {w})
           /\ workers \ {v} \subseteq Workers /\ IsFiniteSet(workers \ {v})
           /\ (workers \ {v}) \cup {w} \subseteq Workers
           /\ IsFiniteSet((workers \ {v}) \cup {w})
<1>1. workers \subseteq Workers /\ IsFiniteSet(workers)
  BY DEF HelperTypes
<1>2. IsFiniteSet(workers \cup {w})
  BY <1>1, FS_AddElement
<1>3. IsFiniteSet(workers \ {v})
  BY <1>1, FS_RemoveElement
<1>4. IsFiniteSet((workers \ {v}) \cup {w})
  BY <1>3, FS_AddElement
<1> QED BY <1>1, <1>2, <1>3, <1>4

\* The CQE at the head of a ring that has one.
LEMMA CqeIs ==
    ASSUME HelperTypes, cq # <<>>
    PROVE  /\ Cqe \in Cqes /\ Cqe = cq[1] /\ Cqe.res \in Int
           /\ Tail(cq) \in Seq(Cqes) /\ 1 \in 1 .. Len(cq)
<1>1. cq \in Seq(Cqes)
  BY DEF HelperTypes
<1>2. Head(cq) \in Cqes /\ Head(cq) = cq[1] /\ Tail(cq) \in Seq(Cqes) /\ Len(cq) \in Nat \ {0}
  BY <1>1, TailIs
<1>3. 1 \in 1 .. Len(cq)
  BY <1>2
<1> QED BY <1>2, <1>3 DEF Cqe, Cqes

\* A splice moves what it was asked to, less, nothing, or fails.
LEMMA SpliceRes ==
    ASSUME HelperTypes, NEW o \in kernel, SpliceDone(o)
    PROVE  \E res \in Int :
              /\ res <= o.len
              /\ cq' = Append(cq, [tag |-> SendTag, res |-> res])
              /\ moved' = IF res > 0 THEN Append(moved, [off |-> o.off, len |-> res])
                          ELSE moved
              /\ ended' = (ended \/ res <= 0)
<1> DEFINE left == IF o.off < FileSize THEN FileSize - o.off ELSE 0
           n == IF o.len < left THEN o.len ELSE left
           Res == {n} \cup (IF "short" \in Env THEN 1 .. n ELSE {})
                      \cup (IF "io" \in Env THEN {-1} ELSE {})
<1>1. o.tag = SendTag /\ o.off \in Nat /\ o.len \in Nat
  BY DEF HelperTypes, OpOK, SpliceDone
<1>2. FileSize \in Nat
  BY HelpersAssumption
<1>3. n \in Nat /\ n <= o.len
  BY <1>1, <1>2
<1>4. \A res \in Res : res \in Int /\ res <= o.len
  <2> HIDE DEF n
  <2> QED BY <1>1, <1>3
<1>5. PICK res \in Res :
        /\ Post(o, res)
        /\ moved' = IF res > 0 THEN Append(moved, [off |-> o.off, len |-> res])
                    ELSE moved
        /\ ended' = (ended \/ res <= 0)
  BY DEF SpliceDone
<1>6. res \in Int /\ res <= o.len
  BY <1>4
<1>7. cq' = Append(cq, [tag |-> SendTag, res |-> res])
  BY <1>1, <1>5 DEF Post
<1> HIDE DEF Res
<1> QED BY <1>5, <1>6, <1>7

\* Every step of the helpers, the other task, the workers and the kernel keeps
\* the types: an operation the tag of its task, a completion that of its
\* operation.
LEMMA HelperTypesStep ==
    ASSUME HelperTypes, HeadSeen, Next
    PROVE  HelperTypes'
<1> USE DEF sendVars, accVars, execVars, ringVars, kernelHistory, taskHistory
<1>0. /\ yielded \in Seq(Nat) /\ waiters \in Seq({"send", "acc", "other"})
      /\ cq \in Seq(Cqes) /\ moved \in Seq(Ranges) /\ exec.n \in Nat
      /\ send.total \in Nat /\ send.off \in Nat /\ chunk \in Nat
      /\ head \in Nat /\ got \in Nat /\ thrown \in Nat /\ abandoned \in Nat /\ conns \in Nat
  BY DEF HelperTypes
<1>1. CASE SendNext
  <2>1. CASE Wanted
    <3>1. PICK n : n = IF count = None \/ count - send.total > chunk
                   THEN chunk ELSE count - send.total
      OBVIOUS
    <3>2. n \in Int
      BY <3>1 DEF HelperTypes, None
    <3>3. n % LenMod \in Nat
      BY <3>2, HelpersAssumption
    <3>4. \A o \in kernel' : OpOK(o)
      <4>1. PICK m \in Nat : m = n % LenMod
        BY <3>3
      <4>2. PICK p : p = [op |-> "splice", tag |-> SendTag, off |-> send.off, len |-> m]
        OBVIOUS
      <4>3. kernel' = kernel \cup {p}
        BY <1>1, <2>1, <3>1, <4>1, <4>2 DEF SendNext, Spliced
      <4>4. send.off \in Nat
        BY <1>0
      <4>5. OpOK(p)
        BY <4>2, <4>4 DEF OpOK
      <4> QED BY <4>3, <4>5 DEF HelperTypes
    <3>5. waiters' \in Seq({"send", "acc", "other"})
      <4>1. waiters' = Append(waiters, "send")
        BY <1>1, <2>1 DEF SendNext
      <4> QED BY <1>0, <4>1
    <3> QED BY <1>1, <2>1, <3>4, <3>5 DEF SendNext, HelperTypes
  <2>2. CASE ~Wanted
    BY <1>1, <2>2 DEF SendNext, HelperTypes
  <2> QED BY <2>1, <2>2
<1>2. CASE SendGets
  <2>1. Cqe \in Cqes /\ Cqe.res \in Int /\ cq' \in Seq(Cqes)
    BY <1>2, CqeIs DEF SendGets, Resolves, Seen
  <2>2. send' \in [st : {"run", "await", "returned", "raised"}, total : Nat, off : Nat]
    <3>1. PICK r \in Int : r = Cqe.res
      BY <2>1
    <3>2. send' = SendResult(Cqe)
      BY <1>2 DEF SendGets
    <3>3. send \in [st : {"run", "await", "returned", "raised"}, total : Nat, off : Nat]
      BY DEF HelperTypes
    <3>4. CASE Cqe.tag # SendTag
      BY <3>2, <3>3, <3>4 DEF SendResult
    <3>5. CASE Cqe.tag = SendTag /\ r <= 0
      BY <3>1, <3>2, <3>3, <3>5 DEF SendResult
    <3>6. CASE Cqe.tag = SendTag /\ r > 0
      <4>1. send' = [send EXCEPT !.st = "run", !.total = @ + r, !.off = @ + r]
        BY <3>1, <3>2, <3>6 DEF SendResult
      <4>2. r \in Nat /\ send.total + r \in Nat /\ send.off + r \in Nat
        BY <1>0, <3>6
      <4>3. PICK a, b : a = send.total + r /\ b = send.off + r
        OBVIOUS
      <4>4. send' = [send EXCEPT !.st = "run", !.total = a, !.off = b]
        BY <4>1, <4>3
      <4>5. a \in Nat /\ b \in Nat
        BY <4>2, <4>3
      <4> QED BY <3>3, <4>4, <4>5
    <3> QED BY <3>4, <3>5, <3>6
  <2>3. waiters' \in Seq({"send", "acc", "other"})
    BY <1>2, <1>0 DEF SendGets, Resolves
  <2> QED BY <1>0, <1>2, <2>1, <2>2, <2>3 DEF SendGets, Resolves, Seen, Given, HelperTypes
<1>3. CASE AcceptSkips
  <2>1. cq' \in Seq(Cqes)
    BY <1>3, CqeIs DEF AcceptSkips, Resolves, Seen
  <2>2. waiters' \in Seq({"send", "acc", "other"})
    BY <1>3, <1>0 DEF AcceptSkips, Resolves
  <2> QED BY <1>0, <1>3, <2>1, <2>2 DEF AcceptSkips, Resolves, Seen, HelperTypes
<1>4. CASE AcceptGets
  <2>1. Cqe \in Cqes /\ Cqe.res \in Int /\ cq' \in Seq(Cqes)
    BY <1>4, CqeIs DEF AcceptGets, Resolves, Seen
  <2>2. yielded' \in Seq(Nat)
    <3>1. PICK r \in Int : r = Cqe.res
      BY <2>1
    <3>2. IF r < 0 THEN yielded' = yielded ELSE yielded' = Append(yielded, r)
      BY <1>4, <3>1 DEF AcceptGets
    <3>3. CASE r < 0
      BY <1>0, <3>2, <3>3
    <3>4. CASE r \in Nat
      <4>1. yielded' = Append(yielded, r)
        BY <3>2, <3>4
      <4> QED BY <1>0, <3>4, <4>1, AppendIs
    <3> QED BY <3>3, <3>4
  <2>3. waiters' \in Seq({"send", "acc", "other"})
    BY <1>4, <1>0 DEF AcceptGets, Resolves
  <2> QED BY <1>0, <1>4, <2>1, <2>2, <2>3 DEF AcceptGets, Resolves, Seen, Given, HelperTypes
<1>5. CASE OtherGets
  <2>1. cq' \in Seq(Cqes)
    BY <1>5, CqeIs DEF OtherGets, Resolves, Seen
  <2>2. waiters' \in Seq({"send", "acc", "other"})
    BY <1>5, <1>0 DEF OtherGets, Resolves
  <2>3. head' = head + 1 /\ got' = got + 1
    BY <1>5 DEF OtherGets, Resolves, Seen, Given
  <2>4. head' \in Nat /\ got' \in Nat
    BY <1>0, <2>3
  <2> QED BY <1>5, <2>1, <2>2, <2>4 DEF OtherGets, HelperTypes
<1>6. CASE AcceptNext
  <2>1. waiters' \in Seq({"send", "acc", "other"})
    BY <1>6, <1>0 DEF AcceptNext
  <2>2. \A o \in kernel' : OpOK(o)
    BY <1>6 DEF AcceptNext, HelperTypes, OpOK
  <2> QED BY <1>6, <2>1, <2>2 DEF AcceptNext, HelperTypes
<1>7. CASE AcceptLeft
  BY <1>7 DEF AcceptLeft, HelperTypes
<1>8. CASE OtherNext
  <2>1. waiters' \in Seq({"send", "acc", "other"})
    BY <1>8, <1>0 DEF OtherNext
  <2>2. \A o \in kernel' : OpOK(o)
    BY <1>8 DEF OtherNext, HelperTypes, OpOK
  <2> QED BY <1>8, <2>1, <2>2 DEF OtherNext, HelperTypes
<1>9. CASE ExecCall
  <2>1. \A o \in kernel' : OpOK(o)
    BY <1>9 DEF ExecCall, HelperTypes, OpOK
  <2>2. exec' \in [st : {"idle", "await", "returned", "raised"}, n : Nat]
    BY <1>0, <1>9 DEF ExecCall
  <2>3. PICK w \in Workers : w = [n |-> exec.n, awaited |-> TRUE, seen |-> None]
    <3>1. [n |-> exec.n, awaited |-> TRUE, seen |-> -1] \in [n : Nat, awaited : BOOLEAN, seen : Int]
      BY <1>0
    <3> QED BY <3>1 DEF Workers, None
  <2>4. workers \cup {w} \subseteq Workers /\ IsFiniteSet(workers \cup {w})
    <3>1. workers \subseteq Workers /\ IsFiniteSet(workers)
      BY DEF HelperTypes
    <3> QED BY <3>1, FS_AddElement
  <2>5. workers' \in {workers, workers \cup {w}}
    BY <1>9, <2>3 DEF ExecCall
  <2>6. workers' \subseteq Workers /\ IsFiniteSet(workers')
    BY <2>4, <2>5 DEF HelperTypes
  <2> QED BY <1>9, <2>1, <2>2, <2>6 DEF ExecCall, HelperTypes
<1>10. CASE ExecCancelled
  <2>1. PICK w \in workers :
          \/ workers' = (workers \ {w}) \cup {[w EXCEPT !.awaited = FALSE]}
             /\ abandoned' = abandoned + 1
          \/ w.seen = None /\ workers' = workers \ {w} /\ UNCHANGED abandoned
    BY <1>10 DEF ExecCancelled
  <2>2. w \in Workers
    BY DEF HelperTypes
  <2>3. PICK v \in Workers : v = [w EXCEPT !.awaited = FALSE]
    BY <2>2 DEF Workers
  <2>4. workers' \subseteq Workers /\ IsFiniteSet(workers')
    BY <2>1, <2>3, WorkersSet
  <2>5. abandoned' \in Nat
    BY <1>0, <2>1
  <2>6. exec' \in [st : {"idle", "await", "returned", "raised"}, n : Nat]
    BY <1>10 DEF ExecCancelled, HelperTypes
  <2> QED BY <1>10, <2>4, <2>5, <2>6 DEF ExecCancelled, HelperTypes
<1>11. ASSUME NEW w \in workers, WorkerSees(w) PROVE HelperTypes'
  <2>2. w \in Workers
    BY DEF HelperTypes
  <2>3. PICK v \in Workers : v = [w EXCEPT !.seen = head]
    <3>0. head \in Int
      BY <1>0
    <3>1. [w EXCEPT !.seen = head] \in [n : Nat, awaited : BOOLEAN, seen : Int]
      BY <3>0, <2>2 DEF Workers
    <3> QED BY <3>1 DEF Workers
  <2>4. workers' \subseteq Workers /\ IsFiniteSet(workers')
    BY <1>11, <2>3, WorkersSet DEF WorkerSees
  <2> QED BY <1>11, <2>4 DEF WorkerSees, HelperTypes
<1>12. ASSUME NEW w \in workers, WorkerTakes(w) PROVE HelperTypes'
  <2>0. cq # <<>>
    BY <1>12 DEF WorkerTakes, HeadSeen
  <2>1. w \in Workers
    BY DEF HelperTypes
  <2>2. workers' \subseteq Workers /\ IsFiniteSet(workers')
    BY <1>12, <2>1, WorkersSet DEF WorkerTakes
  <2>3. cq' \in Seq(Cqes)
    BY <1>12, <2>0, CqeIs DEF WorkerTakes, Seen
  <2>4. exec' \in [st : {"idle", "await", "returned", "raised"}, n : Nat]
    BY <1>12 DEF WorkerTakes, HelperTypes
  <2>5. got' \in Nat
    BY <1>0, <1>12 DEF WorkerTakes
  <2>6. head' \in Nat
    BY <1>0, <1>12 DEF WorkerTakes, Seen
  <2> QED BY <1>12, <2>2, <2>3, <2>4, <2>5, <2>6 DEF WorkerTakes, HelperTypes
<1>13. ASSUME NEW w \in workers, WorkerRaces(w) PROVE HelperTypes'
  BY <1>13 DEF WorkerRaces, HelperTypes
<1>14. ASSUME NEW o \in kernel, SpliceDone(o) PROVE HelperTypes'
  <2>1. PICK res \in Int :
          /\ cq' = Append(cq, [tag |-> SendTag, res |-> res])
          /\ moved' = IF res > 0 THEN Append(moved, [off |-> o.off, len |-> res])
                      ELSE moved
    BY <1>14, SpliceRes
  <2>2. o.off \in Nat
    BY <1>14 DEF SpliceDone, HelperTypes, OpOK
  <2>3. [tag |-> SendTag, res |-> res] \in Cqes
    BY DEF Cqes
  <2>4. cq' \in Seq(Cqes)
    BY <1>0, <2>1, <2>3
  <2>5. res > 0 => [off |-> o.off, len |-> res] \in Ranges
    BY <2>2 DEF Ranges
  <2>6. moved' \in Seq(Ranges)
    BY <1>0, <2>1, <2>5
  <2> QED BY <1>14, <2>4, <2>6 DEF SpliceDone, HelperTypes
<1>15. ASSUME NEW o \in kernel, NopDone(o) \/ Accepted(o) \/ AcceptFails(o)
       PROVE  HelperTypes'
  <2>1. o.tag \in {AcceptTag, OtherTag}
    BY <1>15 DEF NopDone, Accepted, AcceptFails, HelperTypes, OpOK
  <2>2. PICK res \in Int : cq' = Append(cq, [tag |-> o.tag, res |-> res])
    <3>1. \/ cq' = Append(cq, [tag |-> o.tag, res |-> 0])
          \/ cq' = Append(cq, [tag |-> o.tag, res |-> conns + 1])
          \/ cq' = Append(cq, [tag |-> o.tag, res |-> -1])
      BY <1>15 DEF NopDone, Accepted, AcceptFails, Post
    <3>2. 0 \in Int /\ conns + 1 \in Int /\ -1 \in Int
      BY <1>0
    <3> QED BY <3>1, <3>2
  <2>3. [tag |-> o.tag, res |-> res] \in Cqes
    BY <2>1 DEF Cqes
  <2>4. cq' \in Seq(Cqes)
    BY <1>0, <2>2, <2>3
  <2>5. kernel' \subseteq kernel /\ conns' \in Nat
    BY <1>0, <1>15 DEF NopDone, Accepted, AcceptFails
  <2> QED BY <1>15, <2>4, <2>5 DEF NopDone, Accepted, AcceptFails, HelperTypes
<1> QED BY <1>1, <1>2, <1>3, <1>4, <1>5, <1>6, <1>7, <1>8, <1>9, <1>10, <1>11, <1>12,
           <1>13, <1>14, <1>15 DEF Next, Loop, Completions

\* A worker's CQE stays where it is until somebody moves the head.
LEMMA HeadSeenStep ==
    ASSUME HelperTypes, HeadSeen, Next
    PROVE  HeadSeen'
<1> USE DEF sendVars, accVars, execVars, ringVars, kernelHistory, taskHistory
<1>0. head \in Nat /\ cq \in Seq(Cqes) /\ \A w \in workers : w \in Workers /\ w.seen \in Int
  BY DEF HelperTypes, Workers
<1>1. ASSUME Seen, workers' \subseteq workers PROVE HeadSeen'
  BY <1>0, <1>1 DEF HeadSeen, Seen
<1>2. ASSUME UNCHANGED <<cq, head>>,
             \A v \in workers' : v.seen = None \/ \E w \in workers : v.seen = w.seen
      PROVE  HeadSeen'
  BY <1>0, <1>2 DEF HeadSeen, None
<1>3. ASSUME UNCHANGED <<head, workers>>, NEW c, cq' = Append(cq, c) PROVE HeadSeen'
  BY <1>0, <1>3 DEF HeadSeen
<1>4. CASE SendGets \/ AcceptSkips \/ AcceptGets \/ OtherGets
  BY <1>1, <1>4 DEF SendGets, AcceptSkips, AcceptGets, OtherGets, Resolves
<1>5. CASE SendNext \/ AcceptNext \/ AcceptLeft \/ OtherNext
  BY <1>2, <1>5 DEF SendNext, AcceptNext, AcceptLeft, OtherNext
<1>6. CASE ExecCall
  BY <1>2, <1>6 DEF ExecCall
<1>7. CASE ExecCancelled
  <2>1. PICK w \in workers :
          workers' \in {(workers \ {w}) \cup {[w EXCEPT !.awaited = FALSE]}, workers \ {w}}
    BY <1>7 DEF ExecCancelled
  <2>2. w \in Workers
    BY <1>0
  <2>3. [w EXCEPT !.awaited = FALSE].seen = w.seen
    BY <2>2 DEF Workers
  <2>4. \A v \in workers' : \E u \in workers : v.seen = u.seen
    BY <2>1, <2>3
  <2> QED BY <1>2, <1>7, <2>4 DEF ExecCancelled
<1>8. ASSUME NEW w \in workers, WorkerSees(w) PROVE HeadSeen'
  <2>0. w \in [n : Nat, awaited : BOOLEAN, seen : Int]
    BY <1>0 DEF Workers
  <2>1. PICK v : v = [w EXCEPT !.seen = head] /\ v.seen = head
    <3>1. head \in Int
      BY <1>0
    <3>2. [w EXCEPT !.seen = head].seen = head
      BY <2>0, <3>1
    <3> QED BY <3>2
  <2>2. workers' = (workers \ {w}) \cup {v} /\ cq' = cq /\ head' = head /\ cq # <<>>
    BY <1>8, <2>1 DEF WorkerSees
  <2>3. \A u \in workers' : u \in workers \/ u.seen = head
    BY <2>1, <2>2
  <2> QED BY <1>0, <2>2, <2>3 DEF HeadSeen
<1>9. ASSUME NEW w \in workers, WorkerTakes(w) \/ WorkerRaces(w) PROVE HeadSeen'
  <2>1. CASE WorkerTakes(w)
    BY <1>1, <2>1 DEF WorkerTakes
  <2>2. CASE WorkerRaces(w)
    BY <1>2, <2>2 DEF WorkerRaces
  <2> QED BY <1>9, <2>1, <2>2
<1>10. ASSUME NEW o \in kernel,
              SpliceDone(o) \/ NopDone(o) \/ Accepted(o) \/ AcceptFails(o)
       PROVE  HeadSeen'
  <2>1. PICK c : cq' = Append(cq, c)
    BY <1>10 DEF SpliceDone, NopDone, Accepted, AcceptFails, Post
  <2> QED BY <1>3, <1>10, <2>1 DEF SpliceDone, NopDone, Accepted, AcceptFails
<1> QED BY <1>4, <1>5, <1>6, <1>7, <1>8, <1>9, <1>10 DEF Next, Loop, Completions

-----------------------------------------------------------------------------
(* sendfile_splice *)

\* Another task joins the queue of waits.
LEMMA QueueGrows ==
    ASSUME HelperTypes, SendQueued, NEW t \in {"acc", "other"},
           waiters' = Append(waiters, t), send' = send
    PROVE  SendQueued'
<1> DEFINE S == {"send", "acc", "other"}
<1>1. waiters \in Seq(S) /\ t \in S
  BY DEF HelperTypes
<1>2. PICK q : q = waiters'
  OBVIOUS
<1> HIDE DEF S
<1>3. /\ Len(waiters) \in Nat /\ Len(q) = Len(waiters) + 1 /\ q[Len(waiters) + 1] = t
      /\ \A i \in 1 .. Len(waiters) : q[i] = waiters[i]
      /\ \A i \in 1 .. Len(waiters) + 1 : i \in 1 .. Len(waiters) \/ i = Len(waiters) + 1
  BY <1>1, <1>2, AppendIs
<1>4. \A i \in 1 .. Len(q) : q[i] = "send" => i \in 1 .. Len(waiters) /\ waiters[i] = "send"
  BY <1>3
<1>5. /\ \A i \in 1 .. Len(q) : q[i] = "send" => send.st = "await"
      /\ \A i, j \in 1 .. Len(q) : q[i] = "send" /\ q[j] = "send" => i = j
  BY <1>4 DEF SendQueued
<1> QED BY <1>2, <1>5 DEF SendQueued

\* The task at the head of the queue leaves it.
LEMMA QueueShrinks ==
    ASSUME HelperTypes, SendQueued, waiters # <<>>
    PROVE  /\ \A i \in 1 .. Len(Tail(waiters)) :
                 Tail(waiters)[i] = "send" => send.st = "await" /\ Head(waiters) # "send"
           /\ \A i, j \in 1 .. Len(Tail(waiters)) :
                 Tail(waiters)[i] = "send" /\ Tail(waiters)[j] = "send" => i = j
<1> DEFINE S == {"send", "acc", "other"}
<1>1. waiters \in Seq(S)
  BY DEF HelperTypes
<1>2. PICK q : q = Tail(waiters)
  OBVIOUS
<1> HIDE DEF S
<1>3. /\ Len(waiters) \in Nat \ {0} /\ Len(q) = Len(waiters) - 1 /\ Head(waiters) = waiters[1]
      /\ \A i \in 1 .. Len(q) :
            i + 1 \in 1 .. Len(waiters) /\ i + 1 # 1 /\ q[i] = waiters[i + 1]
  BY <1>1, <1>2, TailIs
<1>4. 1 \in 1 .. Len(waiters)
  BY <1>3
<1>5. \A i \in 1 .. Len(q) : q[i] = "send" => send.st = "await" /\ Head(waiters) # "send"
  BY <1>3, <1>4 DEF SendQueued
<1>6. ASSUME NEW i \in 1 .. Len(q), NEW j \in 1 .. Len(q), q[i] = "send", q[j] = "send"
      PROVE  i = j
  <2>1. i + 1 = j + 1
    BY <1>3, <1>6 DEF SendQueued
  <2>2. i \in Int /\ j \in Int
    OBVIOUS
  <2> QED BY <2>1, <2>2
<1> QED BY <1>2, <1>5, <1>6

\* Somebody else takes the CQE at the head.
LEMMA SendOtherTakes ==
    ASSUME HelperTypes, SendInv, cq # <<>>, cq' = Tail(cq), SendQueued',
           UNCHANGED <<send, count, kernel, moved, ended>>
    PROVE  SendInv'
<1>1. cq \in Seq(Cqes)
  BY DEF HelperTypes
<1>2. PICK q : q = Tail(cq)
  OBVIOUS
<1>3. \A i \in 1 .. Len(q) : i + 1 \in 1 .. Len(cq) /\ q[i] = cq[i + 1] /\ i \in Int
  BY <1>1, <1>2, TailIs
<1>4. NoSendCqe => NoSendCqe'
  BY <1>2, <1>3 DEF NoSendCqe
<1>5. SendIdle'
  BY <1>4 DEF SendInv, SendIdle, NoSplice, Counted, Tiled, MovedEnd, Fits
<1>6. ASSUME send.st = "await" PROVE SendAwaits'
  <2>0. SendAwaits
    BY DEF SendInv
  <2>1. /\ \A o \in kernel : o.op = "splice" =>
              NoSendCqe /\ Counted /\ o.off = send.off /\ Fits(o.len)
        /\ \A o, p \in kernel : o.op = "splice" /\ p.op = "splice" => o = p
        /\ \A i \in 1 .. Len(cq) : cq[i].tag = SendTag => NoSplice /\ Landed(cq[i])
        /\ \A i, j \in 1 .. Len(cq) : cq[i].tag = SendTag /\ cq[j].tag = SendTag => i = j
    BY <1>6, <2>0 DEF SendAwaits
  <2>2. \A o \in kernel : o.op = "splice" =>
           NoSendCqe' /\ Counted' /\ o.off = send.off /\ Fits(o.len)'
    BY <1>4, <2>1 DEF Counted, Tiled, MovedEnd, Fits
  <2>3. ASSUME NEW i \in 1 .. Len(q), q[i].tag = SendTag
        PROVE  NoSplice' /\ Landed(q[i])'
    <3>1. PICK c : c = q[i] /\ c = cq[i + 1] /\ i + 1 \in 1 .. Len(cq)
      BY <1>3
    <3>2. NoSplice /\ Landed(c)
      BY <2>1, <2>3, <3>1
    <3> QED BY <3>1, <3>2 DEF NoSplice, Landed, Tiled, Fits, MovedEnd
  <2>4. \A i, j \in 1 .. Len(q) : q[i].tag = SendTag /\ q[j].tag = SendTag => i + 1 = j + 1
    BY <1>3, <2>1
  <2>5. \A i, j \in 1 .. Len(q) : i + 1 = j + 1 => i = j
    BY <1>3
  <2> QED BY <1>2, <2>1, <2>2, <2>3, <2>4, <2>5 DEF SendAwaits
<1>7. SendAwaits'
  BY <1>6 DEF SendAwaits
<1> QED BY <1>5, <1>7 DEF SendInv

\* Somebody else's operation completes.
LEMMA SendOtherDone ==
    ASSUME HelperTypes, SendInv, kernel' \subseteq kernel,
           NEW c \in Cqes, c.tag # SendTag, cq' = Append(cq, c),
           UNCHANGED <<send, count, waiters, moved, ended>>
    PROVE  SendInv'
<1>1. cq \in Seq(Cqes)
  BY DEF HelperTypes
<1>2. PICK q : q = Append(cq, c)
  OBVIOUS
<1>3. /\ Len(cq) \in Nat /\ Len(q) = Len(cq) + 1 /\ q[Len(cq) + 1] = c
      /\ \A i \in 1 .. Len(cq) : q[i] = cq[i]
      /\ \A i \in 1 .. Len(cq) + 1 : i \in 1 .. Len(cq) \/ i = Len(cq) + 1
  BY <1>1, <1>2, AppendIs
<1>4. \A i \in 1 .. Len(q) : q[i].tag = SendTag => i \in 1 .. Len(cq) /\ q[i] = cq[i]
  BY <1>3
<1>5. NoSendCqe => NoSendCqe'
  BY <1>2, <1>4 DEF NoSendCqe
<1>6. SendQueued'
  BY DEF SendInv, SendQueued
<1>7. SendIdle'
  BY <1>5 DEF SendInv, SendIdle, NoSplice, Counted, Tiled, MovedEnd, Fits
<1>8. ASSUME send.st = "await" PROVE SendAwaits'
  <2>1. /\ \A o \in kernel : o.op = "splice" =>
              NoSendCqe /\ Counted /\ o.off = send.off /\ Fits(o.len)
        /\ \A o, p \in kernel : o.op = "splice" /\ p.op = "splice" => o = p
        /\ \A i \in 1 .. Len(cq) : cq[i].tag = SendTag => NoSplice /\ Landed(cq[i])
        /\ \A i, j \in 1 .. Len(cq) : cq[i].tag = SendTag /\ cq[j].tag = SendTag => i = j
    BY <1>8 DEF SendAwaits, SendInv
  <2>2. \A o \in kernel' : o.op = "splice" =>
           NoSendCqe' /\ Counted' /\ o.off = send.off /\ Fits(o.len)'
    BY <1>5, <2>1 DEF Counted, Tiled, MovedEnd, Fits
  <2>3. ASSUME NEW i \in 1 .. Len(q), q[i].tag = SendTag
        PROVE  NoSplice' /\ Landed(q[i])'
    <3>1. PICK d : d = q[i] /\ d = cq[i] /\ i \in 1 .. Len(cq)
      BY <1>4, <2>3
    <3>2. NoSplice /\ Landed(d)
      BY <2>1, <2>3, <3>1
    <3> QED BY <3>1, <3>2 DEF NoSplice, Landed, Tiled, Fits, MovedEnd
  <2>4. \A i, j \in 1 .. Len(q) : q[i].tag = SendTag /\ q[j].tag = SendTag => i = j
    BY <1>4, <2>1
  <2> QED BY <1>2, <2>1, <2>2, <2>3, <2>4 DEF SendAwaits
<1>9. SendAwaits'
  BY <1>8 DEF SendAwaits
<1> QED BY <1>6, <1>7, <1>9 DEF SendInv

\* Somebody else's operation is submitted, or none.
LEMMA SendOtherSubmits ==
    ASSUME SendInv, SendQueued',
           \A o \in kernel' : o \in kernel \/ o.op # "splice",
           UNCHANGED <<send, count, cq, moved, ended>>
    PROVE  SendInv'
<1>1. SendIdle'
  BY DEF SendInv, SendIdle, NoSendCqe, NoSplice, Counted, Tiled, MovedEnd, Fits
<1>2. SendAwaits'
  BY DEF SendInv, SendAwaits, NoSendCqe, NoSplice, Counted, Landed, Tiled, MovedEnd, Fits
<1> QED BY <1>1, <1>2 DEF SendInv

\* The remainder of a length is no more than the length.
LEMMA MaskedLength ==
    ASSUME NEW n \in Nat, NEW m \in Nat \ {0}
    PROVE  n % m \in Nat /\ n % m <= n
<1>1. n % m \in 0 .. m - 1
  OBVIOUS
<1>2. CASE n < m
  <2>1. n % m = n
    BY <1>2
  <2> QED BY <2>1
<1>3. CASE n >= m
  BY <1>1, <1>3
<1> QED BY <1>1, <1>2, <1>3

\* sendfile_splice submits its next splice, or returns.
LEMMA SendNextKeeps ==
    ASSUME HelperTypes, SendInv, SendNext
    PROVE  SendInv'
<1> USE DEF sendVars, accVars, execVars, ringVars, kernelHistory, taskHistory
<1>1. /\ send.st = "run" /\ NoSplice /\ NoSendCqe /\ Counted /\ Fits(0)
      /\ send.off = send.total /\ SendQueued
  BY DEF SendInv, SendIdle, SendNext
<1>2. /\ send \in [st : {"run", "await", "returned", "raised"}, total : Nat, off : Nat]
      /\ send.total \in Nat /\ count \in Nat \cup {None} /\ chunk \in Nat
      /\ waiters \in Seq({"send", "acc", "other"})
  BY DEF HelperTypes
<1>3. UNCHANGED <<count, cq, moved, ended>>
  BY DEF SendNext
<1>4. Tiled' /\ MovedEnd' = MovedEnd /\ NoSendCqe'
  BY <1>1, <1>3 DEF Counted, Tiled, MovedEnd, NoSendCqe
<1>5. CASE Wanted
  <2>1. PICK n : n = IF count = None \/ count - send.total > chunk
                 THEN chunk ELSE count - send.total
    OBVIOUS
  <2>2. n \in Nat /\ (count # None => send.total + n <= count)
    BY <1>2, <1>5, <2>1 DEF Wanted, None
  <2>3. PICK m : m = n % LenMod
    OBVIOUS
  <2>4. m \in Nat /\ m <= n
    BY <2>2, <2>3, MaskedLength, HelpersAssumption
  <2>5. PICK o : o = [op |-> "splice", tag |-> SendTag, off |-> send.off, len |-> m]
    OBVIOUS
  <2>6. kernel' = kernel \cup {o}
    BY <1>5, <2>1, <2>3, <2>5 DEF SendNext, Spliced
  <2>7. o.op = "splice" /\ o.off = send.off /\ o.len = m
    BY <2>5
  <2>8. send' = [send EXCEPT !.st = "await"]
    BY <1>5 DEF SendNext
  <2>9. send'.st = "await" /\ send'.off = send.off /\ send'.total = send.total
    BY <1>2, <2>8
  <2>10. SendQueued'
    <3> DEFINE S == {"send", "acc", "other"}
    <3>1. PICK q : q = waiters' /\ q = Append(waiters, "send")
      BY <1>5 DEF SendNext
    <3>2. waiters \in Seq(S) /\ "send" \in S
      BY <1>2
    <3> HIDE DEF S
    <3>3. /\ Len(waiters) \in Nat /\ Len(q) = Len(waiters) + 1
          /\ \A i \in 1 .. Len(waiters) : q[i] = waiters[i]
          /\ \A i \in 1 .. Len(waiters) + 1 : i \in 1 .. Len(waiters) \/ i = Len(waiters) + 1
      BY <3>1, <3>2, AppendIs
    <3>4. \A i \in 1 .. Len(waiters) : waiters[i] # "send"
      BY <1>1 DEF SendQueued
    <3>5. \A i \in 1 .. Len(q) : q[i] = "send" => i = Len(waiters) + 1
      BY <3>3, <3>4
    <3> QED BY <2>9, <3>1, <3>5 DEF SendQueued
  <2>11. Counted' /\ Fits(m)'
    BY <1>1, <1>2, <1>3, <1>4, <2>2, <2>4, <2>9 DEF Counted, Fits, None
  <2>12. \A p \in kernel' : p.op = "splice" => p = o
    BY <1>1, <2>6 DEF NoSplice
  <2>13. SendAwaits'
    <3>1. \A p \in kernel' : p.op = "splice" =>
             NoSendCqe' /\ Counted' /\ p.off = send'.off /\ Fits(p.len)'
      BY <1>4, <2>7, <2>9, <2>11, <2>12 DEF Fits
    <3> QED BY <1>4, <2>12, <3>1 DEF SendAwaits, NoSendCqe
  <2>14. SendIdle'
    BY <2>9 DEF SendIdle
  <2> QED BY <1>1, <2>9, <2>10, <2>13, <2>14 DEF SendInv
<1>6. CASE ~Wanted
  <2>1. send' = [send EXCEPT !.st = "returned"] /\ UNCHANGED <<kernel, waiters>>
    BY <1>6 DEF SendNext
  <2>2. send'.st = "returned" /\ send'.off = send.off /\ send'.total = send.total
    BY <1>2, <2>1
  <2>3. SendQueued'
    BY <1>1, <2>1 DEF SendQueued
  <2>4. NoSplice' /\ Counted' /\ Fits(0)'
    BY <1>1, <1>3, <1>4, <2>1, <2>2 DEF NoSplice, Counted, Fits
  <2>5. SendIdle'
    BY <1>3, <1>4, <1>6, <2>2, <2>4 DEF SendIdle, Wanted
  <2>6. SendAwaits'
    BY <2>2 DEF SendAwaits
  <2> QED BY <1>1, <2>2, <2>3, <2>5, <2>6 DEF SendInv
<1> QED BY <1>5, <1>6

\* sendfile_splice is given a completion, its own or another's.
LEMMA SendGetsKeeps ==
    ASSUME HelperTypes, SendInv, SendGets
    PROVE  SendInv'
<1> USE DEF sendVars, accVars, execVars, ringVars, kernelHistory, taskHistory
<1>1. /\ send \in [st : {"run", "await", "returned", "raised"}, total : Nat, off : Nat]
      /\ send.total \in Nat /\ count \in Nat \cup {None} /\ cq \in Seq(Cqes)
      /\ waiters \in Seq({"send", "acc", "other"})
  BY DEF HelperTypes
<1>2. /\ waiters # <<>> /\ Head(waiters) = "send" /\ cq # <<>> /\ cq' = Tail(cq)
      /\ waiters' = Tail(waiters)
      /\ UNCHANGED <<count, kernel, moved, ended>>
  BY DEF SendGets, Resolves, Seen
<1>3. PICK c : c = Cqe
  OBVIOUS
<1>4. c = cq[1] /\ c.res \in Int /\ 1 \in 1 .. Len(cq)
  BY <1>2, <1>3, CqeIs
<1>5. send.st = "await"
  <2>1. Head(waiters) = waiters[1] /\ Len(waiters) \in Nat \ {0}
    <3> DEFINE S == {"send", "acc", "other"}
    <3>1. waiters \in Seq(S)
      BY <1>1
    <3> HIDE DEF S
    <3> QED BY <1>2, <3>1, TailIs
  <2>2. 1 \in 1 .. Len(waiters)
    BY <2>1
  <2> QED BY <1>2, <2>1, <2>2 DEF SendInv, SendQueued
<1>6. /\ \A i \in 1 .. Len(cq) : cq[i].tag = SendTag => NoSplice /\ Landed(cq[i])
      /\ \A i, j \in 1 .. Len(cq) : cq[i].tag = SendTag /\ cq[j].tag = SendTag => i = j
      /\ send.off = send.total /\ SendQueued
  BY <1>5 DEF SendInv, SendAwaits
<1>7. SendQueued'
  <2>1. PICK q : q = Tail(waiters)
    OBVIOUS
  <2>2. \A i \in 1 .. Len(q) : q[i] # "send"
    BY <1>2, <1>6, <2>1, QueueShrinks
  <2> QED BY <1>2, <2>1, <2>2 DEF SendQueued
<1>8. send' = SendResult(c)
  BY <1>3 DEF SendGets
<1>9. CASE c.tag # SendTag
  <2>1. send'.st = "raised" /\ send'.off = send'.total
    BY <1>1, <1>6, <1>8, <1>9 DEF SendResult
  <2> QED BY <1>7, <2>1 DEF SendInv, SendIdle, SendAwaits
<1>10. CASE c.tag = SendTag
  <2>1. NoSplice /\ Landed(c)
    BY <1>4, <1>6, <1>10
  <2>2. NoSendCqe'
    <3>1. PICK q : q = Tail(cq)
      OBVIOUS
    <3>2. \A i \in 1 .. Len(q) : i + 1 \in 1 .. Len(cq) /\ i + 1 # 1 /\ q[i] = cq[i + 1]
      BY <1>1, <1>2, <3>1, TailIs
    <3>3. \A i \in 1 .. Len(q) : q[i].tag # SendTag
      BY <1>4, <1>6, <1>10, <3>2
    <3> QED BY <1>2, <3>1, <3>3 DEF NoSendCqe
  <2>3. Tiled' /\ MovedEnd' = MovedEnd /\ NoSplice'
    BY <1>2, <2>1 DEF Landed, Tiled, MovedEnd, NoSplice
  <2>4. PICK r \in Int : r = c.res
    BY <1>4
  <2>5. CASE r <= 0
    <3>1. send'.st = "returned" /\ send'.off = send'.total /\ send'.total = send.total
      BY <1>1, <1>6, <1>8, <1>10, <2>4, <2>5 DEF SendResult
    <3>2. MovedEnd = send.total /\ Fits(0) /\ ended
      BY <2>1, <2>4, <2>5 DEF Landed
    <3>3. Counted' /\ Fits(0)' /\ ended'
      BY <1>2, <2>3, <3>1, <3>2 DEF Counted, Fits
    <3> QED BY <1>7, <2>2, <2>3, <3>1, <3>3 DEF SendInv, SendIdle, SendAwaits
  <2>6. CASE r > 0
    <3>1. send' = [send EXCEPT !.st = "run", !.total = @ + r, !.off = @ + r]
      BY <1>8, <1>10, <2>4, <2>6 DEF SendResult
    <3>2. send'.st = "run" /\ send'.off = send.off + r /\ send'.total = send.total + r
      BY <1>1, <3>1
    <3>3. MovedEnd = send.total + r /\ Fits(r)
      BY <2>1, <2>4, <2>6 DEF Landed
    <3>4. Counted' /\ Fits(0)'
      BY <1>1, <1>2, <2>3, <3>2, <3>3 DEF Counted, Fits
    <3>5. send'.off = send'.total
      BY <1>6, <3>2
    <3> QED BY <1>7, <2>2, <2>3, <3>2, <3>4, <3>5 DEF SendInv, SendIdle, SendAwaits
  <2> QED BY <2>5, <2>6
<1> QED BY <1>9, <1>10

\* The splice sendfile_splice awaits completes.
LEMMA SpliceDoneKeeps ==
    ASSUME HelperTypes, SendInv, NEW o \in kernel, SpliceDone(o)
    PROVE  SendInv'
<1> USE DEF sendVars, accVars, execVars, ringVars, kernelHistory, taskHistory
<1>1. /\ send.total \in Nat /\ count \in Nat \cup {None} /\ cq \in Seq(Cqes)
      /\ moved \in Seq(Ranges)
      /\ send.st \in {"run", "await", "returned", "raised"}
  BY DEF HelperTypes
<1>2. /\ o.op = "splice" /\ kernel' = kernel \ {o} /\ UNCHANGED <<send, count, waiters>>
      /\ o.off \in Nat /\ o.len \in Nat
  BY DEF SpliceDone, HelperTypes, OpOK
<1>3. PICK res \in Int :
        /\ res <= o.len
        /\ cq' = Append(cq, [tag |-> SendTag, res |-> res])
        /\ moved' = IF res > 0 THEN Append(moved, [off |-> o.off, len |-> res]) ELSE moved
        /\ ended' = (ended \/ res <= 0)
  BY SpliceRes
<1>4. SendQueued' /\ send'.off = send'.total
  BY <1>2 DEF SendInv, SendQueued
<1>5. send.st \in {"await", "raised"}
  BY <1>1, <1>2 DEF SendInv, SendIdle, NoSplice
<1>6. CASE send.st = "raised"
  BY <1>2, <1>4, <1>6 DEF SendInv, SendIdle, SendAwaits
<1>7. CASE send.st = "await"
  <2>1. /\ NoSendCqe /\ Counted /\ o.off = send.total /\ Fits(o.len)
        /\ \A p \in kernel : p.op = "splice" => o = p
    BY <1>2, <1>7 DEF SendInv, SendAwaits
  <2>2. NoSplice'
    BY <1>2, <2>1 DEF NoSplice
  <2>0. PICK c : c = [tag |-> SendTag, res |-> res]
    OBVIOUS
  <2>3. c = [tag |-> SendTag, res |-> res] /\ c.tag = SendTag /\ c.res = res
    BY <2>0
  <2>4. c \in Cqes
    BY <2>3 DEF Cqes
  <2>5. PICK q : q = Append(cq, c) /\ q = cq'
    BY <1>3, <2>3
  <2>6. /\ Len(cq) \in Nat /\ Len(q) = Len(cq) + 1 /\ q[Len(cq) + 1] = c
        /\ \A i \in 1 .. Len(cq) : q[i] = cq[i]
        /\ \A i \in 1 .. Len(cq) + 1 : i \in 1 .. Len(cq) \/ i = Len(cq) + 1
    <3>1. cq \in Seq(Cqes) /\ q = Append(cq, c)
      BY <1>1, <2>5
    <3>2. /\ Len(cq) \in Nat /\ Len(Append(cq, c)) = Len(cq) + 1
          /\ Append(cq, c)[Len(cq) + 1] = c
          /\ \A i \in 1 .. Len(cq) : Append(cq, c)[i] = cq[i]
          /\ \A i \in 1 .. Len(cq) + 1 : i \in 1 .. Len(cq) \/ i = Len(cq) + 1
      BY <2>4, <3>1, AppendIs
    <3> QED BY <3>1, <3>2, Zenon
  <2>7. \A i \in 1 .. Len(q) : q[i].tag = SendTag => i = Len(cq) + 1 /\ q[i] = c
    BY <2>1, <2>6 DEF NoSendCqe
  <2>8. Fits(0)' /\ Fits(res)'
    BY <1>1, <1>2, <1>3, <2>1 DEF Fits, None
  <2>9. CASE res <= 0
    <3>0. moved' = moved
      BY <1>3, <2>9
    <3>00. ended'
      BY <1>3, <2>9, Zenon
    <3>1. moved' = moved /\ ended'
      BY <3>0, <3>00
    <3>2. Tiled' /\ MovedEnd' = send.total
      BY <2>1, <3>1 DEF Counted, Tiled, MovedEnd
    <3>3. Landed(c)'
      BY <1>2, <2>3, <2>8, <2>9, <3>1, <3>2 DEF Landed, Fits
    <3> QED BY <1>2, <1>4, <1>7, <2>2, <2>5, <2>7, <3>3 DEF SendInv, SendIdle, SendAwaits, NoSplice
  <2>10. CASE res > 0
    <3>0. PICK e : e = [off |-> o.off, len |-> res]
      OBVIOUS
    <3>1. e = [off |-> o.off, len |-> res] /\ e.off = o.off /\ e.len = res
      BY <3>0
    <3>2. e \in Ranges
      BY <1>2, <2>10, <3>1 DEF Ranges
    <3>3. PICK m : m = Append(moved, e) /\ m = moved'
      BY <1>3, <2>10, <3>1
    <3>4. /\ Len(moved) \in Nat /\ Len(m) = Len(moved) + 1 /\ m[Len(moved) + 1] = e
          /\ \A i \in 1 .. Len(moved) : m[i] = moved[i]
          /\ \A i \in 1 .. Len(moved) + 1 : i \in 1 .. Len(moved) \/ i = Len(moved) + 1
          /\ m # <<>>
      <4>1. moved \in Seq(Ranges) /\ m = Append(moved, e)
        BY <1>1, <3>3
      <4>2. /\ Len(moved) \in Nat /\ Len(Append(moved, e)) = Len(moved) + 1
            /\ Append(moved, e)[Len(moved) + 1] = e
            /\ \A i \in 1 .. Len(moved) : Append(moved, e)[i] = moved[i]
            /\ \A i \in 1 .. Len(moved) + 1 : i \in 1 .. Len(moved) \/ i = Len(moved) + 1
            /\ Append(moved, e) # <<>>
        BY <3>2, <4>1, AppendIs
      <4> QED BY <4>1, <4>2, Zenon
    <3>5. MovedEnd' = send.total + res
      BY <2>1, <3>1, <3>3, <3>4 DEF MovedEnd
    <3>6. ASSUME NEW i \in 1 .. Len(m)
          PROVE  m[i].off = IF i = 1 THEN 0 ELSE m[i - 1].off + m[i - 1].len
      <4>1. CASE i \in 1 .. Len(moved)
        <5>1. i # 1 => i - 1 \in 1 .. Len(moved)
          BY <3>4, <4>1
        <5>2. m[i] = moved[i] /\ (i # 1 => m[i - 1] = moved[i - 1])
          BY <3>4, <4>1, <5>1
        <5>3. moved[i].off = IF i = 1 THEN 0 ELSE moved[i - 1].off + moved[i - 1].len
          BY <2>1, <4>1 DEF Counted, Tiled
        <5> QED BY <5>2, <5>3
      <4>2. CASE i = Len(moved) + 1
        <5>1. m[i].off = send.total /\ MovedEnd = send.total
          BY <2>1, <3>1, <3>4, <4>2 DEF Counted
        <5>2. CASE moved = <<>>
          <6>1. i = 1
            BY <4>2, <5>2
          <6> QED BY <5>1, <5>2, <6>1 DEF MovedEnd
        <5>3. CASE moved # <<>>
          <6>1. Len(moved) \in 1 .. Len(moved) /\ i # 1 /\ i - 1 = Len(moved)
            BY <1>1, <3>4, <4>2, <5>3, TailIs
          <6>2. m[i - 1] = moved[Len(moved)]
            BY <3>4, <6>1
          <6> QED BY <5>1, <5>3, <6>1, <6>2 DEF MovedEnd
        <5> QED BY <5>2, <5>3
      <4> QED BY <3>4, <4>1, <4>2
    <3>7. Tiled'
      BY <3>3, <3>6 DEF Tiled
    <3>8. Landed(c)'
      BY <1>2, <2>3, <2>8, <2>10, <3>5, <3>7 DEF Landed, Fits
    <3> QED BY <1>2, <1>4, <1>7, <2>2, <2>5, <2>7, <3>8 DEF SendInv, SendIdle, SendAwaits, NoSplice
  <2> QED BY <2>9, <2>10
<1> QED BY <1>5, <1>6, <1>7

\* Whatever completes, and whoever takes it, sendfile_splice's count is exact.
LEMMA SendInvStep ==
    ASSUME HelperTypes, HeadSeen, SendInv, Next
    PROVE  SendInv'
<1> USE DEF sendVars, accVars, execVars, ringVars, kernelHistory, taskHistory
<1>0. SendQueued
  BY DEF SendInv
<1>1. CASE SendNext
  BY <1>1, SendNextKeeps
<1>2. CASE SendGets
  BY <1>2, SendGetsKeeps
<1>3. ASSUME waiters # <<>>, Head(waiters) # "send", waiters' = Tail(waiters), send' = send
      PROVE  SendQueued'
  <2>1. PICK q : q = Tail(waiters)
    OBVIOUS
  <2>2. /\ \A i \in 1 .. Len(q) : q[i] = "send" => send.st = "await"
        /\ \A i, j \in 1 .. Len(q) : q[i] = "send" /\ q[j] = "send" => i = j
    BY <1>0, <1>3, <2>1, QueueShrinks
  <2> QED BY <1>3, <2>1, <2>2 DEF SendQueued
<1>4. CASE AcceptSkips
  <2>1. /\ waiters # <<>> /\ waiters' = Append(Tail(waiters), "acc") /\ cq # <<>>
        /\ cq' = Tail(cq) /\ UNCHANGED <<send, count, kernel, moved, ended>>
    BY <1>4 DEF AcceptSkips, Resolves, Seen
  <2>2. SendQueued'
    <3> DEFINE S == {"send", "acc", "other"}
    <3>1. waiters \in Seq(S) /\ "acc" \in S
      BY DEF HelperTypes
    <3>2. PICK t : t = Tail(waiters)
      OBVIOUS
    <3>3. PICK q : q = Append(t, "acc") /\ q = waiters'
      BY <2>1, <3>2
    <3> HIDE DEF S
    <3>4. t \in Seq(S)
      BY <2>1, <3>1, <3>2, TailIs
    <3>5. /\ Len(t) \in Nat /\ Len(q) = Len(t) + 1 /\ q[Len(t) + 1] = "acc"
          /\ \A i \in 1 .. Len(t) : q[i] = t[i]
          /\ \A i \in 1 .. Len(t) + 1 : i \in 1 .. Len(t) \/ i = Len(t) + 1
      BY <3>1, <3>3, <3>4, AppendIs
    <3>6. \A i \in 1 .. Len(q) : q[i] = "send" => i \in 1 .. Len(t) /\ t[i] = "send"
      BY <3>5
    <3>7. /\ \A i \in 1 .. Len(t) : t[i] = "send" => send.st = "await"
          /\ \A i, j \in 1 .. Len(t) : t[i] = "send" /\ t[j] = "send" => i = j
      BY <1>0, <2>1, <3>2, QueueShrinks
    <3>8. /\ \A i \in 1 .. Len(q) : q[i] = "send" => send.st = "await"
          /\ \A i, j \in 1 .. Len(q) : q[i] = "send" /\ q[j] = "send" => i = j
      BY <3>6, <3>7
    <3> QED BY <2>1, <3>3, <3>8 DEF SendQueued
  <2> QED BY <2>1, <2>2, SendOtherTakes
<1>5. CASE AcceptGets \/ OtherGets
  <2>1. /\ waiters # <<>> /\ Head(waiters) # "send" /\ waiters' = Tail(waiters) /\ cq # <<>>
        /\ cq' = Tail(cq) /\ UNCHANGED <<send, count, kernel, moved, ended>>
    BY <1>5 DEF AcceptGets, OtherGets, Resolves, Seen
  <2>2. SendQueued'
    BY <1>3, <2>1
  <2> QED BY <2>1, <2>2, SendOtherTakes
<1>6. CASE AcceptNext
  <2>1. /\ waiters' = Append(waiters, "acc") /\ UNCHANGED <<send, count, cq, moved, ended>>
        /\ \A o \in kernel' : o \in kernel \/ o.op # "splice"
    BY <1>6 DEF AcceptNext
  <2>2. SendQueued'
    BY <1>0, <2>1, QueueGrows
  <2> QED BY <2>1, <2>2, SendOtherSubmits
<1>7. CASE OtherNext
  <2>1. /\ waiters' = Append(waiters, "other") /\ UNCHANGED <<send, count, cq, moved, ended>>
        /\ \A o \in kernel' : o \in kernel \/ o.op # "splice"
    BY <1>7 DEF OtherNext
  <2>2. SendQueued'
    BY <1>0, <2>1, QueueGrows
  <2> QED BY <2>1, <2>2, SendOtherSubmits
<1>8. CASE ExecCall
  <2>1. /\ UNCHANGED <<send, waiters, count, cq, moved, ended>>
        /\ \A o \in kernel' : o \in kernel \/ o.op # "splice"
    BY <1>8 DEF ExecCall
  <2>2. SendQueued'
    BY <1>0, <2>1 DEF SendQueued
  <2> QED BY <2>1, <2>2, SendOtherSubmits
<1>9. ASSUME UNCHANGED <<send, waiters, count, kernel, cq, moved, ended>> PROVE SendInv'
  <2>1. SendQueued'
    BY <1>0, <1>9 DEF SendQueued
  <2> QED BY <1>9, <2>1, SendOtherSubmits
<1>10. CASE AcceptLeft \/ ExecCancelled
  BY <1>9, <1>10 DEF AcceptLeft, ExecCancelled
<1>11. ASSUME NEW w \in workers, WorkerSees(w) \/ WorkerRaces(w) PROVE SendInv'
  BY <1>9, <1>11 DEF WorkerSees, WorkerRaces
<1>12. ASSUME NEW w \in workers, WorkerTakes(w) PROVE SendInv'
  <2>1. /\ cq # <<>> /\ cq' = Tail(cq)
        /\ UNCHANGED <<send, waiters, count, kernel, moved, ended>>
    BY <1>12 DEF WorkerTakes, Seen, HeadSeen
  <2>2. SendQueued'
    BY <1>0, <2>1 DEF SendQueued
  <2> QED BY <2>1, <2>2, SendOtherTakes
<1>13. ASSUME NEW o \in kernel, SpliceDone(o) PROVE SendInv'
  BY <1>13, SpliceDoneKeeps
<1>14. ASSUME NEW o \in kernel, NopDone(o) \/ Accepted(o) \/ AcceptFails(o)
       PROVE  SendInv'
  <2>1. PICK c \in Cqes : c.tag # SendTag /\ cq' = Append(cq, c)
    <3>1. conns \in Nat
      BY DEF HelperTypes
    <3>2. o.tag \in {AcceptTag, OtherTag}
      BY <1>14 DEF NopDone, Accepted, AcceptFails, HelperTypes, OpOK
    <3>3. \/ cq' = Append(cq, [tag |-> o.tag, res |-> 0])
          \/ cq' = Append(cq, [tag |-> o.tag, res |-> conns + 1])
          \/ cq' = Append(cq, [tag |-> o.tag, res |-> -1])
      BY <1>14 DEF NopDone, Accepted, AcceptFails, Post
    <3>4. \A r \in Int : /\ [tag |-> o.tag, res |-> r] \in Cqes
                         /\ [tag |-> o.tag, res |-> r].tag # SendTag
      BY <3>2 DEF Cqes, SendTag, AcceptTag, OtherTag
    <3>5. 0 \in Int /\ conns + 1 \in Int /\ -1 \in Int
      BY <3>1
    <3> QED BY <3>3, <3>4, <3>5
  <2>2. kernel' \subseteq kernel /\ UNCHANGED <<send, count, waiters, moved, ended>>
    BY <1>14 DEF NopDone, Accepted, AcceptFails
  <2> QED BY <2>1, <2>2, SendOtherDone
<1> QED BY <1>1, <1>2, <1>4, <1>5, <1>6, <1>7, <1>8, <1>10, <1>11, <1>12, <1>13, <1>14
        DEF Next, Loop, Completions

-----------------------------------------------------------------------------
(* iter_multishot_accept *)

\* A CQE leaves the ring and is not yielded.
LEMMA ConnsShrink ==
    ASSUME HelperTypes, ConnsRise, cq # <<>>, cq' = Tail(cq), UNCHANGED <<yielded, conns>>
    PROVE  ConnsRise'
<1>1. cq \in Seq(Cqes)
  BY DEF HelperTypes
<1>2. PICK q : q = Tail(cq)
  OBVIOUS
<1>3. \A i \in 1 .. Len(q) : i + 1 \in 1 .. Len(cq) /\ q[i] = cq[i + 1] /\ i \in Int
  BY <1>1, <1>2, TailIs
<1>4. \A i \in 1 .. Len(q) : Conn(q[i]) => q[i].res \in 1 .. conns
  BY <1>3 DEF ConnsRise
<1>5. ASSUME NEW i \in 1 .. Len(q), NEW j \in 1 .. Len(q), Conn(q[i]), Conn(q[j]), i < j
      PROVE  q[i].res < q[j].res
  <2>1. PICK a, b : a = i + 1 /\ b = j + 1
    OBVIOUS
  <2>2. a \in 1 .. Len(cq) /\ b \in 1 .. Len(cq) /\ a < b /\ q[i] = cq[a] /\ q[j] = cq[b]
    BY <1>3, <1>5, <2>1
  <2>3. Conn(cq[a]) /\ Conn(cq[b])
    BY <1>5, <2>2
  <2>4. cq[a].res < cq[b].res
    BY <2>2, <2>3 DEF ConnsRise
  <2> QED BY <2>2, <2>4
<1>6. yielded # <<>> => \A i \in 1 .. Len(q) : Conn(q[i]) => yielded[Len(yielded)] < q[i].res
  BY <1>3 DEF ConnsRise
<1> QED BY <1>2, <1>4, <1>5, <1>6 DEF ConnsRise, Conn

\* A CQE is posted; a connection in it is the newest.
LEMMA ConnsGrow ==
    ASSUME HelperTypes, ConnsRise, NEW c \in Cqes, cq' = Append(cq, c),
           yielded' = yielded, conns' \in Nat, conns <= conns',
           Conn(c) => c.res = conns' /\ conns < conns'
    PROVE  ConnsRise'
<1>1. cq \in Seq(Cqes) /\ conns \in Nat /\ yielded \in Seq(Nat)
  BY DEF HelperTypes
<1>2. PICK q : q = Append(cq, c)
  OBVIOUS
<1>3. /\ Len(cq) \in Nat /\ Len(q) = Len(cq) + 1 /\ q[Len(cq) + 1] = c
      /\ \A i \in 1 .. Len(cq) : q[i] = cq[i]
      /\ \A i \in 1 .. Len(cq) + 1 : i \in 1 .. Len(cq) \/ i = Len(cq) + 1
  BY <1>1, <1>2, AppendIs
<1>4. PICK k \in Nat : k = conns'
  OBVIOUS
<1>5. /\ \A i \in 1 .. Len(cq) : Conn(cq[i]) => cq[i].res \in 1 .. conns
      /\ \A i, j \in 1 .. Len(cq) :
            Conn(cq[i]) /\ Conn(cq[j]) /\ i < j => cq[i].res < cq[j].res
      /\ yielded # <<>> =>
            \A i \in 1 .. Len(cq) : Conn(cq[i]) => yielded[Len(yielded)] < cq[i].res
  BY DEF ConnsRise
<1>6. \A i \in 1 .. Len(yielded) : yielded[i] \in 1 .. conns /\ yielded[i] \in 1 .. k
  BY <1>1, <1>4 DEF ConnsRise
<1>7. \A i \in 1 .. Len(q) : Conn(q[i]) => q[i].res \in 1 .. k
  BY <1>1, <1>3, <1>4, <1>5
<1>8. ASSUME NEW i \in 1 .. Len(q), NEW j \in 1 .. Len(q), Conn(q[i]), Conn(q[j]), i < j
      PROVE  q[i].res < q[j].res
  <2>1. i \in 1 .. Len(cq) /\ q[i] = cq[i] /\ cq[i].res \in 1 .. conns
    BY <1>3, <1>5, <1>8
  <2>2. CASE j \in 1 .. Len(cq)
    BY <1>3, <1>5, <1>8, <2>1, <2>2
  <2>3. CASE j = Len(cq) + 1
    <3>1. q[j].res = conns' /\ conns < conns'
      BY <1>3, <1>8, <2>3
    <3> QED BY <1>1, <2>1, <3>1
  <2> QED BY <1>3, <2>2, <2>3
<1>9. ASSUME yielded # <<>>, NEW i \in 1 .. Len(q), Conn(q[i])
      PROVE  yielded[Len(yielded)] < q[i].res
  <2>1. CASE i \in 1 .. Len(cq)
    BY <1>3, <1>5, <1>9, <2>1
  <2>2. CASE i = Len(cq) + 1
    <3>1. Len(yielded) \in 1 .. Len(yielded)
      BY <1>1, <1>9, TailIs
    <3>2. yielded[Len(yielded)] \in 1 .. conns
      BY <1>6, <3>1
    <3>3. q[i].res = conns' /\ conns < conns'
      BY <1>3, <1>9, <2>2
    <3> QED BY <1>1, <3>2, <3>3
  <2> QED BY <1>3, <2>1, <2>2
<1>10. \A i \in 1 .. Len(yielded) : i > 1 => yielded[i - 1] < yielded[i]
  BY DEF ConnsRise
<1> QED BY <1>2, <1>4, <1>6, <1>7, <1>8, <1>9, <1>10 DEF ConnsRise, Conn

\* The connection at the head of the ring is yielded.
LEMMA ConnYielded ==
    ASSUME HelperTypes, ConnsRise, cq # <<>>, cq' = Tail(cq), Conn(Cqe),
           yielded' = Append(yielded, Cqe.res), conns' = conns
    PROVE  ConnsRise'
<1>1. cq \in Seq(Cqes) /\ conns \in Nat /\ yielded \in Seq(Nat)
  BY DEF HelperTypes
<1>2. PICK q, r : q = Tail(cq) /\ r = Cqe.res
  OBVIOUS
<1>3. \A i \in 1 .. Len(q) : /\ i + 1 \in 1 .. Len(cq) /\ q[i] = cq[i + 1]
                             /\ i \in Int /\ 1 < i + 1
  BY <1>1, <1>2, TailIs
<1>4. Cqe = cq[1] /\ 1 \in 1 .. Len(cq)
  BY CqeIs
<1>5. /\ \A i \in 1 .. Len(cq) : Conn(cq[i]) => cq[i].res \in 1 .. conns
      /\ \A i, j \in 1 .. Len(cq) :
            Conn(cq[i]) /\ Conn(cq[j]) /\ i < j => cq[i].res < cq[j].res
      /\ yielded # <<>> =>
            \A i \in 1 .. Len(cq) : Conn(cq[i]) => yielded[Len(yielded)] < cq[i].res
  BY DEF ConnsRise
<1>6. r \in 1 .. conns /\ r \in Nat
  BY <1>1, <1>2, <1>4, <1>5
<1>7. PICK y : y = Append(yielded, r)
  OBVIOUS
<1>8. /\ Len(yielded) \in Nat /\ Len(y) = Len(yielded) + 1 /\ y[Len(yielded) + 1] = r
      /\ \A i \in 1 .. Len(yielded) : y[i] = yielded[i]
      /\ \A i \in 1 .. Len(yielded) + 1 : i \in 1 .. Len(yielded) \/ i = Len(yielded) + 1
  BY <1>1, <1>6, <1>7, AppendIs
<1>9. \A i \in 1 .. Len(y) : y[i] \in 1 .. conns
  BY <1>6, <1>8 DEF ConnsRise
<1>10. ASSUME NEW i \in 1 .. Len(y), i > 1 PROVE y[i - 1] < y[i]
  <2>1. i - 1 \in 1 .. Len(yielded) /\ y[i - 1] = yielded[i - 1]
    BY <1>8, <1>10
  <2>2. CASE i \in 1 .. Len(yielded)
    BY <1>8, <1>10, <2>1, <2>2 DEF ConnsRise
  <2>3. CASE i = Len(yielded) + 1
    <3>1. yielded # <<>> /\ i - 1 = Len(yielded)
      BY <1>8, <1>10, <2>3
    <3>2. yielded[Len(yielded)] < r
      BY <1>2, <1>4, <1>5, <3>1
    <3> QED BY <1>8, <2>1, <2>3, <3>1, <3>2
  <2> QED BY <1>8, <2>2, <2>3
<1>11. \A i \in 1 .. Len(q) : Conn(q[i]) => q[i].res \in 1 .. conns
  BY <1>3, <1>5
<1>12. ASSUME NEW i \in 1 .. Len(q), NEW j \in 1 .. Len(q), Conn(q[i]), Conn(q[j]), i < j
       PROVE  q[i].res < q[j].res
  <2>1. PICK a, b : a = i + 1 /\ b = j + 1
    OBVIOUS
  <2>2. a \in 1 .. Len(cq) /\ b \in 1 .. Len(cq) /\ a < b /\ q[i] = cq[a] /\ q[j] = cq[b]
    BY <1>3, <1>12, <2>1
  <2>3. Conn(cq[a]) /\ Conn(cq[b])
    BY <1>12, <2>2
  <2> QED BY <1>5, <2>2, <2>3
<1>13. ASSUME NEW i \in 1 .. Len(q), Conn(q[i]) PROVE y[Len(y)] < q[i].res
  <2>1. PICK a : a = i + 1
    OBVIOUS
  <2>2. a \in 1 .. Len(cq) /\ 1 < a /\ q[i] = cq[a] /\ Conn(cq[a]) /\ Conn(cq[1])
    BY <1>3, <1>4, <1>13, <2>1
  <2>3. cq[1].res < cq[a].res
    BY <1>4, <1>5, <2>2
  <2> QED BY <1>2, <1>4, <1>8, <2>2, <2>3
<1>14. yielded' = y /\ cq' = q
  BY <1>2, <1>7
<1> QED BY <1>9, <1>10, <1>11, <1>12, <1>13, <1>14 DEF ConnsRise, Conn

\* The generator and the kernel keep the connections in order, and no other
\* step touches them.
LEMMA ConnsRiseStep ==
    ASSUME HelperTypes, HeadSeen, ConnsRise, Next
    PROVE  ConnsRise'
<1> USE DEF sendVars, accVars, execVars, ringVars, kernelHistory, taskHistory
<1>1. ASSUME UNCHANGED <<cq, yielded, conns>> PROVE ConnsRise'
  BY <1>1 DEF ConnsRise, Conn
<1>2. CASE SendNext \/ AcceptNext \/ AcceptLeft \/ OtherNext \/ ExecCall \/ ExecCancelled
  <2>1. UNCHANGED <<cq, yielded, conns>>
    BY <1>2 DEF SendNext, AcceptNext, AcceptLeft, OtherNext, ExecCall, ExecCancelled
  <2> QED BY <1>1, <2>1
<1>3. CASE SendGets \/ AcceptSkips \/ OtherGets
  BY <1>3, ConnsShrink DEF SendGets, AcceptSkips, OtherGets, Resolves, Seen
<1>4. CASE AcceptGets
  <2>1. cq # <<>> /\ cq' = Tail(cq) /\ conns' = conns /\ Cqe.tag = AcceptTag
    BY <1>4 DEF AcceptGets, Resolves, Seen, Foreign
  <2>2. Cqe.res \in Int
    BY <2>1, CqeIs
  <2>3. CASE Cqe.res < 0
    <3>1. yielded' = yielded
      BY <1>4, <2>3 DEF AcceptGets
    <3> QED BY <2>1, <3>1, ConnsShrink
  <2>4. CASE ~(Cqe.res < 0)
    <3>1. yielded' = Append(yielded, Cqe.res)
      BY <1>4, <2>4 DEF AcceptGets
    <3>2. Conn(Cqe)
      BY <2>1, <2>2, <2>4 DEF Conn
    <3> QED BY <2>1, <3>1, <3>2, ConnYielded
  <2> QED BY <2>3, <2>4
<1>5. ASSUME NEW w \in workers, WorkerSees(w) \/ WorkerRaces(w) PROVE ConnsRise'
  BY <1>1, <1>5 DEF WorkerSees, WorkerRaces
<1>6. ASSUME NEW w \in workers, WorkerTakes(w) PROVE ConnsRise'
  BY <1>6, ConnsShrink DEF WorkerTakes, Seen, HeadSeen
<1>7. conns \in Nat
  BY DEF HelperTypes
<1>8. ASSUME NEW o \in kernel, SpliceDone(o) PROVE ConnsRise'
  <2>1. PICK res \in Int : cq' = Append(cq, [tag |-> SendTag, res |-> res])
    BY <1>8, SpliceRes
  <2>2. PICK c : c = [tag |-> SendTag, res |-> res]
    OBVIOUS
  <2>3. c \in Cqes /\ ~Conn(c)
    BY <2>2 DEF Cqes, Conn, SendTag, AcceptTag
  <2>4. UNCHANGED <<yielded, conns>>
    BY <1>8 DEF SpliceDone
  <2> QED BY <1>7, <2>1, <2>2, <2>3, <2>4, ConnsGrow
<1>9. ASSUME NEW o \in kernel, NopDone(o) \/ AcceptFails(o) PROVE ConnsRise'
  <2>1. \/ cq' = Append(cq, [tag |-> OtherTag, res |-> 0])
        \/ cq' = Append(cq, [tag |-> AcceptTag, res |-> -1])
    BY <1>9 DEF NopDone, AcceptFails, Post, HelperTypes, OpOK
  <2>2. \A c \in {[tag |-> OtherTag, res |-> 0], [tag |-> AcceptTag, res |-> -1]} :
           c \in Cqes /\ ~Conn(c)
    BY DEF Cqes, Conn, OtherTag, AcceptTag
  <2>3. PICK c \in Cqes : cq' = Append(cq, c) /\ ~Conn(c)
    BY <2>1, <2>2
  <2>4. UNCHANGED <<yielded, conns>>
    BY <1>9 DEF NopDone, AcceptFails
  <2> QED BY <1>7, <2>3, <2>4, ConnsGrow
<1>10. ASSUME NEW o \in kernel, Accepted(o) PROVE ConnsRise'
  <2>1. /\ cq' = Append(cq, [tag |-> AcceptTag, res |-> conns + 1])
        /\ conns' = conns + 1 /\ yielded' = yielded
    BY <1>10 DEF Accepted, Post, HelperTypes, OpOK
  <2>2. PICK c : c = [tag |-> AcceptTag, res |-> conns + 1]
    OBVIOUS
  <2>3. c \in Cqes /\ c.res = conns + 1
    BY <1>7, <2>2 DEF Cqes
  <2>4. conns' \in Nat /\ conns < conns'
    BY <1>7, <2>1
  <2> QED BY <1>7, <2>1, <2>2, <2>3, <2>4, ConnsGrow
<1> QED BY <1>2, <1>3, <1>4, <1>5, <1>6, <1>8, <1>9, <1>10 DEF Next, Loop, Completions

-----------------------------------------------------------------------------
(* What vanishes from the ring *)

\* A set one of whose members is replaced is no larger.
LEMMA ReplaceBounds ==
    ASSUME NEW S, IsFiniteSet(S), NEW x \in S, NEW y
    PROVE  Cardinality((S \ {x}) \cup {y}) <= Cardinality(S)
<1> DEFINE R == S \ {x}
<1>1. IsFiniteSet(R) /\ Cardinality(R) = Cardinality(S) - 1
  BY FS_RemoveElement
<1>2. Cardinality(S) \in Nat /\ Cardinality(R) \in Nat
  BY <1>1, FS_CardinalityType
<1> HIDE DEF R
<1>3. Cardinality(R \cup {y}) \in {Cardinality(R), Cardinality(R) + 1}
  BY <1>1, FS_AddElement
<1>4. Cardinality(R \cup {y}) <= Cardinality(S)
  BY <1>1, <1>2, <1>3
<1> QED BY <1>4 DEF R

\* Every completion that leaves the ring reaches a task, is thrown away, or is
\* taken by a worker that was left behind.
LEMMA LossCountedStep ==
    ASSUME HelperTypes, LossCounted, Next
    PROVE  LossCounted'
<1> USE DEF sendVars, accVars, execVars, ringVars, kernelHistory, taskHistory
<1>1. head \in Nat /\ got \in Nat /\ thrown \in Nat /\ abandoned \in Nat
  BY DEF HelperTypes
<1>2. PICK L : L = LeftBehind
  OBVIOUS
<1>3. IsFiniteSet(L) /\ Cardinality(L) \in Nat
  <2>1. L \in SUBSET workers /\ IsFiniteSet(workers)
    BY <1>2 DEF LeftBehind, HelperTypes
  <2>2. IsFiniteSet(L)
    BY <2>1, FS_Subset
  <2> QED BY <2>2, FS_CardinalityType
<1>4. head - got + Cardinality(L) <= thrown + abandoned
  BY <1>2 DEF LossCounted
<1>5. ASSUME LeftBehind' = L,
             \/ UNCHANGED <<head, got, thrown, abandoned>>
             \/ head' = head + 1 /\ got' = got + 1 /\ UNCHANGED <<thrown, abandoned>>
             \/ head' = head + 1 /\ thrown' = thrown + 1 /\ UNCHANGED <<got, abandoned>>
      PROVE  LossCounted'
  <2>1. LossCounted' <=> head' - got' + Cardinality(L) <= thrown' + abandoned'
    BY <1>5 DEF LossCounted
  <2> QED BY <1>1, <1>3, <1>4, <1>5, <2>1
<1>6. workers' = workers => LeftBehind' = L
  BY <1>2 DEF LeftBehind
<1>7. CASE SendNext \/ AcceptNext \/ AcceptLeft \/ OtherNext
  BY <1>5, <1>6, <1>7 DEF SendNext, AcceptNext, AcceptLeft, OtherNext
<1>8. CASE SendGets \/ AcceptGets \/ OtherGets
  <2>1. /\ head' = head + 1 /\ got' = got + 1 /\ UNCHANGED <<thrown, abandoned>>
        /\ workers' = workers
    BY <1>8 DEF SendGets, AcceptGets, OtherGets, Resolves, Seen, Given
  <2> QED BY <1>5, <1>6, <2>1
<1>9. CASE AcceptSkips
  BY <1>5, <1>6, <1>9 DEF AcceptSkips, Resolves, Seen
<1>10. CASE ExecCall
  <2>1. PICK w : w = [n |-> exec.n, awaited |-> TRUE, seen |-> None]
    OBVIOUS
  <2>2. w.awaited
    BY <2>1
  <2>3. workers' \in {workers, workers \cup {w}} /\ UNCHANGED <<head, got, thrown, abandoned>>
    BY <1>10, <2>1 DEF ExecCall
  <2>4. LeftBehind' = L
    BY <1>2, <2>2, <2>3 DEF LeftBehind
  <2> QED BY <1>5, <2>3, <2>4
<1>11. CASE ExecCancelled
  <2>1. PICK w \in workers :
          /\ w.awaited
          /\ \/ workers' = (workers \ {w}) \cup {[w EXCEPT !.awaited = FALSE]}
                /\ abandoned' = abandoned + 1
             \/ workers' = workers \ {w} /\ UNCHANGED abandoned
    BY <1>11 DEF ExecCancelled
  <2>2. UNCHANGED <<head, got, thrown>>
    BY <1>11 DEF ExecCancelled
  <2>3. CASE workers' = workers \ {w} /\ UNCHANGED abandoned
    <3>1. LeftBehind' = L
      BY <1>2, <2>1, <2>3 DEF LeftBehind
    <3> QED BY <1>5, <2>2, <2>3, <3>1
  <2>4. CASE /\ workers' = (workers \ {w}) \cup {[w EXCEPT !.awaited = FALSE]}
             /\ abandoned' = abandoned + 1
    <3>1. PICK v : v = [w EXCEPT !.awaited = FALSE]
      OBVIOUS
    <3>2. w \in [n : Nat, awaited : BOOLEAN, seen : Int]
      BY DEF HelperTypes, Workers
    <3>3. v.awaited = FALSE
      BY <3>1, <3>2
    <3>4. LeftBehind' = L \cup {v}
      BY <1>2, <2>1, <2>4, <3>1, <3>3 DEF LeftBehind
    <3>5. Cardinality(L \cup {v}) \in {Cardinality(L), Cardinality(L) + 1}
      BY <1>3, FS_AddElement
    <3>6. LossCounted' <=> head' - got' + Cardinality(L \cup {v}) <= thrown' + abandoned'
      BY <3>4 DEF LossCounted
    <3> QED BY <1>1, <1>3, <1>4, <2>2, <2>4, <3>5, <3>6
  <2> QED BY <2>1, <2>3, <2>4
<1>12. ASSUME NEW w \in workers, WorkerSees(w) PROVE LossCounted'
  <2>1. PICK v : v = [w EXCEPT !.seen = head]
    OBVIOUS
  <2>2. w \in [n : Nat, awaited : BOOLEAN, seen : Int]
    BY DEF HelperTypes, Workers
  <2>3. v.awaited = w.awaited
    BY <2>1, <2>2
  <2>4. workers' = (workers \ {w}) \cup {v} /\ UNCHANGED <<head, got, thrown, abandoned>>
    BY <1>12, <2>1 DEF WorkerSees
  <2>5. CASE w.awaited
    <3>1. LeftBehind' = L
      BY <1>2, <2>3, <2>4, <2>5 DEF LeftBehind
    <3> QED BY <1>5, <2>4, <3>1
  <2>6. CASE ~w.awaited
    <3>1. LeftBehind' = (L \ {w}) \cup {v} /\ w \in L
      BY <1>2, <2>3, <2>4, <2>6 DEF LeftBehind
    <3>2. Cardinality((L \ {w}) \cup {v}) <= Cardinality(L)
      BY <1>3, <3>1, ReplaceBounds
    <3>3. LossCounted' <=> head' - got' + Cardinality((L \ {w}) \cup {v}) <= thrown' + abandoned'
      BY <3>1 DEF LossCounted
    <3>4. IsFiniteSet((L \ {w}) \cup {v})
      BY <1>3, FS_RemoveElement, FS_AddElement
    <3>5. Cardinality((L \ {w}) \cup {v}) \in Nat
      BY <3>4, FS_CardinalityType
    <3> QED BY <1>1, <1>3, <1>4, <2>4, <3>2, <3>3, <3>5
  <2> QED BY <2>5, <2>6
<1>13. ASSUME NEW w \in workers, WorkerTakes(w) PROVE LossCounted'
  <2>1. /\ workers' = workers \ {w} /\ head' = head + 1 /\ UNCHANGED <<thrown, abandoned>>
    BY <1>13 DEF WorkerTakes, Seen
  <2>2. CASE w.awaited
    <3>1. got' = got + 1
      BY <1>13, <2>2 DEF WorkerTakes
    <3>2. LeftBehind' = L
      BY <1>2, <2>1, <2>2 DEF LeftBehind
    <3> QED BY <1>5, <2>1, <3>1, <3>2
  <2>3. CASE ~w.awaited
    <3>1. got' = got
      BY <1>13, <2>3 DEF WorkerTakes
    <3>2. LeftBehind' = L \ {w} /\ w \in L
      BY <1>2, <2>1, <2>3 DEF LeftBehind
    <3>3. Cardinality(L \ {w}) = Cardinality(L) - 1
      BY <1>3, <3>2, FS_RemoveElement
    <3>4. LossCounted' <=> head' - got' + Cardinality(L \ {w}) <= thrown' + abandoned'
      BY <3>2 DEF LossCounted
    <3> QED BY <1>1, <1>3, <1>4, <2>1, <3>1, <3>3, <3>4
  <2> QED BY <2>2, <2>3
<1>14. ASSUME NEW w \in workers, WorkerRaces(w) PROVE LossCounted'
  BY <1>5, <1>6, <1>14 DEF WorkerRaces
<1>15. ASSUME NEW o \in kernel, SpliceDone(o) \/ NopDone(o) \/ Accepted(o) \/ AcceptFails(o)
       PROVE  LossCounted'
  BY <1>5, <1>6, <1>15 DEF SpliceDone, NopDone, Accepted, AcceptFails
<1> QED BY <1>7, <1>8, <1>9, <1>10, <1>11, <1>12, <1>13, <1>14, <1>15
        DEF Next, Loop, Completions

-----------------------------------------------------------------------------
(* Theorems on the helpers *)

\* The inductive invariant of the helpers holds in every reachable state: a
\* splice is in the kernel, completed or counted, connections rise through the
\* ring, and every loss has its cause.
THEOREM HelpersInvariant == Spec => []HelpersInv
<1>1. Init => HelpersInv
  <2> SUFFICES ASSUME Init PROVE HelpersInv
    OBVIOUS
  <2>1. HelperTypes
    <3>1. IsFiniteSet({})
      BY FS_EmptySet
    <3> QED BY <3>1, HelpersAssumption DEF Init, HelperTypes
  <2>2. HeadSeen
    BY DEF Init, HeadSeen
  <2>3. SendInv
    <3>1. count # None => 0 <= count
      BY HelpersAssumption DEF Init, None
    <3>2. Fits(0)
      BY <3>1, HelpersAssumption DEF Init, Fits, None
    <3> QED BY <3>2 DEF Init, SendInv, SendQueued, SendIdle, SendAwaits, NoSplice,
                        NoSendCqe, Counted, Tiled, MovedEnd
  <2>4. ConnsRise
    BY DEF Init, ConnsRise
  <2>5. LossCounted
    <3>1. LeftBehind = {}
      BY DEF Init, LeftBehind
    <3>2. Cardinality(LeftBehind) = 0
      BY <3>1, FS_EmptySet
    <3> QED BY <3>2 DEF Init, LossCounted
  <2> QED BY <2>1, <2>2, <2>3, <2>4, <2>5 DEF HelpersInv
<1>2. HelpersInv /\ [Next]_vars => HelpersInv'
  <2> SUFFICES ASSUME HelpersInv, [Next]_vars PROVE HelpersInv'
    OBVIOUS
  <2>1. HelperTypes /\ HeadSeen /\ SendInv /\ ConnsRise /\ LossCounted
    BY DEF HelpersInv
  <2>2. CASE Next
    BY <2>1, <2>2, HelperTypesStep, HeadSeenStep, SendInvStep, ConnsRiseStep,
       LossCountedStep DEF HelpersInv
  <2>3. CASE UNCHANGED vars
    <3> USE <2>3 DEF vars, sendVars, accVars, execVars, ringVars, kernelHistory, taskHistory
    <3>1. HelperTypes' /\ HeadSeen'
      BY <2>1 DEF HelperTypes, HeadSeen
    <3>2. SendInv'
      BY <2>1 DEF SendInv, SendQueued, SendIdle, SendAwaits, NoSplice, NoSendCqe, Counted,
                  Fits, Landed, Tiled, MovedEnd
    <3>3. ConnsRise' /\ LossCounted'
      BY <2>1 DEF ConnsRise, Conn, LossCounted, LeftBehind
    <3> QED BY <3>1, <3>2, <3>3 DEF HelpersInv
  <2> QED BY <2>2, <2>3
<1> QED BY <1>1, <1>2, PTL DEF Spec

\* sendfile_splice reports exactly the bytes its splices moved, in one piece
\* and at most `count`, and less only after a splice that moved nothing, for
\* every file size, count and chunk and whatever else shares the ring.
THEOREM HelpersSendExact == Spec => []SendExact
<1>1. HelpersInv => SendExact
  <2> SUFFICES ASSUME HelpersInv, send.st \in {"run", "returned"} PROVE SendExact
    BY DEF SendExact
  <2>1. /\ Counted /\ Fits(0) /\ send.total \in Nat
        /\ (send.st = "returned" /\ (count = None \/ send.total < count)) => ended
    BY DEF HelpersInv, SendInv, SendIdle, HelperTypes
  <2>2. count # None => send.total <= count
    BY <2>1 DEF Fits
  <2> QED BY <2>1, <2>2 DEF SendExact, Counted, Tiled, MovedEnd
<1> QED BY <1>1, HelpersInvariant, PTL

\* iter_multishot_accept yields the connections of its socket once each and in
\* order, for any number of connections.
THEOREM HelpersAcceptFds == Spec => []AcceptFds
<1>1. HelpersInv => AcceptFds
  BY DEF HelpersInv, ConnsRise, AcceptFds
<1> QED BY <1>1, HelpersInvariant, PTL

\* A completion vanishes from the ring only when the generator throws it away
\* or a cancelled executor wait has left its worker behind to take it.
THEOREM HelpersLossExplained == Spec => []LossExplained
<1>1. HelpersInv => LossExplained
  <2> SUFFICES ASSUME HelpersInv PROVE head - got <= thrown + abandoned
    BY DEF LossExplained
  <2>1. head \in Nat /\ got \in Nat /\ thrown \in Nat /\ abandoned \in Nat
    BY DEF HelpersInv, HelperTypes
  <2>2. Cardinality(LeftBehind) \in Nat
    <3>1. LeftBehind \in SUBSET workers /\ IsFiniteSet(workers)
      BY DEF HelpersInv, HelperTypes, LeftBehind
    <3>2. IsFiniteSet(LeftBehind)
      BY <3>1, FS_Subset
    <3> QED BY <3>2, FS_CardinalityType
  <2>3. head - got + Cardinality(LeftBehind) <= thrown + abandoned
    BY DEF HelpersInv, LossCounted
  <2> QED BY <2>1, <2>2, <2>3
<1> QED BY <1>1, HelpersInvariant, PTL
=============================================================================

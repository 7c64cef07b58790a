---------------------------- MODULE Orchestrate ----------------------------
(***************************************************************************)
(* One call of copy, write or write_many (pyuring/_easy.py) down to the C  *)
(* entry points behind pyuring/native/c_api.py: validation, the presets of *)
(* the mode, the sync policy, the choice between the plain and the dynamic *)
(* function, the wrappers of the two callbacks, and what the caller gets.  *)
(* The C pipelines are reduced to their effect, one chunk after the other, *)
(* each handed to the kernel once and moved in full or in part: their      *)
(* concurrency is in CopyPipeline, WriteNewfile and WriteManyFiles.        *)
(***************************************************************************)
EXTENDS Integers

CONSTANTS
    QDs, Blocks,                     \* qd and block_size a caller may pass
    Sizes,                           \* size of the source of copy, in bytes
    MBs,                             \* total_mb of write, mb_per_file of write_many
    FileCounts,                      \* nfiles of write_many
    MiB,                             \* 2^20
    CopySafeQD, CopySafeBlock,       \* 16 and 1 MiB
    CopyFastQD, CopyFastBlock,       \* 64 and 1 MiB
    WriteSafeQD, WriteSafeBlock,     \* 128 and 4 KiB
    WriteFastQD, WriteFastBlock,     \* 256 and 64 KiB
    UserSizes,                       \* what the program's buffer_size_cb returns
    BufferCap,                       \* 64 MiB
    UintMod,                         \* 2^32, the range of c_uint
    Faults                           \* subset of {"setup", "io", "short", "fsync"}

ASSUME OrchestrateAssumption ==
    /\ QDs \cup Blocks \cup Sizes \cup MBs \cup FileCounts \cup UserSizes \subseteq Nat
    /\ {MiB, BufferCap} \subseteq Nat \ {0} /\ UintMod \in Nat \ {0, 1}
    /\ {CopySafeQD, CopySafeBlock, CopyFastQD, CopyFastBlock, WriteSafeQD,
        WriteSafeBlock, WriteFastQD, WriteFastBlock} \subseteq Nat \ {0}
    /\ Faults \subseteq {"setup", "io", "short", "fsync"}

Modes == {"safe", "fast", "auto", "turbo"}
Policies == {"default", "none", "end", "data", "end_and_data", "always"}

VARIABLES
    pc,         \* "called", "native", "run", "sync" or "done"
    req,        \* the arguments of the call
    args,       \* the arguments of the C function
    max_buffer, \* max_buffer_size of the pipeline
    total,      \* bytes the pipeline will write
    touched,    \* the destination has been created or truncated
    handed,     \* next_off: bytes handed to the kernel so far
    retired,    \* slots of copy that saw the end of the source
    written,    \* bytes written so far
    cut,        \* history: the kernel moved less than it was handed
    undurable,  \* history: some write had no RWF_DSYNC
    stopped,    \* history: progress_cb returned true or raised an Exception
    escaped,    \* history: progress_cb raised past the wrapper
    synced,     \* files fsynced
    result      \* "returned" or what was raised

callVars == <<pc, req, args, max_buffer, total, touched, handed, retired,
              written, cut, undurable, stopped, escaped, synced, result>>

\* What the pipeline and its callbacks change.
moving == <<handed, retired, written, cut, undurable, stopped, escaped>>

Lesser(a, b) == IF a < b THEN a ELSE b
Greater(a, b) == IF a > b THEN a ELSE b

\* ctypes stores a Python integer into c_uint modulo 2^32.
AsUint(n) == n % UintMod

-----------------------------------------------------------------------------
(* pyuring/_easy.py: the arguments *)

\* _adaptive_buffer_size: twice the size at every quarter.
AdaptiveBufferSize(offset, all, default) ==
    CASE all <= 0 -> default
      [] 4 * offset < all -> default
      [] 2 * offset < all /\ 4 * offset >= all -> 2 * default
      [] 4 * offset < 3 * all /\ 2 * offset >= all -> 4 * default
      [] OTHER -> 8 * default

ResolveCopyTuning(mode, qd, block) ==
    CASE mode = "safe" -> <<Lesser(qd, CopySafeQD), Lesser(block, CopySafeBlock)>>
      [] mode = "fast" -> <<Greater(qd, CopyFastQD), Greater(block, CopyFastBlock)>>
      [] OTHER -> <<qd, block>>

ResolveWriteTuning(mode, qd, block) ==
    CASE mode = "safe" -> <<Lesser(qd, WriteSafeQD), Lesser(block, WriteSafeBlock)>>
      [] mode = "fast" -> <<Greater(qd, WriteFastQD), Greater(block, WriteFastBlock)>>
      [] OTHER -> <<qd, block>>

ModeValid(mode) == mode \in {"safe", "fast", "auto"}

\* _copy_fsync, and the policies it does not raise ValueError for.
CopyPolicies == {"default", "none", "end"}
CopyFsync(policy, fsync) == policy = "end" \/ (policy = "default" /\ fsync)

\* Faulty variant: "end" and "data" are taken for one another.
WriteFsyncDsync_Swapped(policy, fsync, dsync) ==
    IF policy = "default" THEN <<fsync, dsync>>
    ELSE <<policy \in {"data", "end_and_data"}, policy \in {"end", "end_and_data"}>>

\* _write_fsync_dsync: the end fsync and the RWF_DSYNC of every write.
WritePolicies == {"default", "none", "end", "data", "end_and_data"}
WriteFsyncDsync(policy, fsync, dsync) ==
    IF policy = "default" THEN <<fsync, dsync>>
    ELSE <<policy \in {"end", "end_and_data"}, policy \in {"data", "end_and_data"}>>

\* The callback of a call that gave none: _fixed_block_cb outside "auto".
DefaultCb(mode) == IF mode = "auto" THEN "adaptive" ELSE "fixed"

-----------------------------------------------------------------------------
(* pyuring/native/c_api.py: the arguments of the C functions *)

\* copy takes its size from fstat: no argument of it is a number of bytes.
CopyPathDynamic(qd, block, cb, fsync, progress) ==
    [fn |-> "copy", mb |-> 0, nfiles |-> 1, qd |-> AsUint(qd),
     block |-> AsUint(block), cb |-> cb, fsync |-> fsync, dsync |-> FALSE,
     progress |-> progress]

\* No way to ask for an fsync: the C function passes do_fsync = 0.
CopyPath(qd, block) == CopyPathDynamic(qd, block, "null", FALSE, FALSE)

WriteNewfileDynamic(mb, qd, block, cb, fsync, dsync, progress) ==
    [fn |-> "write", mb |-> AsUint(mb), nfiles |-> 1, qd |-> AsUint(qd),
     block |-> AsUint(block), cb |-> cb, fsync |-> fsync, dsync |-> dsync,
     progress |-> progress]

WriteNewfile(mb, qd, block, fsync, dsync) ==
    WriteNewfileDynamic(mb, qd, block, "null", fsync, dsync, FALSE)

WriteManyfiles(nfiles, mb, qd, block, fsync) ==
    [fn |-> "write_many", mb |-> AsUint(mb), nfiles |-> AsUint(nfiles),
     qd |-> AsUint(qd), block |-> AsUint(block), cb |-> "null",
     fsync |-> fsync, dsync |-> FALSE, progress |-> FALSE]

-----------------------------------------------------------------------------
(* The call *)

Extras == req.progress \/ req.policy # "default" \/ req.cb

Copy ==
    LET tuned == ResolveCopyTuning(req.mode, req.qd, req.block)
        cb == IF req.cb THEN "user" ELSE DefaultCb(req.mode)
    IN  IF req.mode = "auto" \/ Extras
        THEN CopyPathDynamic(tuned[1], tuned[2], cb,
                             CopyFsync(req.policy, req.fsync), req.progress)
        ELSE CopyPath(tuned[1], tuned[2])

Write ==
    LET tuned == ResolveWriteTuning(req.mode, req.qd, req.block)
        cb == IF req.cb THEN "user" ELSE DefaultCb(req.mode)
        sync == WriteFsyncDsync(req.policy, req.fsync, req.dsync)
    IN  IF req.mode = "auto" \/ Extras
        THEN WriteNewfileDynamic(req.size, tuned[1], tuned[2], cb, sync[1],
                                 sync[2], req.progress)
        ELSE WriteNewfile(req.size, tuned[1], tuned[2], sync[1], sync[2])

WriteMany ==
    LET tuned == ResolveWriteTuning(req.mode, req.qd, req.block)
    IN  WriteManyfiles(req.nfiles, req.size, tuned[1], tuned[2],
                       CopyFsync(req.policy, req.fsync))

\* `size` is the size of the source, or the argument in MiB.
Requests ==
    {r \in [fn : {"copy", "write", "write_many"}, mode : Modes, qd : QDs,
            block : Blocks, size : Sizes \cup MBs, nfiles : FileCounts \cup {1},
            fsync : BOOLEAN, dsync : BOOLEAN, policy : Policies, cb : BOOLEAN,
            progress : BOOLEAN] :
        /\ r.size \in IF r.fn = "copy" THEN Sizes ELSE MBs
        /\ r.nfiles \in IF r.fn = "write_many" THEN FileCounts ELSE {1}
        /\ r.fn # "write" => ~r.dsync
        /\ r.fn = "write_many" => ~r.cb /\ ~r.progress}

CallInit ==
    /\ pc = "called"
    /\ req \in Requests
    /\ args = CopyPath(0, 0)
    /\ max_buffer = 0 /\ total = 0
    /\ touched = FALSE /\ handed = 0 /\ retired = 0 /\ written = 0
    /\ cut = FALSE /\ undurable = FALSE /\ stopped = FALSE /\ escaped = FALSE
    /\ synced = 0
    /\ result = "none"

Ends(how) == pc' = "done" /\ result' = how

\* ValueError, before any file is touched.
Rejected ==
    /\ pc = "called"
    /\ \/ ~ModeValid(req.mode)
       \/ req.policy \notin IF req.fn = "write" THEN WritePolicies ELSE CopyPolicies
    /\ Ends("ValueError")
    /\ UNCHANGED <<req, args, max_buffer, total, touched, moving, synced>>

Dispatch ==
    /\ pc = "called"
    /\ ModeValid(req.mode)
    /\ req.policy \in IF req.fn = "write" THEN WritePolicies ELSE CopyPolicies
    /\ args' = CASE req.fn = "copy" -> Copy
                 [] req.fn = "write" -> Write
                 [] req.fn = "write_many" -> WriteMany
    /\ pc' = "native"
    /\ UNCHANGED <<req, max_buffer, total, touched, moving, synced, result>>

-----------------------------------------------------------------------------
(* The C function, with the Python wrappers it calls back *)

\* Zero, or an integer that ctypes wrapped to zero.
ArgsValid ==
    /\ args.qd > 0 /\ args.block > 0 /\ args.nfiles > 0
    /\ args.fn # "copy" => args.mb > 0

\* -EINVAL, before any file is opened.
InvalidArgs ==
    /\ pc = "native" /\ ~ArgsValid
    /\ Ends("EINVAL")
    /\ UNCHANGED <<req, args, max_buffer, total, touched, moving, synced>>

\* _callback_wrapper: the sizes buffer_size_cb may give the pipeline at an
\* offset.  An Exception gives the default; what escapes it (KeyboardInterrupt,
\* SystemExit) is dropped by ctypes and C reads an undefined answer.
CbSizes(offset, all) ==
    CASE args.cb = "null" -> {args.block}
      [] args.cb = "fixed" -> {args.block}
      [] args.cb = "adaptive" ->
            {AsUint(AdaptiveBufferSize(offset, all, args.block))}
      [] args.cb = "user" ->
            {AsUint(n) : n \in UserSizes} \cup {args.block} \cup (0 .. UintMod - 1)

\* The largest size the callback names at the start of some block, capped.
ProbedMax(all) ==
    LET starts == {o \in 0 .. all - 1 : o % args.block = 0}
        named == UNION {CbSizes(o, all) : o \in starts}
        capped(n) == Lesser(Greater(args.block, n), BufferCap)
        largest == CHOOSE n \in named : \A k \in named : k <= n
    IN  IF args.cb = "null" THEN {args.block}
        ELSE IF args.cb = "user" THEN {capped(n) : n \in named}
        ELSE {capped(largest)}

\* An empty source: copy returns 0 once the destination is truncated.
EmptySource ==
    /\ pc = "native" /\ ArgsValid
    /\ args.fn = "copy" /\ req.size = 0
    /\ touched' = TRUE
    /\ Ends("returned")
    /\ UNCHANGED <<req, args, max_buffer, total, moving, synced>>

\* open, io_uring_queue_init or an allocation fails.
SetupFails ==
    /\ pc = "native" /\ ArgsValid
    /\ "setup" \in Faults
    /\ touched' \in BOOLEAN
    /\ Ends("setup")
    /\ UNCHANGED <<req, args, max_buffer, total, moving, synced>>

\* write writes at least a block.
Setup ==
    /\ pc = "native" /\ ArgsValid
    /\ args.fn = "copy" => req.size > 0
    /\ total' = CASE args.fn = "copy" -> req.size
                  [] args.fn = "write" -> Greater(args.mb * MiB, args.block)
                  [] args.fn = "write_many" -> args.nfiles * (args.mb * MiB)
    /\ max_buffer' \in ProbedMax(total')
    /\ touched' = TRUE
    /\ pc' = "run"
    /\ UNCHANGED <<req, args, moving, synced, result>>

\* The lengths of the next chunk: an answer of the callback that is zero or
\* too large is replaced by block_size.
Wants ==
    {Lesser(IF n > 0 /\ n <= max_buffer THEN n ELSE args.block, total - handed) :
        n \in CbSizes(handed, total)}

\* What the kernel moves of a chunk of n bytes.
Moved(n) == IF "short" \in Faults THEN 1 .. n ELSE {n}

\* There is a chunk to hand out, and a slot for it.
More == handed < total /\ retired < args.qd

\* _progress_wrapper: what progress_cb did and the answer C reads.  A true
\* result or an Exception answers 1; what escapes the wrapper is dropped by
\* ctypes and C reads an undefined answer.
ProgressAnswers ==
    IF args.progress
    THEN {<<"go", 0>>, <<"stop", 1>>, <<"escape", 0>>, <<"escape", 1>>}
    ELSE {<<"go", 0>>}

\* A chunk is read (copy) and written, in full or in part, and its completion
\* seen: the rest of it is not sent again.
Chunk ==
    /\ pc = "run" /\ args.fn # "write_many"
    /\ More
    /\ \E n \in Wants : \E m \in Moved(n) :
         /\ handed' = handed + n
         /\ written' = written + m
         /\ cut' = (cut \/ m < n)
    /\ undurable' = (undurable \/ ~args.dsync)
    /\ \E a \in ProgressAnswers :
         /\ stopped' = (a[1] = "stop")
         /\ escaped' = (escaped \/ a[1] = "escape")
         /\ IF a[2] # 0 THEN Ends("ECANCELED") ELSE UNCHANGED <<pc, result>>
    /\ UNCHANGED <<req, args, max_buffer, total, touched, retired, synced>>

\* copy reads nothing where its source was cut while it was copied: the slot
\* is retired, and progress_cb is not called.
EndOfSource ==
    /\ pc = "run" /\ args.fn = "copy"
    /\ "short" \in Faults
    /\ More
    /\ \E n \in Wants : handed' = handed + n
    /\ retired' = retired + 1
    /\ cut' = TRUE
    /\ UNCHANGED <<pc, req, args, max_buffer, total, touched, written, undurable,
                   stopped, escaped, synced, result>>

\* write_many has no callback: its files are written in one step, at least a
\* byte of every block.
AllFiles ==
    /\ pc = "run" /\ args.fn = "write_many"
    /\ More
    /\ LET blocks == args.nfiles * ((args.mb * MiB + args.block - 1) \div args.block)
       IN  written' \in IF "short" \in Faults THEN blocks .. total ELSE {total}
    /\ handed' = total
    /\ cut' = (written' < total)
    /\ undurable' = TRUE
    /\ UNCHANGED <<pc, req, args, max_buffer, total, touched, retired, stopped,
                   escaped, synced, result>>

\* A completion carries an error, or the ring fails.
PipelineFails ==
    /\ pc = "run"
    /\ "io" \in Faults
    /\ More
    /\ Ends("EIO")
    /\ UNCHANGED <<req, args, max_buffer, total, touched, moving, synced>>

\* Nothing is in flight and there is nothing more to hand out.
Drained ==
    /\ pc = "run"
    /\ ~More
    /\ pc' = "sync"
    /\ UNCHANGED <<req, args, max_buffer, total, touched, moving, synced, result>>

\* do_fsync: the destination, or one file of write_many after the other.
Files == args.nfiles

FsyncFile ==
    /\ pc = "sync"
    /\ args.fsync /\ synced < Files
    /\ \/ synced' = synced + 1 /\ UNCHANGED <<pc, result>>
       \/ "fsync" \in Faults /\ Ends("fsync") /\ UNCHANGED synced
    /\ UNCHANGED <<req, args, max_buffer, total, touched, moving>>

Return ==
    /\ pc = "sync"
    /\ args.fsync => synced = Files
    /\ Ends("returned")
    /\ UNCHANGED <<req, args, max_buffer, total, touched, moving, synced>>

CallNext ==
    \/ Rejected \/ Dispatch \/ InvalidArgs \/ EmptySource \/ SetupFails \/ Setup
    \/ Chunk \/ EndOfSource \/ AllFiles \/ PipelineFails \/ Drained
    \/ FsyncFile \/ Return

CallSpec == CallInit /\ [][CallNext]_callVars

-----------------------------------------------------------------------------
(* Properties *)

\* What the call asks for, as USAGE.md tabulates it.
EndAsked == req.policy \in {"end", "end_and_data"} \/ (req.policy = "default" /\ req.fsync)
DataAsked == req.policy \in {"data", "end_and_data"} \/ (req.policy = "default" /\ req.dsync)

\* The bytes the call asks for.
Asked ==
    CASE req.fn = "copy" -> req.size
      [] req.fn = "write" -> Greater(req.size * MiB, args.block)
      [] req.fn = "write_many" -> req.nfiles * (req.size * MiB)

\* A size or a number of files ctypes does not pass on as it is.
Wrapped == req.fn # "copy" /\ (req.size >= UintMod \/ req.nfiles >= UintMod)

\* The calls for which the code does not honour fsync=True: a copy that goes
\* through copy_path, and a copy of an empty file.
FsyncForgotten ==
    req.fn = "copy" /\ (req.size = 0 \/ (req.mode # "auto" /\ ~Extras))

\* However a call of copy, write or write_many ends: one that returns was not
\* told to stop by progress_cb, has written all that was asked unless the
\* kernel cut a transfer short or ctypes wrapped a size, and has made the data
\* durable exactly as its arguments asked, every write when dsync was asked
\* for and every file when fsync was; one that progress_cb stopped, by its
\* answer or an Exception, raises ECANCELED and syncs nothing, and ECANCELED
\* has no other cause but an exception that escaped the wrapper; one refused
\* for its arguments has not touched the destination.
EndsAsAsked ==
    pc = "done" =>
        /\ result = "returned" =>
              /\ ~stopped
              /\ ~cut /\ ~Wrapped => written = Asked
              /\ ~FsyncForgotten => synced = (IF EndAsked THEN Files ELSE 0)
              /\ DataAsked => ~undurable
              /\ req.fn = "write" /\ ~DataAsked => undurable
        /\ stopped => result = "ECANCELED"
        /\ result = "ECANCELED" => (stopped \/ escaped) /\ synced = 0
        /\ result \in {"ValueError", "EINVAL"} => ~touched
=============================================================================

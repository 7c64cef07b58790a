# pyuring: TLA+ specifications, model checking and proofs

pyuring is a Python binding of Linux io_uring: a C library
(`csrc/uring_wrap.c`, over liburing) loaded with ctypes, a Python class per
ring (`UringCtx`), an asyncio bridge (`UringAsync`), an asynchronous file
(`AsyncFile`) and high-level pipelines that copy and write files. This
directory models the parts in which operations complete out of order and
concurrently with the code that waits for them, and the memory and the
arguments they are given.

## Inventory

| Component | State | Operations | Interacts with | What is hard | What makes it correct |
|---|---|---|---|---|---|
| Copy pipeline, `uring_copy_path_dynamic` | slots (buffer, offset, length, active), `next_off`, `inflight`, `copied`, its own ring | one call | kernel; size and progress callbacks | completions in any order, short transfers, errors and cancellation with other operations in flight | right bytes at the right offsets, one operation per slot, exact counter, returns |
| New-file writer, `uring_write_newfile_dynamic` | `next_off`, `inflight`, `pending`, `written` | one call | kernel; the same callbacks | batches of submissions and of completions, pacing by two counters | no gap, no overlap, pacing exact, honest return value |
| Many-files writer, `uring_write_manyfiles` | per-file offset and done flag, stack of free slots, 32-bit scan counter | one call | kernel | offset advanced before the SQE is obtained, slot recycling, counter wrap | all files complete, every slot in one place |
| `_easy` (copy, write, write_many) and the ctypes layer `c_api` | none | mode → queue depth and block size, sync policy, callback wrappers, conversion to `c_uint` | the pipelines | many paths to the same C functions, exceptions inside C callbacks, wrapping integers | a call that returns is complete and as durable as asked |
| Ring context, synchronous calls | the ring | about 90 wrappers of one SQE, batch reads, linked pair, timeout pair, messages between rings | kernel; the asynchronous API, through the shared ring | a call takes the oldest CQE, whoever submitted it; failures leave SQEs and CQEs behind | a call returns its own results and leaves the ring empty |
| Ring context, asynchronous calls | the ring, `_async_io_keepalive` (tag → buffer) | submit, wait, peek, close | kernel; user memory | submit fails half-way, tags reused, negative return values | a buffer is referenced as long as the kernel may use it, and no longer |
| Registered and provided buffers, `BufferRing` | `_buffer_keepalive` | register, unregister, provide, remove | kernel | one list shared by two uses, failures between the kernel's step and the list's | memory referenced while the kernel knows it |
| `BufferPool` | buffers, sizes, capacities | create, resize, get, get_ptr, set_size, close | raw pointers in flight | resize frees memory in use | size ≤ capacity, no dangling pointer |
| `UringAsync` | deque of futures, reader registration, closed flag | `wait_completion`, `_on_readable`, `close` | event loop, tasks, `UringCtx` | cancellation between loop steps, closing in any order, CQEs taken by others | no wait forgotten, order kept, loop never blocked |
| Helpers on `UringAsync` | none of their own | `sendfile_splice`, `iter_multishot_accept`, `wait_completion_in_executor` | `UringAsync`, worker threads | completions of other operations; cancelled executor waits | own completions only |
| `AsyncFile` | position, lock, private ring or file object | open, read, write, close | `UringAsync` or an executor | cancellation in the middle of an operation, closing while others queue | position and data agree |
| `UringPool`, presets, capabilities, registered files, errors, constants | little or none | construction, look-up | | partial construction | |

## Modules

* **FileCopy** – what a copy promises: bytes of the source stored at their own
  offset, success only for a complete copy unless a transfer was cut short,
  foreign bytes only in a call that is bound to fail, nothing stored after the
  result.
* **CopyPipeline** – `uring_copy_path_dynamic`. Variables have the names of the
  C locals. `sq`, `kernel`, `cq` are the SQEs prepared, the operations the
  kernel has and the CQEs not yet reaped. One action per branch of the code:
  `Setup`, `SetupFails`, `Prime` (one turn of the priming loop),
  `SubmitPrimed`, and for a reaped CQE `CqeRejected`, `ReadEof`, `ReadDone`,
  `WriteDone`, `WriteCancelled`; then `Finish` (ftruncate, fsync),
  `FreeSlots`, `QueueExit`. Source byte x is the number x, so `dst[x] = x`
  says that the right byte is in the right place. After `FreeSlots` a write
  still in flight stores the source bytes or whatever the heap holds by then
  (`Contents`). The history variable `cut` records that the system moved less
  than it was asked to.
* **WriteNewfile** – `uring_write_newfile_dynamic`: `Queue`, `SubmitPending`,
  `Peek` (submit_and_wait, peek_batch), `Reap`, `ReapError`, `ReapCancelled`,
  `BatchDone`, `Finish`, `Exit`. The content is a constant pattern in the code;
  the model keeps the set of offsets stored.
* **WriteManyFiles** – `uring_write_manyfiles`: `Enqueue` is one turn of the
  enqueueing loop (scan, offset, slot, SQE), `StopEnqueue` its end. The
  history variable `lost` has the bytes that short writes cut off.
* **Orchestrate** – one call of `copy`, `write` or `write_many` from its
  arguments to its result: `Rejected` (validation), `Dispatch` (presets, sync
  policy, plain or dynamic entry point), the C function reduced to its effect
  (`Setup`, `Chunk`, `EndOfSource`, `AllFiles`, `Drained`, `FsyncFile`, ...),
  `Return`. Every chunk is handed to the kernel once and moved in full or in
  part (`cut`). Every integer passes through `c_uint` (`AsUint`). Both callback
  wrappers are there: an answer of the program, an Exception in it, which the
  wrapper catches, and another exception, which escapes it (`escaped`): ctypes
  drops it and C reads an undefined answer.
* **UringCtx** – one ring. A synchronous call is two steps, preparing and
  submitting (`SyncCall`, `BatchCall`, `LinkCall`, `PairCall`) and taking CQEs
  (`SyncTake`, ...), with the thread blocked in `call` between them. All
  methods of one SQE share their control, so they are one action; each is in a
  set of the module by name, and `MethodKind` says what its operation is to the
  ring: one the kernel finishes by itself, one that waits for an event or a
  peer (accept, receive, poll, ...), one that acts on another operation
  (cancel, remove, update; `CompleteTarget` ends both), or one whose request
  posts several CQEs. `slots` is what the entries of the ring hold: `get_sqe`
  gives out an entry as an older operation left it, and `link_read_write`,
  which takes two before it prepares either, leaves such an entry in the ring
  when there is room for one only (`LeaveStale`). An operation has a name of
  its own (`id`) and the name of the SQE it runs (`sqe`), which differ for a
  stale entry. `Refused` is an argument check that raises before anything is
  prepared, `MessageArrives` the CQE of another ring's msg_ring. `pins` is
  `_async_io_keepalive`; `last` is how the latest call returned and whose
  completions it took. History variables: `raised`, the operations whose call
  raised after preparing them, and `mess`, what the program or the system has
  done that some property does not withstand: `"mixed"` (synchronous calls with
  others outstanding), `"left"` (a call gave up half-way), `"dup"` (a tag reused
  in flight, by the program or because it is one the library uses itself),
  `"stale"` (an SQE nobody prepared is in the ring).
* **RingMemory** – memory the kernel knows by address: the buffers of
  `register_buffers` and `provide_buffers`, also through `BufferRing`, and
  `_buffer_keepalive`, with the SQEs that a failed submit leaves in the ring and
  a later call sends (`queued`); and one slot of a `BufferPool` with operations in
  flight on its `get_ptr`. A behaviour uses one of the two parts, chosen in
  `Init`, as they share nothing but the closing of the ring.
* **Deliveries** – what UringAsync promises: completions leave the ring in the
  order they arrived and go to waits in the order those began, one each and
  past no task that waits; a wait ends once, and one that ended without a
  completion may swallow at most one.
* **UringAsync** – the asyncio bridge and the part of asyncio it relies on: the
  ready queue in order, futures, task cancellation in two steps (the future
  first, the coroutine's `except` clause when the task runs), readiness of the
  ring fd. `upset` records what others did to it (closed the context, took a
  CQE, made a peek fail).
* **AioHelpers** – the three helpers and one more task on a shared ring.
  UringAsync is reduced to its queue of waits; a worker thread of the executor
  looks at the head of the completion queue and moves it on in two steps
  (`WorkerSees`, `WorkerTakes`).
* **AsyncFile** – `Aenter`, `AenterThread`, `AenterRaises` open the file with a
  ring or, when there is none, with an executor. `StartCall` is a call up to
  the lock, `Acquire` and its variants what it does once it holds the lock up
  to its first await, `ResumeDone`, `ResumeError`, `ResumeCancelled` what it
  does with the completion (a long read submits its next slice). Only the
  holder of the lock waits, so UringAsync is reduced to one future and
  `OnReadable`, the executor to `RunJob` and `JobResult`.

* **CopyPipelineProofs**, **WriteNewfileProofs**, **WriteManyFilesProofs**,
  **RingMemoryProofs**, **UringCtxProofs**, **UringAsyncProofs**,
  **AsyncFileProofs** – theorems about the module in their name;
  **EntryPointProofs** – theorems about Orchestrate and AioHelpers.

The kernel, liburing, asyncio and the executor are not part of the repository;
they are modelled from how the code uses them and marked external in the map:
an operation completes once (a multishot request several times), in any order,
with its result or an error; `get_sqe` fails when the submission queue is full;
a failed submit leaves the SQEs where they are. io_uring rounds the number of
entries up to a power of two; the models use the number asked for, the least
room the code can count on.

## Runs

| Run | Bounds | Shows |
|---|---|---|
| copy | file ≤ 5 bytes, 3 slots, blocks of 2, callback answers 0, 1, 9, cap 3, every fault | CopyPipeline implements FileCopy; one operation per slot, exact `inflight`, dead error exits, faithful bytes, reads fit, termination; no deadlock |
| newfile | 1, 5 or 6 bytes, 3 entries, blocks of 2, batches of 2, every fault | exact pacing, coverage within the buffers, honest result, termination; no deadlock |
| manyfiles | 3 files of 3 bytes, blocks of 2, 3 slots, every fault | slots partitioned, no block lost, nothing missing but what the kernel cut off, termination; no deadlock |
| easy | every combination of function, mode, queue depth 0, 1, 3, block size 1, 2, 16, policy and callbacks; sources of 0 or 8 bytes; 0, 4, 16 or 17 "MiB" of 2 bytes; 2, 16 or 18 files; `c_uint` of 4 bits; every fault | what `copy`, `write`, `write_many` return against what they were asked (`EndsAsAsked`) |
| ctx | 2 entries, 1 tag, 3 SQEs, 1 unread shot, one method of each kind and all other calls, all faults | buffers pinned while outstanding and no longer, own results, ring empty between calls, each SQE run once as it was prepared, blocked calls return |
| memory | 2 memories of up to 2 buffers; a pool slot of sizes 0–3, 3 blocks, 2 operations | registered and provided memory stays alive through failing calls; pool data survives resizing and no operation reaches outside a block |
| async | 3 waits; cancellation, closing of both objects, stolen CQEs, failing waits and peeks | UringAsync implements Deliveries; reader exactly while waiting, loop never blocked, no wait forgotten, order of delivery, loss bounded by cancellations, no stall, waits end |
| helpers | file of 3 bytes, count None, 0 or 3, chunk 2 or 4 with lengths of 2 bits, 2 connections, 1 other operation | transfers count their own completions, the generator yields its own connections, lost completions are accounted for, transfers end |
| asyncfile | 2 tasks, 3 calls, 4 modes, file of 3 bytes, slices of 2, ring or executor | transfers follow one another exactly, nothing uses a closed ring, written bytes stay, every call ends; short transfers, errors, cancellation, close |

The bounds let every interesting case happen: more blocks than slots (slots are
reused), a last block cut by the end of the file, callback answers that are
zero, usable, unusable, above the cap and (easy) above the range of `c_uint`, a
full ring, batches smaller than the completion queue, two waits behind a
cancelled one, a worker left behind that meets the next wait, a second
registration over an earlier one. `Faults`, `Calls` and `Env` name what a run
allows the environment to do; the safety runs allow everything. The methods of a
kind in UringCtx differ in nothing the model has, so one of each is enough.

Three runs end in a violation, each a disagreement of the code with its own
documentation (quoted in PROJECT.json, `findings`):

* copy_short_write – a short write is not retried, yet the copy succeeds.
* ctx_stale – after `link_read_write` found room for one of its two SQEs, the
  next submit runs an older `read_async` a second time, although the context
  let go of its buffer when it handed out the completion.
* async_stale – the completion of a cancelled wait is not discarded but handed
  to the next wait.

### Limits of what the passing runs show

Each property names in its hypothesis the use it holds for. Outside it:

* `DstFaithful` and `CopyRefines` allow foreign bytes in a call that returns an
  error: it frees the buffers of the writes still in flight before
  `io_uring_queue_exit` ends them. A read in flight there lands in freed
  memory; what that does to the rest of the process is not modelled.
* `InFlightPinned` exempts an operation whose call raised (after a failed
  submit the SQE stays in the ring and is sent later, unpinned; a tag with the
  top bit set is taken for an errno, and the run keeps its tag below
  `SignBit`), exempts an operation that runs a stale SQE (`o.sqe # o.id`, see
  ctx_stale), and claims nothing once a tag was reused in flight: the
  ValueError comes after the submit. `EachOnce` says that nothing but
  `link_read_write` without room makes an SQE run twice.
* `SyncOwn` and `QuietBetweenCalls` claim nothing after `"mixed"` or `"left"`.
  A synchronous call with other operations outstanding may return their
  results. A batch read that returns at its first failed block, a linked pair
  whose read failed, and a zero-copy send leave CQEs that the next call takes
  for its own. `NoLeakedPin` exempts `"mixed"`: a synchronous call that takes
  the CQE of an asynchronous operation never releases its pin.
* `InFlightPinned` and `KernelMemoryAlive` are about the open context. `close`
  drops the pins before `uring_destroy` ends the operations; the models have
  both steps.
* `KernelMemoryAlive` exempts `unpinned` memory: `register_buffers` and
  `unregister_buffers` replace the list `provide_buffers` appends to, so
  provided memory then lives only as long as the program holds it.
* `PoolSafe` is for programs that keep the lifetime rules of `USAGE.md` (no
  resize or close with an operation on the slot in flight); `careless` records
  the others.
* `ReadsFit` and `NoGapNoOverlap` need `BlockSize <= BufferCap`: above 64 MiB,
  with a size callback, the fall-back to `block_size` exceeds the buffers.
* `AllWritten` says that a successful `write_many` misses exactly the bytes the
  kernel cut off. A short write is not made good, so `FilesComplete` (every
  file has `mb_per_file` MiB, `USAGE.md`) is violated as soon as `Faults`
  contains `"short"`: the same disagreement as copy_short_write.
* `AllWritten` needs a scan counter that does not wrap while the blocks are
  handed out, or a number of files that divides `RrMod`; the run has no wrap.
  With `RrMod = 5`, 3 files of 3 blocks and one slot, TLC finds a scan that
  misses the last unfinished file, and the call succeeds.
* WriteNewfile raises the size to one block, so `total_bytes` and not the size
  requested is what `ReturnTellsAll` speaks of.
* `EndsAsAsked` exempts `FsyncForgotten`: a copy through `copy_path`, and the
  copy of an empty source, never fsync. So `copy(mode="safe", fsync=True)`
  returns without an fsync, although `USAGE.md` says that the default policy
  uses the `fsync` parameter. Of the bytes it claims nothing if the
  kernel cut a transfer short, which no pipeline makes good, or ctypes wrapped
  the number of MiB or of files (`Wrapped`). A call whose progress callback
  raised a KeyboardInterrupt may succeed, as the wrapper catches Exception only
  and ctypes drops the rest.
* AsyncFile counts the bytes in the buffer of the executor's file object as
  stored when its job ends; a flush that fails at close is not seen.
* `WriteStays`, and on the thread path or in the append modes `StreamExact`,
  are stated for files none of whose calls was cancelled: the write of a
  cancelled call is still under way, the next one starts at the same position,
  and the former may land on top of it after the latter was reported as
  written.
* A future that is cancelled but not yet removed from the deque swallows a
  completion even when live waits are queued behind it; hence `LossBounded` and
  the condition in `WaitEnds`. `NoStall` and `WaitEnds` claim nothing once the
  context was closed, a CQE taken by others, or a peek raised in the callback.
* `SendExact`, `AcceptFds` and `LossExplained` end where the worker of a
  cancelled executor wait and the loop's thread race for the head of the
  completion queue (`raced`): what that does is undefined. Two transfers, or
  two generators, with the same default tag are not modelled: nothing tells
  their completions apart.

### Fairness

`FairSpec` assumes weak fairness of the thread that runs the code (it is not
stopped between two of its steps), of the event loop, of the executor's
threads running the jobs of AsyncFile, and of the kernel completing what was
submitted to it. The pipelines and AsyncFile submit reads and writes of files,
which complete; in UringCtx the operations that wait for an event or a peer,
multishot requests among them, get no fairness (`Due`), in AioHelpers nobody need ever connect, and for UringAsync the
assumption is that the peer or the device answers. A wait that fails gets no
fairness, so no liveness property holds merely because an error rescues a
blocked call. Nothing is assumed of callers, cancellation, closing or failures.
Runs with `CHECK_DEADLOCK FALSE` are those whose system may rightly stop: the
ring is closed, the bound on operations is used up, a call has returned, or a
thread waits with nothing outstanding.

## Proofs

Every theorem holds for all values of the constants that satisfy the module's
named assumption (`CopyAssumption`, `NewfileAssumption`, ...), which only says
what kind of value each constant is; stronger hypotheses are stated in the
theorem. TLC evaluates the assumptions on the runs and has checked each
inductive invariant on the constants of its run before it was proved.

| Module | Theorems | Property |
|---|---|---|
| CopyPipelineProofs | CopyInvariant; CopyTypeOK, CopyDstFaithful, CopyNoInternalError, CopyOneOpPerSlot, CopyInflightExact, CopyReadsFit | `TypeOK`, `DstFaithful`, `NoInternalError`, `OneOpPerSlot`, `InflightExact`, `ReadsFit` |
| | CopyRefinesFileCopy | `CopyRefines`: CopyPipeline implements FileCopy |
| WriteNewfileProofs | NewfileInvariant; NewfilePacing, NewfileReturn, NewfileNoGap | `PacingExact`, `ReturnTellsAll`, `NoGapNoOverlap` |
| WriteManyFilesProofs | ManyInvariant; ManySlotsPartitioned, ManyNoBlockLost, ManyAllWritten, ManyFilesComplete | `SlotsPartitioned`, `NoBlockLost`, `AllWritten`, `FilesComplete` |
| EntryPointProofs | CallEndsAsAsked | `EndsAsAsked` |
| | HelpersInvariant; HelpersSendExact, HelpersAcceptFds, HelpersLossExplained | `SendExact`, `AcceptFds`, `LossExplained` |
| RingMemoryProofs | MemoryAlive, PoolSafety | `KernelMemoryAlive`, `PoolSafe` |
| UringCtxProofs | CtxInvariant; CtxEachOnce, CtxInFlightPinned, CtxNoLeakedPin, CtxSyncOwn, CtxQuiet | `EachOnce`, `InFlightPinned`, `NoLeakedPin`, `SyncOwn`, `QuietBetweenCalls` |
| UringAsyncProofs | AsyncInvariant; AsyncReader, AsyncLoopNeverBlocks, AsyncPendingQueued, AsyncInOrder, AsyncLossBounded | `ReaderIffWaiters`, `LoopNeverBlocks`, `PendingQueued`, `LossBounded`; `InOrder`, which the run checks as part of `AsyncRefines` |
| | AsyncRefinesDeliveries | `AsyncRefines`: UringAsync implements Deliveries |
| AsyncFileProofs | FileInvariant; FileNoUseAfterClose, FileStreamExact, FileWriteStays | `NoUseAfterClose`, `StreamExact`, `WriteStays` |

Two kinds of hypothesis come from the code. `CopyReadsFit` and `NewfileNoGap`
assume `BlockSize <= BufferCap`: above 64 MiB the fall-back to `block_size`
exceeds the buffers. `ManyAllWritten` assumes `WholeScan`: the scan counter
does not wrap while the blocks are handed out (`NFiles * Blocks <= RrMod`, which
with 32 bits is every call of up to 2^32 blocks) or wraps at a multiple of the
number of files. TLC finds a counterexample without either. `ManyFilesComplete`
assumes besides a kernel without short writes; with short writes it fails.

### The arguments

**CopyPipeline.** `IndInv` adds to the properties: offsets stay within the file
(`InFile`); an operation or completion carries the offset of its slot and no
more bytes than the slot's length, and while a slot is being written its buffer
holds the source bytes of that range, until the buffers are freed (`OpsMatch`,
`CqesMatch`); a call that succeeds frees them with nothing in flight; no two
outstanding items share a slot, and each has an active one (`SlotsApart`,
`SlotsActive`); what may be outstanding in which phase, and how many SQEs the
ring can hold, which is why `get_sqe` never fails (`Phases`). `CountInv` makes
`inflight` the cardinality of what is outstanding. The refinement needs
`RefInv` besides: slots in use have ranges of their own below `next_off`,
`copied` counts the bytes stored and in no slot's range any more, and while
nothing was cut short every byte below `next_off` is stored or in the range of
a slot, all of which are busy until the file is read; so a call that is bound
to succeed has the whole source in the destination. Each action is then a step
of FileCopy or leaves its state alone.

**WriteNewfile.** Until the call gives up, the ranges stored, lost to short
writes and outstanding tile `0 .. next_off - 1`; `written` counts the bytes
stored by completions already reaped, `pending` and `inflight` the SQEs and
operations. `ReturnTellsAll` is then an argument on cardinalities: as many
bytes as the file has can only be all of them.

**WriteManyFiles.** A byte is a pair of a file and an offset; `Handed`, `Done`
and `Counted` are the bytes handed out, stored, and stored by reaped
completions, `Lost` those cut off. Each write is in one place, each slot on the
stack or with one write, each byte handed out with one write, stored or lost.
For `AllWritten` the scan must visit every file: consecutive counters have all
remainders, which is where `WholeScan` is used. That the counter does not wrap
needs its exact value: the scan goes round the files in turn, so the files are
within one block of each other and the counter is the number of blocks handed
out (`Level`); the bound on it is then the number of blocks there are, and no
file ends before the last round. `EndInv` says that a fill that ends with
nothing in flight has handed out every file. The field `of` of a CQE is history:
the write it ends.

**Orchestrate.** `CallInv` relates, for each stage of the call, the arguments of
the C function to the request, as far as `c_uint` holds them (`ArgsMatch`), the
bytes handed out to those moved (`Advance`: equal while nothing was cut, and no
slot is retired before), and what was synced and asked to what the stage may
have done (`Progress`). A call that leaves the loop has handed out everything
or lost all its slots to the end of the source, which is a cut.

**RingMemory.** `RingInv` adds the types of the provided memory and that what is
still in the ring is pinned (`QueuedPinned`).
`PoolInv` says where the pointers of operations in flight may reach
(`PtrsWithin`), that the slot lies within its block and that blocks in flight
are alive.

**UringCtx.** The actions have eight effects on the ring (`Accepted`, `Kept`,
`Flushed`, `Taken`, `Messaged`, `Posted`, `PostedTwo`, `Destroyed`): they hand
over, keep, flush, take, receive or post SQEs and CQEs, or destroy the ring.
Each part of `CtxInv` is shown to survive the effects, and each action to have
one of them; the stale SQE of `link_read_write` is one more that is kept.
`RingInv` is that operations have names in order and each
is in one place, and that entries of the ring name older ones (`SlotsOK`); `PinInv` that what sits in the submission queue between calls
belongs to calls that raised, that outstanding operations have different tags
unless `"dup"` is recorded, and that a pin has its operation's buffer;
`SyncInv` that a synchronous call alone on the ring has exactly the
completions it still needs. The proof failed at first where a caller's tag
equals one the library uses for its own SQEs (batch index, linked pair): such a
call now records `"dup"` in `mess`, as the code cannot tell the two apart
either.

**UringAsync.** The deque holds waits in rising order, none with a result
(`Rising`, `Queued`); every pending future is in it and awaited (`Futures`);
the CQEs in the ring are the last that arrived (`ArrivalInv`); completions
handed out were taken before, rise with the waits, and went to waits older than
all in the deque (`ServedInv`); the callback is in the ready queue at most once
(`ReaderOnce`). `InOrder` and `PendingQueued` follow, `ReaderIffWaiters` and
`LoopNeverBlocks` are inductive with it. For `LossBounded`, `LossInv` counts:
while the object alone uses an open context, at most as many CQEs were taken as
there are waits served or cancelled out of the deque (`Accounted`), because
`_on_readable` takes one CQE per future it removes. The refinement needs no more
than that invariant: a callback that takes n CQEs serves the first n of the
deque, which are the next in line because the deque rises and holds every
pending wait; the wait at place i gets the i-th completion, as i is the number
of those up to it. Ended waits are `gone` once they are out of the deque.
Whoever else takes CQEs or closes the context is an `Intrude` step.

**AsyncFile.** `QueueInv` and `HolderInv` tie the lock to the calls: a queued
task waits for the lock only, the holder awaits the one future, and it closes
the file only on the executor's path, so that a closed ring has no holder.
`TagInv` and `Placed` say that what carries the last tag is at the position,
also when older operations of cancelled calls are still about; that gives
`StreamExact` with a ring. Until a call is cancelled, `Alone` says that the
holder's operation is the only one and in one of three places: in the kernel
(`InKernel`), completed (`InCq`) or in the future (`InFuture`). Before it
completes, position and end of the log agree (`Settled`); after it, its bytes
are in the file and the position is where the log entry will end, or will be
once moved (`Landed`). `Behind` keeps accepted transfers before the position,
so that a later write never touches them, which is `WriteStays`.

**AioHelpers.** `SendInv` follows the splice of `sendfile_splice`. While the
transfer runs, no splice is in the kernel and no completion of one in the ring,
the ranges moved tile the file up to `total` and `total` is within `count`.
While it awaits, there is at most one splice, at the offset and no longer than
what is still wanted, or one completion of it, which says how far the ranges
reach beyond `total` (`Landed`); or neither, when somebody else was given it.
The invariant as first written was not inductive: a failed splice has a
negative result, so `total` plus the result says nothing of `total`, and
`Landed` bounds both. `ConnsRise` orders connections across the ring and the
fds yielded. `LossCounted` adds to the loss the workers of cancelled waits, each
of which will take one completion more; `HeadSeen` says that a worker that finds
the head where it left it finds a CQE there.

Each proof module has one lemma or step per action, and the temporal theorems
follow with PTL.

### Only model-checked

* All liveness properties (termination of the pipelines, `NoStall`, `WaitEnds`
  and the others): the prover treats neither fairness nor ENABLED. Every
  invariant and both refinements are proved.

## Not modelled

* Data moved by operations other than the copy, the pool's and AsyncFile's; the
  arguments of the individual wrappers.
* SQPOLL and DEFER_TASKRUN set-up flags; partial submission (`io_uring_submit`
  accepting fewer SQEs than prepared): the code ignores the count.
* Failing submits in AsyncFile and AioHelpers
  (they raise before anything is awaited; UringCtx has them); entering an
  AsyncFile again after it was closed.
* Registered files: a table of the kernel of which the library keeps nothing.
* `UringPool`: a list of independent rings built in one expression; if the
  construction of a later ring fails the earlier ones are dropped unclosed.
* Capability probing, ring presets, errors, constants, structures, library
  look-up: declarations and look-ups without state. Scripts, examples, the
  build and the benchmark program are not part of the library.

## Plan

Not done: an abstract specification of AsyncFile, a sequential file read and
written at one position, with the refinement proved from `FileInvariant`; and
partial submission in UringCtx, once the code looks at the count.

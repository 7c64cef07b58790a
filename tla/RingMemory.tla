----------------------------- MODULE RingMemory -----------------------------
(***************************************************************************)
(* Memory that the kernel knows by address, and who keeps it alive: the    *)
(* buffers of UringCtx.register_buffers and provide_buffers (also through  *)
(* BufferRing), which the context pins in _buffer_keepalive, and the       *)
(* blocks of a BufferPool, which in-flight operations reach through the    *)
(* pointers of get_ptr.                                                    *)
(*                                                                         *)
(* A memory m is a Python buffer the program allocated; it exists while    *)
(* the program holds it or the context pins it.  A block is native memory  *)
(* of the pool.  Block bytes are the number of the operation that wrote    *)
(* them, 0 for bytes nobody wrote.                                         *)
(***************************************************************************)
EXTENDS Integers, Sequences, FiniteSets

CONSTANTS
    Mems,        \* the program's buffers
    NBuffers,    \* bound: buffers provided from one memory
    InitialSize, \* initial_size of the pool
    Sizes,       \* sizes asked of resize and set_size
    MaxBlocks,   \* bound: blocks allocated in one behaviour
    MaxOps,      \* bound: pointer operations in one behaviour
    Parts,       \* bound: the one part a behaviour uses, "ring" or "pool";
                 \* they meet only in the closing of the ring
    Faults       \* subset of {"submit", "kernel", "wait", "enomem"}

ASSUME MemoryAssumption ==
    /\ {NBuffers, InitialSize, MaxBlocks, MaxOps} \subseteq Nat
    /\ Sizes \subseteq Nat
    /\ Parts \subseteq {"ring", "pool"}
    /\ Faults \subseteq {"submit", "kernel", "wait", "enomem"}

NoBlock == 0

VARIABLES
    part,          \* the part this behaviour uses
    ring,          \* "open", "closing" or "closed"
    keep,          \* _buffer_keepalive
    held,          \* memories the program (or a BufferRing of it) refers to
    fresh,         \* memories not allocated yet
    registered,    \* the kernel's table of fixed buffers
    provided,      \* memory |-> buffers of it the kernel may still pick
    queued,        \* memories whose SQE a failed submit left in the ring
    unpinned,      \* history: provided memories (un)register_buffers let go of
    pool,          \* "none", "open" or "closed"
    slot,          \* the pool's slot: [block, size, cap]
    data,          \* live block |-> its bytes
    blocks,        \* number of blocks allocated so far
    ptrs,          \* (pointer, size) pairs the program has from get_ptr
    flight,        \* pointer operations in the kernel
    ops,           \* number of them started so far
    kept,          \* history: [op, len], what get() must still return
    careless       \* history: the program broke the pool's documented rules

ringVars == <<part, ring, keep, held, fresh, registered, provided, queued,
              unpinned>>
poolVars == <<pool, slot, data, blocks, ptrs, kept>>
vars == <<ringVars, poolVars, flight, ops, careless>>

Init ==
    /\ part \in Parts
    /\ ring = "open"
    /\ keep = {} /\ held = {} /\ fresh = Mems
    /\ registered = {} /\ provided = [m \in Mems |-> 0]
    /\ queued = {} /\ unpinned = {}
    /\ pool = "none" /\ slot = [block |-> NoBlock, size |-> 0, cap |-> 0]
    /\ data = <<>> /\ blocks = 0 /\ ptrs = {}
    /\ flight = {} /\ ops = 0
    /\ kept = [op |-> 0, len |-> 0] /\ careless = FALSE

Lesser(a, b) == IF a < b THEN a ELSE b

Provided == {m \in Mems : provided[m] > 0}

-----------------------------------------------------------------------------
(* Registered and provided buffers *)

\* The keep-alive list becomes `new`.
Repin(new) ==
    /\ keep' = new
    /\ unpinned' = unpinned \cup ((Provided \cup queued) \ new)

\* Faulty variant: the list is replaced before the kernel's answer is known.
RegisterBuffers_Early(ms) ==
    /\ ring = "open"
    /\ ms # {} /\ ms \subseteq held \cup fresh
    /\ held' = held \cup ms /\ fresh' = fresh \ ms
    /\ Repin(ms)
    /\ \/ registered = {} /\ registered' = ms
       \/ registered # {} /\ UNCHANGED registered
    /\ UNCHANGED <<part, ring, provided, queued, poolVars, flight, ops, careless>>

\* register_buffers: only after the kernel has accepted them do the new
\* buffers replace the list, whatever was in it.  A second table is refused.
RegisterBuffers(ms) ==
    /\ ring = "open"
    /\ ms # {} /\ ms \subseteq held \cup fresh
    /\ held' = held \cup ms /\ fresh' = fresh \ ms
    /\ \/ registered = {} /\ registered' = ms /\ Repin(ms)
       \/ /\ registered # {} \/ "kernel" \in Faults
          /\ UNCHANGED <<registered, keep, unpinned>>
    /\ UNCHANGED <<part, ring, provided, queued, poolVars, flight, ops, careless>>

\* unregister_buffers clears the whole list.
UnregisterBuffers ==
    /\ ring = "open"
    /\ registered # {}
    /\ registered' = {}
    /\ Repin({})
    /\ UNCHANGED <<part, ring, held, fresh, provided, queued, poolVars, flight, ops,
                   careless>>

\* io_uring_submit sends what earlier calls left in the ring too.
Sent == [m \in Mems |-> IF m \in queued THEN provided[m] + NBuffers ELSE provided[m]]

\* provide_buffers of m: the kernel takes the buffers or answers with an error,
\* or the submit fails and leaves the SQE in the ring (bound: one of each m).
Provide(m) ==
    \/ provided' = [Sent EXCEPT ![m] = @ + NBuffers] /\ queued' = {}
    \/ "kernel" \in Faults /\ provided' = Sent /\ queued' = {}
    \/ /\ "submit" \in Faults /\ m \notin queued
       /\ queued' = queued \cup {m} /\ UNCHANGED provided

\* provide_buffers: the memory is pinned first, and stays so when the call
\* raises, for a failed submit or wait does not keep the kernel from taking
\* the buffers later.
ProvideBuffers(m) ==
    /\ ring = "open"
    /\ m \in held \cup fresh /\ provided[m] = 0
    /\ held' = held \cup {m} /\ fresh' = fresh \ {m}
    /\ keep' = keep \cup {m} /\ unpinned' = unpinned \ {m}
    /\ Provide(m)
    /\ UNCHANGED <<part, ring, registered, poolVars, flight, ops, careless>>

\* BufferRing(): a slab of its own is provided.  If the call raises there is
\* no object, and nobody but the context refers to the slab.
NewBufferRing(m) ==
    /\ ring = "open"
    /\ m \in fresh /\ fresh' = fresh \ {m}
    /\ keep' = keep \cup {m} /\ unpinned' = unpinned \ {m}
    /\ Provide(m)
    /\ \/ provided'[m] > 0 /\ held' = held \cup {m}
       \/ (provided'[m] = 0 \/ "wait" \in Faults) /\ UNCHANGED held
    /\ UNCHANGED <<part, ring, registered, poolVars, flight, ops, careless>>

\* remove_buffers, BufferRing.remove and .close (which swallows an error):
\* the kernel gives up at most n buffers; the memory stays pinned.
RemoveBuffers(m, n) ==
    /\ ring = "open"
    /\ provided[m] > 0
    /\ provided' = [Sent EXCEPT ![m] = @ - Lesser(@, n)]
    /\ queued' = {}
    /\ UNCHANGED <<part, ring, keep, held, fresh, registered, unpinned, poolVars,
                   flight, ops, careless>>

\* Any other call on the ring submits what is in it.
SubmitQueued ==
    /\ ring = "open"
    /\ queued # {}
    /\ provided' = Sent /\ queued' = {}
    /\ UNCHANGED <<part, ring, keep, held, fresh, registered, unpinned, poolVars,
                   flight, ops, careless>>

\* The kernel (external) picks a provided buffer for a receive and fills it.
KernelPicks(m) ==
    /\ ring # "closed"
    /\ provided[m] > 0
    /\ provided' = [provided EXCEPT ![m] = @ - 1]
    /\ UNCHANGED <<part, ring, keep, held, fresh, registered, queued, unpinned,
                   poolVars, flight, ops, careless>>

\* The program lets go of a buffer, or of the BufferRing that owns it.
Drop(m) ==
    /\ m \in held
    /\ held' = held \ {m}
    /\ UNCHANGED <<part, ring, keep, fresh, registered, provided, queued, unpinned,
                   poolVars, flight, ops, careless>>

\* UringCtx.close lets go of every buffer ...
Close ==
    /\ ring = "open"
    /\ ring' = "closing"
    /\ keep' = {}
    /\ UNCHANGED <<part, held, fresh, registered, provided, queued, unpinned, poolVars,
                   flight, ops, careless>>

\* ... before uring_destroy ends what the kernel does with them.
Destroy ==
    /\ ring = "closing"
    /\ ring' = "closed"
    /\ registered' = {} /\ provided' = [m \in Mems |-> 0] /\ queued' = {}
    /\ flight' = {}
    /\ UNCHANGED <<part, keep, held, fresh, unpinned, poolVars, ops, careless>>

-----------------------------------------------------------------------------
(* The buffer pool; slots are independent, so one is enough *)

Zeros(n) == [i \in 1 .. n |-> 0]

\* The blocks' bytes when b is given these, and when b is freed.
With(b, bytes) == [c \in DOMAIN data \cup {b} |-> IF c = b THEN bytes ELSE data[c]]
Without(b) == [c \in DOMAIN data \ {b} |-> data[c]]

InUse(b) == \E o \in flight : o.block = b

PoolCreate ==
    /\ pool = "none"
    /\ pool' = "open"
    /\ blocks' = 1 /\ data' = With(1, Zeros(InitialSize))
    /\ slot' = [block |-> 1, size |-> 0, cap |-> InitialSize]
    /\ UNCHANGED <<ringVars, ptrs, kept, flight, ops, careless>>

\* get_ptr: the pair stays with the program, which may use it much later.
GetPtr ==
    /\ pool = "open"
    /\ ptrs' = ptrs \cup {[block |-> slot.block, size |-> slot.size]}
    /\ UNCHANGED <<ringVars, pool, slot, data, blocks, kept, flight, ops, careless>>

\* read_async with a (pointer, size) pair.  A pointer from before a resize
\* that moved the slot, or from a closed pool, is the program's mistake.
SubmitPtr(p) ==
    /\ ring = "open"
    /\ ops < MaxOps
    /\ ops' = ops + 1
    /\ flight' = flight \cup {[op |-> ops + 1, block |-> p.block, len |-> p.size]}
    /\ careless' = (careless \/ p.block \notin DOMAIN data)
    /\ UNCHANGED <<ringVars, poolVars>>

\* The kernel (external) fills the buffer.
PtrDone(o) ==
    /\ flight' = flight \ {o}
    /\ IF o.block \in DOMAIN data
       THEN data' = With(o.block, [i \in DOMAIN data[o.block] |->
                                     IF i <= o.len THEN o.op ELSE data[o.block][i]])
       ELSE UNCHANGED data
    /\ kept' = IF o.block = slot.block
               THEN [op |-> o.op, len |-> Lesser(o.len, slot.size)]
               ELSE kept
    /\ UNCHANGED <<ringVars, pool, slot, blocks, ptrs, ops, careless>>

\* get() can return the first n bytes only.
Shown(n) == kept' = [kept EXCEPT !.len = Lesser(@, n)]

\* resize within the capacity changes the size only.
ResizeInPlace(n) ==
    /\ pool = "open"
    /\ n <= slot.cap
    /\ slot' = [slot EXCEPT !.size = n]
    /\ Shown(n)
    /\ UNCHANGED <<ringVars, pool, data, blocks, ptrs, flight, ops, careless>>

\* memcpy of the first `size` bytes into a new block of n.
Copied(n) == [i \in 1 .. n |-> IF i <= slot.size THEN data[slot.block][i] ELSE 0]

\* resize beyond it: a new block, the old one's bytes copied and the block
\* freed.  The program must not have operations on the old one in flight.
ResizeMove(n) ==
    /\ pool = "open"
    /\ n > slot.cap /\ blocks < MaxBlocks
    /\ blocks' = blocks + 1
    /\ data' = [c \in (DOMAIN data \ {slot.block}) \cup {blocks + 1} |->
                  IF c = blocks + 1 THEN Copied(n) ELSE data[c]]
    /\ slot' = [block |-> blocks + 1, size |-> n, cap |-> n]
    /\ careless' = (careless \/ InUse(slot.block))
    /\ UNCHANGED <<ringVars, pool, ptrs, kept, flight, ops>>

\* posix_memalign fails: the slot stays as it is.
ResizeFails(n) ==
    /\ pool = "open"
    /\ n > slot.cap /\ "enomem" \in Faults
    /\ UNCHANGED vars

\* Faulty variant: the size is not checked.
Fits_Always(n) == TRUE

\* size <= buffer_capacities[index]
Fits(n) == n <= slot.cap

\* set_size beyond the capacity is refused.
SetSize(n) ==
    /\ pool = "open"
    /\ IF Fits(n) THEN slot' = [slot EXCEPT !.size = n] /\ Shown(n)
       ELSE UNCHANGED <<slot, kept>>
    /\ UNCHANGED <<ringVars, pool, data, blocks, ptrs, flight, ops, careless>>

\* close frees the blocks; nothing may be in flight.
PoolClose ==
    /\ pool = "open"
    /\ pool' = "closed"
    /\ data' = Without(slot.block)
    /\ careless' = (careless \/ InUse(slot.block))
    /\ UNCHANGED <<ringVars, slot, blocks, ptrs, kept, flight, ops>>

-----------------------------------------------------------------------------
Ring ==
    \/ \E ms \in SUBSET Mems : RegisterBuffers(ms)
    \/ UnregisterBuffers \/ SubmitQueued
    \/ \E m \in Mems :
         \/ ProvideBuffers(m) \/ NewBufferRing(m) \/ Drop(m) \/ KernelPicks(m)
         \/ \E n \in 1 .. NBuffers : RemoveBuffers(m, n)

Pool ==
    \/ PoolCreate \/ GetPtr \/ PoolClose
    \/ \E p \in ptrs : SubmitPtr(p)
    \/ \E o \in flight : PtrDone(o)
    \/ \E n \in Sizes : ResizeInPlace(n) \/ ResizeMove(n) \/ ResizeFails(n) \/ SetSize(n)

Next ==
    \/ part = "ring" /\ Ring
    \/ part = "pool" /\ Pool
    \/ Close \/ Destroy

Spec == Init /\ [][Next]_vars

-----------------------------------------------------------------------------
(* Properties *)

\* While the ring is open the kernel only knows buffers that exist: those of
\* the fixed table are pinned by the context, whatever registrations failed;
\* those provided are too, also when it is a later call that sends what a
\* failed provide_buffers left in the ring, except
\* that register_buffers and unregister_buffers let go of them and leave
\* them to the program.
KernelMemoryAlive ==
    ring = "open" =>
        /\ registered \subseteq keep
        /\ Provided \subseteq keep \cup unpinned

\* For a program that keeps the pool's rules, an operation in flight never
\* reaches outside a live block, and get() still returns what a completed
\* operation stored, across resizes.
PoolSafe ==
    ~careless =>
        /\ \A o \in flight :
              o.block \in DOMAIN data /\ o.len <= Len(data[o.block])
        /\ pool = "open" =>
              /\ slot.size <= Len(data[slot.block])
              /\ \A i \in 1 .. kept.len : data[slot.block][i] = kept.op
=============================================================================

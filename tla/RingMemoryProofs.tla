-------------------------- MODULE RingMemoryProofs --------------------------
(***************************************************************************)
(* Proofs about RingMemory, for any buffers, sizes and number of           *)
(* operations.  The context's keep-alive list covers what the kernel may   *)
(* touch; a pool's pointers never promise more than their block holds.     *)
(***************************************************************************)
EXTENDS RingMemory, SequenceTheorems, TLAPS

ProvidedType == provided \in [Mems -> Nat]

\* What a failed submit left in the ring is pinned until it is sent.
QueuedPinned == ring = "open" => queued \subseteq keep \cup unpinned

\* The kernel's tables change only together with the list, or after it.
RingInv == ProvidedType /\ QueuedPinned /\ KernelMemoryAlive

\* Sending what is in the ring provides the memories queued and no other.
LEMMA SentOK ==
    ASSUME ProvidedType
    PROVE  /\ Sent \in [Mems -> Nat]
           /\ \A m \in Mems : Sent[m] > 0 => m \in Provided \cup queued
BY MemoryAssumption DEF Sent, ProvidedType, Provided

\* While its ring is open, register_buffers, unregister_buffers,
\* provide_buffers and BufferRing never leave the kernel with a buffer that
\* nobody pins, other than the ones (un)register_buffers lets go of.
THEOREM MemoryAlive == Spec => []KernelMemoryAlive
<1> USE MemoryAssumption
<1>1. Init => RingInv
  BY DEF Init, RingInv, ProvidedType, QueuedPinned, KernelMemoryAlive, Provided
<1>2. ASSUME RingInv, [Next]_vars PROVE RingInv'
  <2> USE <1>2 DEF RingInv
  <2>1. ASSUME NEW ms \in SUBSET Mems, RegisterBuffers(ms) PROVE RingInv'
    BY <2>1 DEF RegisterBuffers, Repin, ProvidedType, QueuedPinned, KernelMemoryAlive,
                Provided
  <2>2. CASE UnregisterBuffers
    BY <2>2 DEF UnregisterBuffers, Repin, ProvidedType, QueuedPinned, KernelMemoryAlive,
                Provided
  <2>3. ASSUME NEW m \in Mems, ProvideBuffers(m) \/ NewBufferRing(m) PROVE RingInv'
    <3>1. /\ keep' = keep \cup {m} /\ unpinned' = unpinned \ {m}
          /\ UNCHANGED <<ring, registered>> /\ Provide(m) /\ ring = "open"
      BY <2>3 DEF ProvideBuffers, NewBufferRing
    <3>2. /\ registered \subseteq keep /\ queued \subseteq keep \cup unpinned
          /\ Provided \subseteq keep \cup unpinned
      BY <3>1 DEF QueuedPinned, KernelMemoryAlive
    <3>3. /\ provided' \in [Mems -> Nat] /\ queued' \subseteq queued \cup {m}
          /\ \A x \in Mems : provided'[x] > 0 => x \in Provided \cup queued \cup {m}
      <4>1. CASE provided' = [Sent EXCEPT ![m] = @ + NBuffers] /\ queued' = {}
        BY <4>1, SentOK
      <4>2. CASE provided' = Sent /\ queued' = {}
        BY <4>2, SentOK
      <4>3. CASE queued' = queued \cup {m} /\ UNCHANGED provided
        BY <4>3 DEF ProvidedType, Provided
      <4> QED BY <3>1, <4>1, <4>2, <4>3 DEF Provide
    <3>4. Provided' \subseteq Provided \cup queued \cup {m}
      BY <3>3 DEF Provided
    <3> QED BY <3>1, <3>2, <3>3, <3>4 DEF ProvidedType, QueuedPinned, KernelMemoryAlive
  <2>4. ASSUME NEW m \in Mems, KernelPicks(m) PROVE RingInv'
    BY <2>4 DEF KernelPicks, ProvidedType, QueuedPinned, KernelMemoryAlive,
                Provided
  <2>5. ASSUME NEW m \in Mems, NEW n \in 1 .. NBuffers, RemoveBuffers(m, n)
        PROVE  RingInv'
    <3>1. /\ provided' = [Sent EXCEPT ![m] = @ - Lesser(@, n)] /\ queued' = {}
          /\ UNCHANGED <<ring, keep, registered, unpinned>>
      BY <2>5 DEF RemoveBuffers
    <3>2. /\ provided' \in [Mems -> Nat]
          /\ \A x \in Mems : provided'[x] > 0 => x \in Provided \cup queued
      BY <3>1, SentOK DEF Lesser
    <3>3. Provided' \subseteq Provided \cup queued
      BY <3>2 DEF Provided
    <3> QED BY <3>1, <3>2, <3>3 DEF ProvidedType, QueuedPinned, KernelMemoryAlive
  <2>9. CASE SubmitQueued
    <3>1. /\ provided' = Sent /\ queued' = {}
          /\ UNCHANGED <<ring, keep, registered, unpinned>>
      BY <2>9 DEF SubmitQueued
    <3>2. Provided' \subseteq Provided \cup queued /\ provided' \in [Mems -> Nat]
      BY <3>1, SentOK DEF Provided
    <3> QED BY <3>1, <3>2 DEF ProvidedType, QueuedPinned, KernelMemoryAlive
  <2>6. ASSUME NEW m \in Mems, Drop(m) PROVE RingInv'
    BY <2>6 DEF Drop, ProvidedType, QueuedPinned, KernelMemoryAlive,
                Provided
  <2>7. CASE Close \/ Destroy
    BY <2>7 DEF Close, Destroy, ProvidedType, QueuedPinned, KernelMemoryAlive,
                Provided
  <2>8. CASE Pool \/ UNCHANGED vars
    <3>1. UNCHANGED ringVars
      BY <2>8 DEF Pool, PoolCreate, GetPtr, PoolClose, SubmitPtr, PtrDone,
                  ResizeInPlace, ResizeMove, ResizeFails, SetSize, vars
    <3> QED BY <3>1 DEF ringVars, ProvidedType, QueuedPinned, KernelMemoryAlive,
                   Provided
  <2> QED BY <2>1, <2>2, <2>3, <2>4, <2>5, <2>6, <2>7, <2>8, <2>9 DEF Next, Ring
<1>3. RingInv => KernelMemoryAlive
  BY DEF RingInv
<1>4. RingInv /\ [Next]_vars => RingInv'
  BY <1>2
<1> QED BY <1>1, <1>3, <1>4, PTL DEF Spec

-----------------------------------------------------------------------------
(* The buffer pool                                                          *)

PoolTypes ==
    /\ pool \in {"none", "open", "closed"}
    /\ slot \in [block : Nat, size : Nat, cap : Nat]
    /\ blocks \in Nat /\ ops \in Nat
    /\ DOMAIN data \subseteq 1 .. blocks
    /\ \A b \in DOMAIN data : data[b] \in Seq(Nat)
    /\ ptrs \subseteq [block : Nat, size : Nat]
    /\ flight \subseteq [op : Nat, block : Nat, len : Nat]
    /\ kept \in [op : Nat, len : Nat]
    /\ careless \in BOOLEAN

\* A pointer names an allocated block, and while that block is live it promises
\* no more bytes than the block has.
PtrsWithin ==
    /\ \A p \in ptrs :
          /\ p.block <= blocks
          /\ p.block \in DOMAIN data => p.size <= Len(data[p.block])
    /\ \A o \in flight :
          /\ o.block <= blocks
          /\ o.block \in DOMAIN data => o.len <= Len(data[o.block])

\* The slot's capacity is its block's length, and what get() must return lies
\* within its size.
SlotWithin ==
    /\ pool = "none" =>
          ptrs = {} /\ flight = {} /\ kept.len = 0 /\ DOMAIN data = {} /\ blocks = 0
    /\ pool # "none" => slot.block <= blocks /\ kept.len <= slot.size
    /\ pool = "open" =>
          /\ slot.block \in DOMAIN data
          /\ slot.cap = Len(data[slot.block])
          /\ slot.size <= slot.cap
          /\ \A i \in 1 .. kept.len : data[slot.block][i] = kept.op

\* A program that keeps the rules frees no block an operation still uses.
FlightLive == ~careless => \A o \in flight : o.block \in DOMAIN data

PoolInv == PoolTypes /\ PtrsWithin /\ SlotWithin /\ FlightLive

\* A tuple of n numbers is a sequence of length n.
LEMMA TupleLen ==
    ASSUME NEW n \in Nat, NEW f \in [1 .. n -> Nat]
    PROVE  f \in Seq(Nat) /\ Len(f) = n
OBVIOUS

\* Creating the pool: one block, no pointer to it yet.
LEMMA CreateInv == ASSUME PoolInv, PoolCreate PROVE PoolInv'
<1> USE MemoryAssumption DEF PoolInv
<1>1. /\ pool = "none" /\ pool' = "open" /\ blocks' = 1
      /\ data' = With(1, Zeros(InitialSize))
      /\ slot' = [block |-> 1, size |-> 0, cap |-> InitialSize]
      /\ UNCHANGED <<ptrs, kept, flight, ops, careless>>
      /\ ptrs = {} /\ flight = {} /\ kept.len = 0 /\ DOMAIN data = {}
  BY DEF PoolCreate, SlotWithin
<1>2. /\ Zeros(InitialSize) \in [1 .. InitialSize -> Nat]
      /\ DOMAIN data' = {1} /\ data'[1] = Zeros(InitialSize)
  BY <1>1 DEF With, Zeros
<1>3. data'[1] \in Seq(Nat) /\ Len(data'[1]) = InitialSize
  BY <1>2, TupleLen
<1>4. PoolTypes'
  BY <1>1, <1>2, <1>3 DEF PoolTypes
<1>5. PtrsWithin' /\ FlightLive'
  BY <1>1 DEF PtrsWithin, FlightLive
<1>6. SlotWithin'
  BY <1>1, <1>2, <1>3 DEF SlotWithin, PoolTypes
<1> QED BY <1>4, <1>5, <1>6

\* get_ptr hands out the slot's block with its current size.
LEMMA GetPtrInv == ASSUME PoolInv, GetPtr PROVE PoolInv'
<1> USE DEF PoolInv
<1>1. /\ pool = "open"
      /\ ptrs' = ptrs \cup {[block |-> slot.block, size |-> slot.size]}
      /\ UNCHANGED <<pool, slot, data, blocks, kept, flight, ops, careless>>
  BY DEF GetPtr
<1>2. /\ slot.block \in Nat /\ slot.size \in Nat /\ slot.block <= blocks
      /\ slot.block \in DOMAIN data /\ slot.size <= Len(data[slot.block])
  BY <1>1 DEF SlotWithin, PoolTypes
<1>3. PoolTypes'
  BY <1>1, <1>2 DEF PoolTypes
<1>4. PtrsWithin'
  BY <1>1, <1>2 DEF PtrsWithin
<1>5. SlotWithin' /\ FlightLive'
  BY <1>1 DEF SlotWithin, FlightLive
<1> QED BY <1>3, <1>4, <1>5

\* An operation is started with a pair the program has: on a freed block only
\* if the program is careless.
LEMMA SubmitPtrInv ==
    ASSUME PoolInv, NEW p \in ptrs, SubmitPtr(p)
    PROVE  PoolInv'
<1> USE DEF PoolInv
<1> DEFINE o == [op |-> ops + 1, block |-> p.block, len |-> p.size]
<1>1. /\ ops' = ops + 1 /\ flight' = flight \cup {o}
      /\ careless' = (careless \/ p.block \notin DOMAIN data)
      /\ UNCHANGED <<pool, slot, data, blocks, ptrs, kept>>
  BY DEF SubmitPtr, poolVars
<1>2. p.block \in Nat /\ p.size \in Nat /\ pool # "none" /\ ops + 1 \in Nat
  BY DEF PoolTypes, SlotWithin
<1>3. /\ o \in [op : Nat, block : Nat, len : Nat]
      /\ o.block = p.block /\ o.len = p.size
  BY <1>2
<1> HIDE DEF o
<1>4. PoolTypes'
  <2>1. careless' \in BOOLEAN
    BY <1>1, Zenon
  <2> QED BY <1>1, <1>2, <1>3, <2>1 DEF PoolTypes
<1>5. PtrsWithin'
  BY <1>1, <1>3 DEF PtrsWithin
<1>6. SlotWithin'
  BY <1>1, <1>2 DEF SlotWithin
<1>7. FlightLive'
  <2>1. ~careless' => ~careless /\ p.block \in DOMAIN data
    BY <1>1, Zenon
  <2> QED BY <1>1, <1>3, <2>1 DEF FlightLive
<1> QED BY <1>4, <1>5, <1>6, <1>7

\* A completion fills a prefix of its block, which keeps its length.
LEMMA PtrDoneInv ==
    ASSUME PoolInv, NEW o \in flight, PtrDone(o)
    PROVE  PoolInv'
<1> USE DEF PoolInv
<1>1. /\ flight' = flight \ {o}
      /\ kept' = IF o.block = slot.block
                 THEN [op |-> o.op, len |-> Lesser(o.len, slot.size)] ELSE kept
      /\ UNCHANGED <<pool, slot, blocks, ptrs, ops, careless>>
      /\ pool # "none"
  BY DEF PtrDone, SlotWithin
<1>2. /\ o.op \in Nat /\ o.block \in Nat /\ o.len \in Nat
      /\ slot.block \in Nat /\ slot.size \in Nat /\ kept \in [op : Nat, len : Nat]
      /\ slot \in [block : Nat, size : Nat, cap : Nat]
  BY DEF PoolTypes
<1>3. /\ DOMAIN data' = DOMAIN data
      /\ \A b \in DOMAIN data : data'[b] \in Seq(Nat) /\ Len(data'[b]) = Len(data[b])
      /\ \A b \in DOMAIN data : b # o.block => data'[b] = data[b]
      /\ o.block \in DOMAIN data =>
            \A i \in 1 .. Len(data[o.block]) :
               data'[o.block][i] = IF i <= o.len THEN o.op ELSE data[o.block][i]
  <2>1. CASE o.block \notin DOMAIN data
    BY <2>1 DEF PtrDone, PoolTypes
  <2>2. CASE o.block \in DOMAIN data
    <3> DEFINE n == Len(data[o.block])
               f == [i \in 1 .. n |-> IF i <= o.len THEN o.op ELSE data[o.block][i]]
    <3>1. data[o.block] \in Seq(Nat) /\ n \in Nat /\ DOMAIN data[o.block] = 1 .. n
      BY <2>2 DEF PoolTypes
    <3>a. \A i \in 1 .. n : data[o.block][i] \in Nat
      BY <3>1, ElementOfSeq
    <3>2. f \in [1 .. n -> Nat]
      <4> HIDE DEF n
      <4> QED BY <1>2, <3>a
    <3>3. data' = With(o.block, f)
      BY <2>2, <3>1 DEF PtrDone
    <3>4. f \in Seq(Nat) /\ Len(f) = n
      BY <3>1, <3>2, TupleLen
    <3>5. \A i \in 1 .. n : f[i] = IF i <= o.len THEN o.op ELSE data[o.block][i]
      OBVIOUS
    <3> HIDE DEF f
    <3> QED BY <2>2, <3>3, <3>4, <3>5 DEF With, PoolTypes
  <2> QED BY <2>1, <2>2
<1>4. kept' \in [op : Nat, len : Nat] /\ (kept'.len <= slot.size)
  BY <1>1, <1>2 DEF Lesser, SlotWithin
<1>5. PoolTypes'
  BY <1>1, <1>3, <1>4 DEF PoolTypes
<1>6. PtrsWithin'
  BY <1>1, <1>3 DEF PtrsWithin
<1>7. SlotWithin'
  <2>1. ASSUME pool = "open"
        PROVE  \A i \in 1 .. kept'.len : data'[slot.block][i] = kept'.op
    <3>1. slot.block \in DOMAIN data /\ slot.size <= Len(data[slot.block])
      BY <1>2, <2>1 DEF SlotWithin, PoolTypes
    <3>2. CASE o.block = slot.block
      <4>1. /\ kept'.op = o.op /\ kept'.len <= o.len
            /\ kept'.len <= Len(data[o.block]) /\ Len(data[o.block]) \in Nat
        BY <1>1, <1>2, <3>1, <3>2 DEF Lesser, PoolTypes
      <4>2. \A i \in 1 .. kept'.len : i \in 1 .. Len(data[o.block]) /\ i <= o.len
        BY <1>2, <1>4, <4>1
      <4> QED BY <1>3, <3>1, <3>2, <4>1, <4>2
    <3>3. CASE o.block # slot.block
      BY <1>1, <1>3, <2>1, <3>1, <3>3 DEF SlotWithin
    <3> QED BY <3>2, <3>3
  <2> QED BY <1>1, <1>3, <1>4, <2>1 DEF SlotWithin
<1>8. FlightLive'
  BY <1>1, <1>3 DEF FlightLive
<1> QED BY <1>5, <1>6, <1>7, <1>8

\* resize within the capacity and set_size change the slot's size only.
LEMMA SizeInv ==
    ASSUME PoolInv, NEW n \in Sizes, ResizeInPlace(n) \/ SetSize(n)
    PROVE  PoolInv'
<1> USE MemoryAssumption DEF PoolInv
<1>1. CASE UNCHANGED <<pool, slot, data, blocks, ptrs, kept, flight, ops, careless>>
  BY <1>1 DEF PoolTypes, PtrsWithin, SlotWithin, FlightLive
<1>2. CASE /\ pool = "open" /\ n <= slot.cap
           /\ slot' = [slot EXCEPT !.size = n] /\ Shown(n)
           /\ UNCHANGED <<pool, data, blocks, ptrs, flight, ops, careless>>
  <2>1. /\ slot' \in [block : Nat, size : Nat, cap : Nat]
        /\ slot'.block = slot.block /\ slot'.size = n /\ slot'.cap = slot.cap
    BY <1>2 DEF PoolTypes
  <2>2. /\ kept' \in [op : Nat, len : Nat] /\ kept'.op = kept.op
        /\ kept'.len <= n /\ kept'.len <= kept.len
    BY <1>2 DEF Shown, Lesser, PoolTypes
  <2>3. PoolTypes'
    BY <1>2, <2>1, <2>2 DEF PoolTypes
  <2>4. PtrsWithin' /\ FlightLive'
    BY <1>2 DEF PtrsWithin, FlightLive
  <2>5. \A i \in 1 .. kept'.len : i \in 1 .. kept.len
    BY <2>2 DEF PoolTypes
  <2>6. SlotWithin'
    BY <1>2, <2>1, <2>2, <2>5 DEF SlotWithin
  <2> QED BY <2>3, <2>4, <2>6
<1> QED BY <1>1, <1>2 DEF ResizeInPlace, SetSize, Fits

\* resize beyond the capacity moves the slot: the old block's bytes are in the
\* new one, which no pointer names yet.
LEMMA MoveInv ==
    ASSUME PoolInv, NEW n \in Sizes, ResizeMove(n)
    PROVE  PoolInv'
<1> USE MemoryAssumption DEF PoolInv
<1> DEFINE b == blocks + 1
           old == slot.block
<1>1. /\ pool = "open" /\ n > slot.cap /\ blocks' = b
      /\ data' = [c \in (DOMAIN data \ {old}) \cup {b} |->
                    IF c = b THEN Copied(n) ELSE data[c]]
      /\ slot' = [block |-> b, size |-> n, cap |-> n]
      /\ careless' = (careless \/ InUse(old))
      /\ UNCHANGED <<pool, ptrs, kept, flight, ops>>
  BY DEF ResizeMove
<1>2. /\ slot \in [block : Nat, size : Nat, cap : Nat] /\ blocks \in Nat /\ n \in Nat
      /\ kept \in [op : Nat, len : Nat] /\ kept.len <= slot.size /\ slot.size <= slot.cap
      /\ old \in DOMAIN data /\ data[old] \in Seq(Nat) /\ Len(data[old]) = slot.cap
  BY <1>1 DEF PoolTypes, SlotWithin
<1>3. /\ Copied(n) \in [1 .. n -> Nat]
      /\ \A i \in 1 .. slot.size : Copied(n)[i] = data[old][i]
  <2>1. \A i \in 1 .. slot.cap : data[old][i] \in Nat
    BY <1>2, ElementOfSeq
  <2>2. slot.size \in Nat /\ slot.cap \in Nat /\ slot.size <= slot.cap /\ slot.cap < n
    BY <1>1, <1>2
  <2>3. \A i \in 1 .. slot.size : i \in 1 .. n /\ i \in 1 .. slot.cap /\ i <= slot.size
    BY <1>2, <2>2
  <2>4. \A i \in 1 .. n : i <= slot.size => i \in 1 .. slot.cap
    BY <1>2, <2>2
  <2> QED BY <2>1, <2>3, <2>4 DEF Copied
<1>4. Copied(n) \in Seq(Nat) /\ Len(Copied(n)) = n
  BY <1>2, <1>3, TupleLen
<1>5. b \notin DOMAIN data /\ b \in Nat
  BY <1>2 DEF PoolTypes
<1>6. /\ DOMAIN data' = (DOMAIN data \ {old}) \cup {b}
      /\ data'[b] = Copied(n)
      /\ \A c \in DOMAIN data \ {old} : data'[c] = data[c]
  BY <1>1, <1>5
<1>7. PoolTypes'
  <2>1. careless' \in BOOLEAN
    BY <1>1, Zenon
  <2>2. DOMAIN data' \subseteq 1 .. blocks'
    BY <1>1, <1>2, <1>6 DEF PoolTypes
  <2>3. \A c \in DOMAIN data' : data'[c] \in Seq(Nat)
    BY <1>4, <1>6 DEF PoolTypes
  <2>4. slot' \in [block : Nat, size : Nat, cap : Nat] /\ blocks' \in Nat
    BY <1>1, <1>2, <1>5
  <2> QED BY <1>1, <2>1, <2>2, <2>3, <2>4 DEF PoolTypes
<1>8. PtrsWithin'
  <2>1. /\ \A p \in ptrs : p.block \in Nat /\ p.block <= blocks
        /\ \A o \in flight : o.block \in Nat /\ o.block <= blocks
    BY DEF PoolTypes, PtrsWithin
  <2>2. /\ \A p \in ptrs : p.block <= b /\ p.block # b
        /\ \A o \in flight : o.block <= b /\ o.block # b
    BY <1>2, <2>1
  <2> HIDE DEF b
  <2> QED BY <1>1, <1>6, <2>2 DEF PtrsWithin
<1>9. SlotWithin'
  <2>1. \A i \in 1 .. kept.len : i \in 1 .. slot.size
    BY <1>2
  <2>2. \A i \in 1 .. kept.len : Copied(n)[i] = kept.op
    BY <1>1, <1>3, <2>1 DEF SlotWithin
  <2>3. kept.len <= n
    BY <1>1, <1>2
  <2>4. slot'.block = b /\ slot'.size = n /\ slot'.cap = n
    BY <1>1
  <2>5. b <= b /\ n <= n
    BY <1>2, <1>5
  <2> HIDE DEF b
  <2> QED BY <1>1, <1>4, <1>6, <2>2, <2>3, <2>4, <2>5 DEF SlotWithin
<1>10. FlightLive'
  <2>1. ~careless' => ~careless /\ ~InUse(old)
    BY <1>1, Zenon
  <2> HIDE DEF b
  <2> QED BY <1>1, <1>6, <2>1 DEF FlightLive, InUse
<1> QED BY <1>7, <1>8, <1>9, <1>10

\* close frees the block; a careful program has nothing in flight on it.
LEMMA PoolCloseInv == ASSUME PoolInv, PoolClose PROVE PoolInv'
<1> USE DEF PoolInv
<1>1. /\ pool = "open" /\ pool' = "closed" /\ data' = Without(slot.block)
      /\ careless' = (careless \/ InUse(slot.block))
      /\ UNCHANGED <<slot, blocks, ptrs, kept, flight, ops>>
  BY DEF PoolClose
<1>2. /\ DOMAIN data' = DOMAIN data \ {slot.block}
      /\ \A c \in DOMAIN data' : data'[c] = data[c]
  BY <1>1 DEF Without
<1>3. PoolTypes'
  <2>1. careless' \in BOOLEAN
    BY <1>1, Zenon
  <2> QED BY <1>1, <1>2, <2>1 DEF PoolTypes
<1>4. PtrsWithin' /\ SlotWithin'
  BY <1>1, <1>2 DEF PtrsWithin, SlotWithin
<1>5. FlightLive'
  <2>1. ~careless' => ~careless /\ ~InUse(slot.block)
    BY <1>1, Zenon
  <2> QED BY <1>1, <1>2, <2>1 DEF FlightLive, InUse
<1> QED BY <1>3, <1>4, <1>5

\* For a program that keeps BufferPool's rules, no operation in flight reaches
\* outside a live block and get() returns what was stored, across any sequence
\* of resize, set_size and get_ptr, and however late a completion comes.
THEOREM PoolSafety == Spec => []PoolSafe
<1>1. Init => PoolInv
  <2> SUFFICES ASSUME Init PROVE PoolInv
    OBVIOUS
  <2>1. DOMAIN data = {}
    BY DEF Init
  <2>2. PoolTypes
    BY <2>1 DEF Init, PoolTypes, NoBlock
  <2> QED BY <2>1, <2>2 DEF Init, PoolInv, PtrsWithin, SlotWithin, FlightLive
<1>2. PoolInv /\ [Next]_vars => PoolInv'
  <2> SUFFICES ASSUME PoolInv, [Next]_vars PROVE PoolInv'
    OBVIOUS
  <2>1. CASE Pool
    <3>1. ASSUME NEW n \in Sizes, ResizeFails(n) PROVE PoolInv'
      BY <3>1 DEF ResizeFails, vars, poolVars, PoolInv, PoolTypes, PtrsWithin,
                  SlotWithin, FlightLive
    <3> QED BY <2>1, <3>1, CreateInv, GetPtrInv, SubmitPtrInv, PtrDoneInv,
               SizeInv, MoveInv, PoolCloseInv
            DEF Pool
  <2>2. CASE Ring \/ Close \/ UNCHANGED vars
    <3>1. UNCHANGED <<poolVars, flight, ops, careless>>
      BY <2>2 DEF Ring, RegisterBuffers, UnregisterBuffers, ProvideBuffers,
                  NewBufferRing, Drop, KernelPicks, RemoveBuffers, SubmitQueued,
                  Close, vars
    <3> QED BY <3>1 DEF poolVars, PoolInv, PoolTypes, PtrsWithin, SlotWithin,
                        FlightLive
  <2>3. CASE Destroy
    BY <2>3 DEF Destroy, poolVars, PoolInv, PoolTypes, PtrsWithin, SlotWithin,
                FlightLive
  <2> QED BY <2>1, <2>2, <2>3 DEF Next
<1>3. PoolInv => PoolSafe
  BY DEF PoolInv, PoolTypes, PtrsWithin, SlotWithin, FlightLive, PoolSafe
<1> QED BY <1>1, <1>2, <1>3, PTL DEF Spec

=============================================================================

--------------------------- MODULE LockFreeBuffer ---------------------------
(***************************************************************************)
(* arena_b::lockfree::LockFreeBuffer with the per-thread ThreadSlab, shared *)
(* by threads: try_alloc, reset, creation and drop (src/lockfree.rs, the   *)
(* build without single_thread_fast).                                      *)
(*                                                                         *)
(* A step is one access to shared memory with the thread-local work around *)
(* it.  A thread owns one slab, whatever number of buffers it uses.  A     *)
(* buffer is known to a slab by its address; `epoch` counts the buffers    *)
(* that have lived at an address, and so tells their memory apart.         *)
(*                                                                         *)
(* A buffer is either shared as it is, and then any thread may reset it    *)
(* through &self at any moment, or it is the field of a LockFreeAllocator, *)
(* whose reset, enable and disable need &mut self and so run alone.        *)
(***************************************************************************)
EXTENDS Rounding, FiniteSets

CONSTANTS
  Threads, Buffers,  \* threads; addresses a LockFreeBuffer can be placed at
  Capacity,          \* LOCKFREE_BUFFER_SIZE
  Alignment,         \* LOCKFREE_ALIGNMENT
  SlabMinBlock,      \* SLAB_MIN_BLOCK
  MaxAllocation,     \* MAX_LOCKFREE_ALLOCATION
  Requests,          \* the requests threads make of each buffer, [size, align]
  Allocators,        \* the buffers that are fields of a LockFreeAllocator
  Together,          \* bound: sets of buffers that one behaviour creates
  MaxGeneration,     \* bound: resets of one buffer
  MaxEpoch,          \* bound: buffers created at one address
  MaxMisses,         \* bound: misses counted after which nobody calls
  MaxOwned           \* bound: owned blocks after which nobody calls

ASSUME LockFreeBufferAssumption ==
  /\ Alignment \in Nat \ {0} /\ SlabMinBlock \in Nat \ {0}
  /\ Capacity \in Nat /\ MaxAllocation \in Nat
  /\ \A b \in Buffers : Requests[b] \subseteq [size : Nat \ {0}, align : Nat \ {0}]
  /\ Allocators \subseteq Buffers
  /\ Buffers # {} /\ "null" \notin Buffers /\ IsFiniteSet(Threads)

VARIABLES
  memory, epoch, offset, generation,  \* the buffer at each address, if any
  stats,                              \* its LockFreeStats
  enabled,                            \* the flag of the LockFreeAllocator around it
  slab,                               \* THREAD_SLAB of each thread
  pc, target, request,                \* where each thread is, and in which call
  current,                            \* refill's local `current`, 0 outside it
  clean,                              \* has no reset overlapped the call so far?
  live                                \* blocks callers own: [chunk, lo, hi, id]

buffers == <<memory, epoch, generation, enabled>>
calls == <<target, request>>
vars == <<buffers, offset, stats, slab, pc, calls, current, clean, live>>

\* ThreadSlab::new, and what invalidate leaves behind.
NullSlab == [owner |-> "null", base |-> <<>>, offset |-> 0, end |-> 0, generation |-> 0]

\* The memory block of the buffer now at address b.
Memory(b) == <<b, epoch[b]>>

\* What the parameters of a thread that has not called yet stand for.
NoRequest == [size |-> 0, align |-> 1]

ZeroStats == [allocations |-> 0, hits |-> 0, misses |-> 0, contention |-> 0]

Resetting == {"reset_generation", "reset_rest"}
Allocating == {"slab", "load", "cas", "region"}

Exists(b) == memory[b] # "none"

Busy(b) == {t \in Threads : pc[t] # "idle" /\ target[t] = b}
BeingReset(b) == \E t \in Busy(b) : pc[t] \in Resetting

Init ==
  /\ memory = [b \in Buffers |-> "none"] /\ epoch = [b \in Buffers |-> 0]
  /\ offset = [b \in Buffers |-> 0] /\ generation = [b \in Buffers |-> 0]
  /\ stats = [b \in Buffers |-> ZeroStats]
  /\ slab = [t \in Threads |-> NullSlab]
  /\ pc = [t \in Threads |-> "idle"]
  /\ target = [t \in Threads |-> CHOOSE b \in Buffers : TRUE]
  /\ enabled = [b \in Buffers |-> TRUE]
  /\ request = [t \in Threads |-> NoRequest]
  /\ current = [t \in Threads |-> 0]
  /\ clean = [t \in Threads |-> TRUE]
  /\ live = {}

-----------------------------------------------------------------------------
(* Creation and drop; both need the buffer to themselves *)

Created == {b \in Buffers : epoch[b] > 0}

\* The allocation of the memory may fail; the buffer then exists without.
New(b) ==
  /\ ~Exists(b) /\ epoch[b] < MaxEpoch
  /\ \E bs \in Together : Created \cup {b} \subseteq bs
  /\ \E m \in {"allocated", "null"} : memory' = [memory EXCEPT ![b] = m]
  /\ epoch' = [epoch EXCEPT ![b] = @ + 1]
  /\ offset' = [offset EXCEPT ![b] = 0]
  /\ generation' = [generation EXCEPT ![b] = 0]
  /\ stats' = [stats EXCEPT ![b] = ZeroStats]
  /\ enabled' = [enabled EXCEPT ![b] = TRUE]
  /\ UNCHANGED <<slab, pc, calls, current, clean, live>>

\* Frees the memory; the slabs that point into it are left as they are.
Drop(b) ==
  /\ Exists(b) /\ Busy(b) = {}
  /\ memory' = [memory EXCEPT ![b] = "none"]
  /\ live' = {k \in live : k.chunk # Memory(b)}
  /\ UNCHANGED <<epoch, generation, enabled, offset, stats, slab, pc, calls, current, clean>>

-----------------------------------------------------------------------------
(* try_alloc *)

\* What a slab returns for r: the block it hands out, if it has room.
Block(s, r) ==
  LET lo == AlignUp(s.offset, r.align)
  IN  [chunk |-> s.base, lo |-> lo, hi |-> lo + r.size]

HasRoom(s, r) == Block(s, r).hi <= s.end

\* The caller owns the block unless a reset overlapped its call.  The hits
\* counted so far tell a block from the same range granted a second time.
Granted(t, k) ==
  LET b == target[t]
      block == [chunk |-> k.chunk, lo |-> k.lo, hi |-> k.hi, id |-> stats[b].hits]
  IN  IF clean[t] THEN live \cup {block} ELSE live

\* The control of a thread inside a call; a call that returns leaves no
\* parameters behind.
Continue(t, label) == pc' = [pc EXCEPT ![t] = label] /\ UNCHANGED <<request, clean>>
Return(t) ==
  /\ pc' = [pc EXCEPT ![t] = "idle"]
  /\ request' = [request EXCEPT ![t] = NoRequest]
  /\ clean' = [clean EXCEPT ![t] = TRUE]

Count(b, allocations, hits, misses, contention) ==
  stats' = [stats EXCEPT ![b] =
              [allocations |-> @.allocations + allocations, hits |-> @.hits + hits,
               misses |-> @.misses + misses, contention |-> @.contention + contention]]

\* A reference to the buffer can be had: a LockFreeAllocator being reset is
\* borrowed exclusively.
Borrows(b) == Exists(b) /\ (b \in Allocators => ~BeingReset(b))

\* Requests above MAX_LOCKFREE_ALLOCATION never enter the buffer; a
\* LockFreeAllocator turns them away before they are counted.
Bypass(t, b) ==
  /\ Borrows(b) /\ pc[t] = "idle" /\ stats[b].misses < MaxMisses
  /\ b \notin Allocators
  /\ \E r \in Requests[b] : r.size > MaxAllocation
  /\ Count(b, 1, 0, 1, 0)
  /\ UNCHANGED <<buffers, offset, slab, pc, calls, current, clean, live>>

\* A disabled LockFreeAllocator returns None and changes nothing.
Call(t, b) ==
  /\ Borrows(b) /\ pc[t] = "idle" /\ enabled[b]
  /\ stats[b].misses < MaxMisses /\ Cardinality(live) < MaxOwned
  /\ \E r \in Requests[b] :
       /\ r.size <= MaxAllocation
       /\ request' = [request EXCEPT ![t] = r]
  /\ target' = [target EXCEPT ![t] = b]
  /\ clean' = [clean EXCEPT ![t] = ~BeingReset(b)]
  /\ pc' = [pc EXCEPT ![t] = "slab"]
  /\ UNCHANGED <<buffers, offset, stats, slab, current, live>>

\* ThreadSlab::matches
MatchesAnyOwner(s, b) == s # NullSlab /\ s.generation = generation[b]
MatchesAnyGeneration(s, b) == s.owner = b
Matches(s, b) == s.owner = b /\ s.generation = generation[b]

\* try_thread_slab: load the generation, then work on the thread's own slab;
\* the slab's miss leads to the refill, which needs memory.
TryThreadSlab(t) ==
  LET b == target[t] IN
  /\ pc[t] = "slab"
  /\ \/ /\ Matches(slab[t], b) /\ HasRoom(slab[t], request[t])
        /\ slab' = [slab EXCEPT ![t].offset = Block(slab[t], request[t]).hi]
        /\ live' = Granted(t, Block(slab[t], request[t]))
        /\ Count(b, 1, 1, 0, 0)
        /\ Return(t)
     \/ /\ ~(Matches(slab[t], b) /\ HasRoom(slab[t], request[t]))
        /\ slab' = [slab EXCEPT ![t] = IF Matches(@, b) THEN @ ELSE NullSlab]
        /\ \/ /\ memory[b] = "allocated"
              /\ Continue(t, "load")
              /\ UNCHANGED stats
           \/ /\ memory[b] = "null"
              /\ Return(t)
              /\ Count(b, 0, 0, 1, 0)
        /\ UNCHANGED live
  /\ UNCHANGED <<buffers, offset, target, current>>

BlockSize(r) ==
  AlignUp(IF r.size > SlabMinBlock THEN r.size ELSE SlabMinBlock, Alignment)

RefillStart(offs) == AlignUp(offs, Alignment)
RefillEnd(offs, r) == RefillStart(offs) + BlockSize(r)

\* refill_thread_slab_and_alloc: load the offset; out of capacity is a miss
\* there and another one in try_alloc.
LoadRetriesWhenFull(t) ==
  LET b == target[t] IN
  /\ pc[t] = "load"
  /\ RefillEnd(offset[b], request[t]) <= Capacity
  /\ current' = [current EXCEPT ![t] = offset[b]]
  /\ Continue(t, "cas")
  /\ UNCHANGED <<buffers, offset, slab, stats, target, live>>
LoadOffset(t) ==
  LET b == target[t] IN
  /\ pc[t] = "load"
  /\ \/ /\ RefillEnd(offset[b], request[t]) > Capacity
        /\ Count(b, 0, 0, 2, 0)
        /\ Return(t)
        /\ UNCHANGED current
     \/ /\ RefillEnd(offset[b], request[t]) <= Capacity
        /\ current' = [current EXCEPT ![t] = offset[b]]
        /\ Continue(t, "cas")
        /\ UNCHANGED stats
  /\ UNCHANGED <<buffers, offset, slab, target, live>>

\* compare_exchange of the offset; on failure, count and load again.
StoreOffset(t) ==
  /\ pc[t] = "cas"
  /\ offset' = [offset EXCEPT ![target[t]] = RefillEnd(current[t], request[t])]
  /\ Continue(t, "region")
  /\ UNCHANGED <<buffers, stats, slab, target, current, live>>
WeakCompareExchange(t) ==
  LET b == target[t] IN
  /\ pc[t] = "cas"
  /\ \/ /\ offset[b] = current[t]
        /\ offset' = [offset EXCEPT ![b] = RefillEnd(current[t], request[t])]
        /\ Continue(t, "region")
        /\ UNCHANGED stats
     \/ /\ Count(b, 0, 0, 0, 1)
        /\ Continue(t, "load")
        /\ UNCHANGED offset
  /\ UNCHANGED <<buffers, slab, target, current, live>>
CompareExchange(t) ==
  LET b == target[t] IN
  /\ pc[t] = "cas"
  /\ \/ /\ offset[b] = current[t]
        /\ offset' = [offset EXCEPT ![b] = RefillEnd(current[t], request[t])]
        /\ Continue(t, "region")
        /\ UNCHANGED stats
     \/ /\ offset[b] # current[t]
        /\ Count(b, 0, 0, 0, 1)
        /\ Continue(t, "load")
        /\ UNCHANGED offset
  /\ UNCHANGED <<buffers, slab, target, current, live>>

\* Load the generation, make the range the thread's slab, allocate from it.
\* An alignment above Alignment may not fit; the slab is kept all the same.
SetRegion(t) ==
  LET b == target[t]
      s == [owner |-> b, base |-> Memory(b), offset |-> RefillStart(current[t]),
            end |-> RefillEnd(current[t], request[t]), generation |-> generation[b]]
  IN
  /\ pc[t] = "region"
  /\ \/ /\ HasRoom(s, request[t])
        /\ slab' = [slab EXCEPT ![t] = [s EXCEPT !.offset = Block(s, request[t]).hi]]
        /\ live' = Granted(t, Block(s, request[t]))
        /\ Count(b, 2, 1, 0, 0)
     \/ /\ ~HasRoom(s, request[t])
        /\ slab' = [slab EXCEPT ![t] = s]
        /\ Count(b, 1, 0, 1, 0)
        /\ UNCHANGED live
  /\ current' = [current EXCEPT ![t] = 0]
  /\ Return(t)
  /\ UNCHANGED <<buffers, offset, target>>

-----------------------------------------------------------------------------
(* reset: every block handed out so far is released when it begins *)

ResetOffset(t, b) ==
  /\ Exists(b) /\ pc[t] = "idle"
  /\ generation[b] + Cardinality({u \in Busy(b) : pc[u] = "reset_generation"}) < MaxGeneration
  /\ b \in Allocators => Busy(b) = {}
  /\ offset' = [offset EXCEPT ![b] = 0]
  /\ live' = {k \in live : k.chunk # Memory(b)}
  /\ clean' = [u \in Threads |-> clean[u] /\ u \notin Busy(b)]
  /\ target' = [target EXCEPT ![t] = b]
  /\ pc' = [pc EXCEPT ![t] = "reset_generation"]
  /\ UNCHANGED <<buffers, stats, slab, request, current>>

ResetGeneration(t) ==
  /\ pc[t] = "reset_generation"
  /\ generation' = [generation EXCEPT ![target[t]] = @ + 1]
  /\ Continue(t, "reset_rest")
  /\ UNCHANGED <<memory, epoch, enabled, offset, stats, slab, target, current, live>>

\* Zero the memory (contents are not modelled), reset the statistics and
\* invalidate the slab of this thread, whichever buffer it belongs to.
ResetRest(t) ==
  /\ pc[t] = "reset_rest"
  /\ stats' = [stats EXCEPT ![target[t]] = ZeroStats]
  /\ slab' = [slab EXCEPT ![t] = NullSlab]
  /\ Return(t)
  /\ UNCHANGED <<buffers, offset, target, current, live>>

-----------------------------------------------------------------------------
(* LockFreeAllocator::enable and disable; what was handed out stays owned *)

SetEnabled(b, on) ==
  /\ b \in Allocators /\ Exists(b) /\ Busy(b) = {}
  /\ enabled' = [enabled EXCEPT ![b] = on]
  /\ UNCHANGED <<memory, epoch, generation, offset, stats, slab, pc, calls, current, clean, live>>

Enable(b) == SetEnabled(b, TRUE)
Disable(b) == SetEnabled(b, FALSE)

-----------------------------------------------------------------------------

Step(t) ==
  \/ TryThreadSlab(t) \/ LoadOffset(t) \/ CompareExchange(t) \/ SetRegion(t)
  \/ ResetGeneration(t) \/ ResetRest(t)

Next ==
  \/ \E b \in Buffers : New(b) \/ Drop(b) \/ Enable(b) \/ Disable(b)
  \/ \E t \in Threads, b \in Buffers : Bypass(t, b) \/ Call(t, b) \/ ResetOffset(t, b)
  \/ \E t \in Threads : Step(t)

\* A thread inside a call is eventually scheduled; nobody has to call.
Spec == Init /\ [][Next]_vars /\ \A t \in Threads : WF_vars(Step(t))

-----------------------------------------------------------------------------
(* Properties *)

\* The part of a usable slab of a LockFreeAllocator that is still to be
\* handed out belongs to its thread alone: no other usable slab and no owned
\* block reaches into it.  (A reset through &self, in the middle of a refill,
\* leaves the refilling thread a range that is handed out again.)
SlabsArePrivate ==
  \A t \in Threads, b \in Allocators :
    Exists(b) /\ ~BeingReset(b) /\ Matches(slab[t], b) =>
      /\ \A u \in Threads \ {t} :
           Matches(slab[u], b) => slab[u].end <= slab[t].offset \/ slab[t].end <= slab[u].offset
      /\ \A k \in live :
           k.chunk = slab[t].base => k.hi <= slab[t].offset \/ slab[t].end <= k.lo

\* The blocks that callers of a LockFreeAllocator own.
AllocatorLive == {k \in live : k.chunk[1] \in Allocators}

\* What is handed out lies in memory that exists.  No offset passes the
\* capacity, although `end > self.capacity` is tested on a value loaded before
\* the compare_exchange that makes `end` the offset; and every block a caller
\* of a LockFreeAllocator owns lies below the offset of a buffer that was not
\* dropped: "Check if this slab belongs to the given buffer and generation"
\* (src/lockfree.rs:59) keeps a slab of a dropped buffer from being used.
BlocksInLiveMemory ==
  /\ \A b \in Buffers : offset[b] <= Capacity
  /\ \A k \in AllocatorLive :
       \E b \in Buffers : Exists(b) /\ k.chunk = Memory(b) /\ k.hi <= offset[b]

\* Lock-freedom, in the counters: a compare_exchange fails only because
\* another thread's refill succeeded, and each refill takes at least one
\* block, so contention events are bounded by how far the offset has moved.
ContentionIsPaidFor ==
  \A b \in Allocators :
    BeingReset(b) \/
    stats[b].contention <= (Cardinality(Threads) - 1)
                           * (offset[b] \div AlignUp(SlabMinBlock, Alignment))

\* What a LockFreeAllocator's callers see is a region allocator: a call grants a region disjoint
\* from the owned ones or nothing, and only reset and drop take regions back.
Regions == INSTANCE RegionAllocator WITH live <- AllocatorLive
ImplementsRegionAllocator == Regions!Spec

\* The retry loop of refill ends: every call of try_alloc, and of reset,
\* that begins also returns, however the other threads interfere.
CallsReturn == \A t \in Threads : pc[t] # "idle" ~> pc[t] = "idle"

=============================================================================

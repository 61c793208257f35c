# A TLA+ verification of arena-b

arena-b is a Rust crate of bump allocators: an `Arena` of chunks with
checkpoints, rewinds and RAII scopes; a lock-free buffer with per-thread slabs
that a `lockfree` build puts in front of the chunks; a lock-free object pool; an
ordinary object pool; and a `SyncArena` that puts an arena behind a mutex.
Optional features add per-thread caches of blocks that were given back,
reserve-and-commit regions of virtual memory, and a debug registry of all
allocations. A build without the `arena_module` feature uses an older arena.

Source paths below are relative to the crate root. `PROJECT.json` holds the
exact correspondence between definitions and lines, the runs, the findings, the
hazards and the theorems.

## Inventory

| Part | State | Operations | What is hard about it |
|---|---|---|---|
| Size computations (`src/lib.rs`, `src/arena.rs`) | none | `align_up`, `next_chunk_capacity` | boundaries: exact fits, zero, requests above the largest chunk |
| `Chunk` (`src/core.rs`) | base, capacity, used | `new`, `allocate`, `reset`, `set_used` | alignment of the offset is not alignment of the address |
| `Arena`, `ArenaInner`, `Scope` (`src/arena.rs`, `src/core.rs`) | chunks, current chunk, checkpoint stack, ids, statistics | `allocate_raw` and its wrappers, `checkpoint`, `push_checkpoint`, `rewind_to_checkpoint`, `pop_and_rewind`, `clear_checkpoints`, `scope`, `Scope::reset`, `Scope::drop`, `reset`, `reset_and_shrink_to_fit` | rewinds in any order; resets while scopes are open; statistics that are partly added up and partly recomputed |
| `LockFreeBuffer`, `ThreadSlab`, `LockFreeAllocator` (`src/lockfree.rs`) | memory, offset, generation, statistics, enabled flag; one slab per thread | `new`, `try_alloc`, refill, `reset`, `enable`, `disable`, drop | compare-and-exchange races; a slab outliving a reset or its buffer |
| `Arena` with the buffer | both of the above | the arena's operations, through the buffer | a rewind of the arena resets the whole buffer |
| `LockFreePool` (`src/lockfree.rs`) | a linked stack of nodes, statistics | `try_alloc`, `dealloc`, drop | nodes freed while others look at them; addresses reused; counters that wrap |
| `Pool`, `Pooled` (`src/lib.rs`) | slots, free stack, count in use | `alloc`, `put_back` | destructors that re-enter the pool or panic |
| `SyncArena` (`src/lib.rs`) | an arena and a mutex | `scope`, `stats`, `bytes_allocated` | panics poison the lock; order of the two drops; a closure that waits for its own lock |
| legacy `Arena` (`src/legacy_arena.rs`) | chunks, current chunk, checkpoint stack, counter | as `Arena`, with `scope` as a plain call | no guard, no assertions, resets inside scopes |
| `ThreadCache` (`src/thread_local.rs`) | per thread: up to 16 entries, their bytes, the arena id they are of | lookup in `allocate_raw`, `thread_local_dealloc`, `reset_thread_cache`, `cleanup_thread_cache` | only the cache of one thread is reset by a rewind; an approximate byte count |
| `VirtualMemoryRegion`, `VirtualChunk` (`src/virtual_memory.rs`) | reserved and committed size, the pages' protection; capacity and offset | `new`, `commit`, `decommit`, `reset`, drop; the chunk's `new`, `allocate`, `reset` | system calls that fail, some half way; rounding that wraps; a chunk larger than its region |
| Debug registry (`src/debug.rs`) | per arena: registered allocations and current checkpoint id; taints in the guards | registration, rewind, cleanup, validation | one registry for all arenas; ids that are reused |
| `SlabAllocator`, `MemoryPool`, builders | | | not modelled, see the end |

What the crate must get right: memory that a caller owns is never handed out
again; every pointer lies in memory that still exists; a rewind ends exactly the
allocations made after its target; concurrent calls neither lose nor duplicate
anything and always return; statistics mean what they say.

## Modules

* `Rounding` and `Sizing` have the two size computations in closed form.
  `SizingLoops` has them as the code runs them, a mask on W-bit words and a
  doubling loop.
* `RegionAllocator` is the abstract promise of every allocator here: a granted
  block overlaps no live one, and does not change until it is released.
* `Chunk` is `core::Chunk`, shared by both arenas.
* `Arena` is the arena of the default build. One action per public operation and
  way out of it; a call is one step because an `Arena` is not `Sync`. The
  variables carry the code's names. Four more belong to the caller: `log` (the
  allocations that are live), `held` (the checkpoints that may legally be passed
  to the unsafe rewind), `scopes` (the open guards) and `outOfOrder`. The
  constant `Debug` selects what the `debug` feature changes in the ids.
* `ArenaProofs` has the inductive invariant of `Arena`, the lemmas about its
  steps, the safety theorems, the refinement, and the theorems about the chunks:
  alignment, emptiness behind the current chunk, and when an allocation gives up.
* `ArenaLockFree` composes `Arena` with the buffer, for an arena that stays on
  one thread. Blocks of the buffer are logged as chunk 0.
* `ArenaThreadCache` composes `Arena` with the caches of several threads. The
  arena is used on one thread at a time and may move; callers give blocks back on
  any thread. `stale` records that memory was released while a cache that the
  release does not clear held a block of it, `approximate` that a cache's byte
  count has been halved. `overflow_checks` is whether the subtraction in `alloc`
  panics or wraps below zero.
* `SyncArena` composes `Arena` with a mutex and threads. A closure that calls the
  `SyncArena` it runs in is blocked for good (`Reenter`); std also permits the
  second `lock()` to panic, which is `Panic`.
* `LockFreeBuffer` has one step per shared access. `epoch` distinguishes the
  buffers that have lived at one address. The members of `Allocators` are buffers
  inside a `LockFreeAllocator`, whose `reset`, `enable` and `disable` take `&mut`;
  the others are reset through `&` at any moment. `LockFreeBufferProofs` holds its
  theorems.
* `VirtualMemory` has one region from reservation to drop, owned by a caller, by a
  `VirtualChunk` or by an `Arena`. `accessible` is the set of bytes the system lets
  the program touch; a call to the system may fail after any number of pages.
  `stray` are the bytes that a failed call left accessible. `VirtualMemoryProofs`
  holds its theorems.
* `DebugRegistry` has the registry and several arenas reporting to it, one step per
  acquisition of its lock. Of an arena it keeps the order of the live allocations
  and how many of them each checkpoint keeps. `crossed` records that a rewind of
  another arena reached this one's entries, `overtaken` that a checkpoint was used
  whose id an earlier rewind had given back. `DebugRegistryProofs` holds its
  theorems.
* `ObjectStack` is an atomic stack; `LockFreePool` is the Treiber stack that
  implements it. Reading a freed node gives an arbitrary value, and the
  allocator may reuse a freed address at once. `LockFreePoolProofs` holds its
  theorems.
* `Pool` takes `put_back` in steps, since the assignment that empties a slot
  runs a destructor that may call `put_back` or panic. `PoolProofs` holds its
  theorems.
* `LegacyArena` is the older arena. Its checkpoint stack is never read, so it is
  a count.
* The `MC...` modules give the constants of the runs.

An operator that stands directly before another with the same parameters and a
telling name (`RewoundToStart` before `RewoundChunks`) is the same operation with
a plausible mistake in it. It is used to confirm that a property notices it.

## Runs that pass

| Run | What it checks |
|---|---|
| `VirtualMemory` | mask and loop equal the closed forms, the loop ends, and page rounding is the same mask; the committed size stays within the reservation even when rounding wraps; what a chunk grants is accessible whichever system call fails; nothing is accessible that is neither below `committed_size` nor left by a failed call; `VirtualChunk` implements `RegionAllocator` |
| `Arena` | live allocations disjoint, in bounds and aligned up to the chunk's alignment; rewinds keep what was there before; a scope exit panics only if a shrink emptied the arena under it; `retain` keeps a prefix; nothing is in use behind the current chunk; `bytes_used` between live bytes and filled bytes; `bytes_allocated` never above the capacity there is; counters exact while scopes nest; `handle_alloc_error` only above the largest chunk; `Arena` implements `RegionAllocator` |
| `ArenaCaches` | with the lock-free buffer, buffer and chunks hand out disjoint memory as long as no rewind has reset the buffer under an earlier allocation; with the thread caches, a block is in one cache or owned by one caller, never both, as long as no release left a block of its memory in a cache it does not clear; a cache's byte count covers its entries until it is halved |
| `LockFreeBuffer` | a buffer reset through a shared reference at any moment, or two allocators that share the threads' slabs: offsets never pass the capacity; slabs of an allocator are private; blocks lie in buffers that exist; contention is always another thread's success; calls return; the allocators implement `RegionAllocator` |
| `DebugRegistry` | the registry holds every live allocation and nothing of a dropped arena; a live allocation is reported only after a rewind of another arena reached it; a rewound one is reported ever after unless checkpoints were used out of order |
| `LockFreePool` | with one consumer: no freed node is touched, objects are conserved, the counter mirrors the length modulo 2^W, drop frees everything, implements `ObjectStack`, and some call always returns |
| `Pool` | handles are exclusive, free slots empty and nobody's, statistics add up |
| `LegacyArena` | live allocations sound; rewinds keep earlier allocations |
| `SyncArena` | whoever gets the lock finds an empty arena; a poisoned lock keeps nobody out; only a closure that re-enters keeps the lock for good |

## Runs that show a disagreement

Each checks one statement of the repository and finds it violated.

| Run | Statement | What the code does |
|---|---|---|
| `ArenaLockFreeScope` | `docs/architecture.md:49`, previous allocations are preserved | every rewind resets the whole buffer, so memory of earlier small allocations is handed out again |
| `LockFreeAddressReuse` | `src/lockfree.rs:59`, a slab belongs to the given buffer | buffers are told apart by address, and a new one starts at generation 0 |
| `LockFreePoolConsumers` | `README.md:83`, the pool is thread-safe | with two consumers one reads a node the other has freed |

### Other differences

These were met while modelling. They can be read off the model at the definition
named, and no run of the list above is about them.

* `docs/architecture.md:56` says a debug assertion bounds alignments by
  `CHUNK_ALIGN`. There is none, and `Chunk::allocate` aligns the offset rather
  than the address: hence the restriction in `AlignedUpToChunkAlign`.
* `docs/architecture.md:46` says a scope restores `bytes_used`. A rewind
  recomputes it with the padding that `allocate` leaves out: hence only
  `BytesAreBracketed`.
* `src/core.rs:492` says `bytes_allocated` tracks the chunks' capacity. Both
  resets store 0 (`Reset`, `ResetAndShrinkToFit`), and capacities are counted
  before `Chunk::new` rounds them (`Init`).
* `README.md:100` says scopes roll back. A shrink inside a scope drops the chunk
  it must return to, and its exit panics (`DropScopePanics`); in the legacy arena
  an unwinding closure skips the rewind (`UnwindScope`), and its rewind may set
  `used` above the capacity of a chunk that replaced the old one (`LeaveScope`).
* `src/core.rs:460` says a rewind keeps only earlier checkpoints. With `debug` it
  also takes ids back (`Rewind`), and a later entry with a reused id can survive.
* `src/lockfree.rs:42` says the generation detects stale slabs. With a shared
  reset, a refill that wins before it and reads the generation after it stamps an
  old range with the new generation (`SetRegion`): hence `SlabsArePrivate` and the
  refinement speak of the slabs and blocks of `Allocators`.
* `tests/memory_safety.rs` says rewinding one arena should not affect another.
  `debug::rewind_to_checkpoint` rewinds every registered arena to the same id
  (`RegistryRewind`): hence `crossed` in `NoFalseAlarm`.
* `validate_allocation` reads a whole `DebugGuard` 16 bytes before the pointer,
  where only the pre-guard lies, so past an intact pre-guard its answer depends on
  the caller's data (`ValidateAllocation`). Allocations from the current chunk are
  registered twice (`RegisterAgain`), and `check_valid`, `validate_debug_state` and
  `debug_stats` look up the arena's address where registrations use the id of its
  `DebugAllocator`.
* `src/thread_local.rs:238` says the cache is cleared when the arena is dropped.
  Nothing calls `cleanup_thread_cache`, and a rewind or reset clears only the cache
  of its own thread (`CacheReset`), a shrink none (`ShrinkKeepsCaches`): hence
  `stale`. After `clear_partial` the byte count is no bound on the entries
  (`ClearPartial`), and `alloc` can take it below zero: hence `approximate`. The
  lookup ignores the alignment asked for (`AllocFromCache`).
* `README.md:98` says `virtual_memory_committed_bytes` reports the committed
  footprint, and `src/arena.rs:329` that 64 KB start committed. The arena never
  commits anything (`WithVirtualMemory`), so it reports 0.
* `README.md:91` names `Arena::reserve_additional`, which does not exist.

## Bounds

A unit of size stands for 16 bytes in the arenas (32 in the buffer), and the
constants are shrunk to the smallest that keep the cases apart: chunks of 4 and 8
units aligned to 4, a ladder of two rungs, requests that are empty, padded,
refused because of their padding, in need of the largest chunk, and too large;
`SyncArena` adds a requested capacity of 0. Two live allocations are the fewest that can overlap
(three in `ArenaCaches`, where one may lie in the chunks or in a cache); two chunks let a
rewind cross a chunk border; two scopes and three ids give every order of two
scope exits around a checkpoint. A cache holds two entries of together 2 units, so
that it is full by count and by bytes and is halved; `CacheUsize` lets its count
go below zero. A page is 2 bytes, a reservation at most 4 pages and a word 5 bits,
with sizes and offsets at 0, on and off page borders, above the largest reservation
and at the end of the word. Two arenas, three allocations, three checkpoints and
three ids are enough for one arena's rewind to reach the middle of
another's entries and for ids to be reused. Two threads suffice for every pair of accesses
to race; the pool has a third so that two pushes can pass between the steps of a
pop. `MaxId`, `MaxMisses`, `MaxOwned`, `MaxEvents`, `MaxGeneration`, `MaxEpoch`,
`MaxCheckpoints`, `MaxCount`, `MaxAllocs`, `MaxMarks` and `CacheMaxId` bound
counters. A behaviour of `ArenaThreadCache` is followed until it is
stale; in `ArenaCaches`, one of `ArenaLockFree` whose buffer was wiped is followed
only where the next step takes the allocations left in the buffer away. The lock-free pool has W = 2 so
that its counter wraps. `SyncArena` runs with `Debug`, where ids are taken back
and scopes can be opened without end; the other arena runs are without it.
Symmetry is used for guards, threads, arenas and heap addresses, in runs without
liveness only. `VirtualMemory` and `ArenaCaches` each look at two things side by
side, one of which rests in any behaviour.

The runs of `LockFreeBuffer`, `LockFreePool`, `Pool`, `SyncArena` and
`DebugRegistry` do not report deadlock: clients need not call again, and the
counters' bounds stop them.

## Fairness

* `LockFreeBuffer`: a thread inside a call is eventually scheduled. Nobody has to
  call.
* `LockFreePool`: the same, and a weak compare-and-exchange on a value that
  matches again and again does not fail forever.
* `SyncArena`: some waiting thread takes a free lock, not any particular one,
  since a std mutex is not fair; closures that are not blocked end.
* `VirtualMemory`: the doubling loop runs. Nothing is assumed of the region's
  callers.

## What is proved

`ArenaProofs` proves, for every value of the constants that satisfies the named
assumptions (sizes and alignments positive, bases multiples of `ChunkAlign`, the
largest chunk on the doubling ladder) and for builds without `debug`:

* `Disjointness`, `Bounds`, `RewindSafety`: the invariants `LiveBlocksDisjoint`,
  `LiveBlocksInBounds` and `RewindKeepsEarlierAllocations`, and `TypeCorrect`, the
  type invariant;
* `Refinement`: `Arena` implements `RegionAllocator`;
* `Invariance`: the inductive invariant `IInv` behind them.

`IInv` joins these invariants and `IdsOrderTargets`. Being in bounds is not
inductive alone: a rewind lowers `used`, so every checkpoint that can still be
rewound to has to protect the allocations it keeps. That a rewind leaves no stack
entry ahead of the arena needs the ids: they increase up the stack, and an entry
with a smaller id than a target stands for no more allocations than it. This is
what fails in a debug build, where ids are reused, hence the hypothesis `~Debug`.

The proof has a lemma for each group of actions: allocation
(`AllocateInPreserves`), checkpoints (`CheckpointPreserves`), rewinds
(`RewindPreserves`), forgetting a guard or the stack (`ForgettingPreserves`) and
resets (`ResetPreserves`, `ShrinkPreserves`). `NextInv` puts them together.

From `IInv` and for the same constants it also proves:

* `NothingBehind` (`NothingBehindCurrent`, without `debug`), inductive once `IInv` says that the
  current chunk and the targets of rewinds are chunks;
* `Alignment` (`AlignedUpToChunkAlign`, without `debug`). Its invariant `ShapeInv`
  says that bases are multiples of `ChunkAlign` and that live blocks start at
  multiples of their alignment in their chunk, and needs the bounds of `IInv`;
* `AbortBound` (`AbortOnlyAboveMaxChunk`): the capacity `NextChunkCapacity` chooses
  holds every request up to `MaxChunk`, and a fresh chunk starts at offset 0.

`VirtualMemoryProofs` proves, for every page size, reservation limit and word size
that leave two pages of room at the end of the word:

* `GrantedUsable` and `Accounting`: the invariants `GrantedMemoryUsable` and
  `AccessibleIsAccountedFor`, and `VMTypeCorrect`, the type invariant;
* `ChunkRefinement`: a chunk implements `RegionAllocator`;
* `VMInvariance`: the inductive invariant `VMInv`. While a chunk owns the region,
  everything below `committed_size` is accessible and `used` is not above it, which
  holds because a chunk commits from `committed_size` on and that is a multiple of
  the page. The lemmas about `PageUp` carry the arithmetic.

`DebugRegistryProofs` proves, for any set of arenas and any bounds:

* `RegistryFollows`, `NoFalseAlarms`, `RewoundReported`: the invariants
  `RegistryFollowsArenas`, `NoFalseAlarm` and `RewoundIsReported`;
* `DebugInvariance`: the inductive invariant `DebugInv`. Whether a live allocation
  stays clear of its own arena's rewinds depends on what ids mean (`IdsOK`): what
  a checkpoint keeps was registered under ids no higher than the checkpoint's, and
  what came after it, unless the checkpoint was overtaken, under a higher one at
  least once. The first gives `LiveOK` (a live allocation is neither tainted nor
  ahead of the current id), the second `RewoundOK` (what a rewind releases it also
  taints). An allocation between its two registrations is younger than every
  checkpoint, which `PointersOK` says.

`LockFreeBufferProofs` proves, for any number of threads, buffers and allocators,
any capacity and any alignments, and for as long as no buffer is created at the
address of an earlier one (`NoReuse`, the case that the run `LockFreeAddressReuse`
shows to go wrong):

* `PrivateSlabs`, `LiveMemory`, `Contention`: the invariants `SlabsArePrivate`,
  `BlocksInLiveMemory` and `ContentionIsPaidFor`;
* `AllocatorGrantsRegions`: a `LockFreeAllocator` implements `RegionAllocator`;
* `BufferInvariance`: the inductive invariant. Three things lay claim to memory
  below the offset: a slab that matches the buffer, a range that a thread has
  reserved with its compare-and-exchange and not yet made its slab, and a block
  that a caller owns. The invariant says that these are apart, that a reset of an
  allocator runs alone, and that once it has moved the generation on no slab
  matches. `Contention` adds that a thread at its compare-and-exchange has seen an
  offset no higher than the present one, and counts the threads that have fallen
  behind.

`LockFreePoolProofs` proves, for any number of threads, objects and node addresses
and any width of `usize`, with at most one thread that takes objects (`OneConsumer`,
without which the run `LockFreePoolConsumers` fails):

* `NoDangling`, `Conservation`, `CounterMirrorsLength`: the invariants
  `NoDanglingAccess`, `ObjectsAreConserved` and `AllocationsMirrorLength`;
* `PoolIsAStack`: the pool implements `ObjectStack`;
* `PoolInvariance`: the inductive invariant. The nodes reached from `head` form a
  list without repetitions; an allocated node is on it or belongs to one call; and
  the `next` that a consumer has read is still that of a node on the list, because
  pushes only change what is above it and nobody else pops.

`PoolProofs` proves, for every capacity, set of holders and bound on the slots:

* `Exclusive` and `StatsAlwaysAddUp`: the invariants `HandlesAreExclusive` and
  `StatsAddUp`;
* `SlotInvariance`: the inductive invariant. A slot is a client's, the property of
  another slot's value, in the hands of a `put_back`, or free, in one of these ways
  at most and once, and full unless it is free. A slot whose destructor panicked is
  none of these and stays counted as in use.

Only model-checked: liveness, the doubling loop and the mask (they compute by
recursion or on bits), the statistics of the arena, the arena of a debug build, and
the modules `ArenaLockFree`, `ArenaThreadCache`, `SyncArena` and `LegacyArena`.

## Not modelled

* `ThreadLocalCache`, a flag in front of the thread cache's functions, and
  `ThreadLocalStats`, which nothing updates. Two arenas that share an id in a
  thread cache, as all do without `debug`.
* Leak reports, backtraces and statistics of the debug registry, the switch that
  turns validation off, and the fallback when a guarded block cannot be allocated.
  Guards other than the byte a rewind taints.
* `SlabAllocator`, `MemoryPool`: called from nowhere.
* Builders, configuration and error types: plain values.
* `arena::Pool`, `arena::SyncArena`: not exported at the root. The first lends one
  handle at a time through `&mut` (its `alloc` returns a pooled object and drops the
  value it was given when it has one); the second's `alloc` always panics.
* `single_thread_fast`: the same steps without a second thread.
* A failing system allocator under the arena, which ends the process with the
  arena unchanged; a panic while already unwinding; memory contents; and memory
  orderings weaker than sequential consistency.

## Plan

Done in this order: sizes, chunk, arena and its refinement, proofs of the arena,
buffer, lock-free pool, pool, legacy arena, synchronized arena, arena with
buffer, virtual memory and its proofs, debug registry and its proofs, thread
caches, lock-free allocators, re-entered closures, proofs of the lock-free buffer,
of the lock-free pool and of the pool. Next:

1. Proofs for `SyncArena` and `LegacyArena`.
2. Proofs for the two modules that put a cache in front of the arena.
3. The arena moved between threads in a lock-free build.

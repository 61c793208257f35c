------------------------------- MODULE Arena -------------------------------
(***************************************************************************)
(* The default build of arena_b::Arena (src/arena.rs over src/core.rs):    *)
(* a vector of chunks filled by bumping an offset, checkpoints that record *)
(* a position, rewinds that restore one, RAII scopes that rewind when they *)
(* are dropped, and the statistics counters.                               *)
(*                                                                         *)
(* Indices are 1-based here and 0-based in the code.  An Arena is Send but *)
(* not Sync, so its calls never overlap and each one is a single step.     *)
(* The caller is part of the model: `log` is every allocation it has made  *)
(* and not rewound, `held` the checkpoints it may legally pass to the      *)
(* unsafe rewind_to_checkpoint, `scopes` its open Scope guards, which safe *)
(* code may reset and drop in any order.                                   *)
(***************************************************************************)
EXTENDS Chunk, Sequences, FiniteSets, Functions

CONSTANTS
  DefaultChunk,  \* DEFAULT_CHUNK_SIZE, the fallback of with_capacity
  Capacities,    \* capacities the arena may be created with
  Layouts,       \* the layouts callers ask for, [size, align]
  Guards,        \* names for the Scope guards that may be open at once
  NoScope,       \* a guard that is not open
  Debug,         \* is the `debug` feature compiled in?
  MaxLive,       \* bound: allocations live at once
  MaxChunks,     \* bound: chunks ever held
  MaxId          \* bound: checkpoint ids handed out

ASSUME ArenaAssumption ==
  /\ DefaultChunk \in Nat \ {0}
  /\ Capacities \subseteq Nat
  /\ \A l \in Layouts : l.size \in Nat /\ l.align \in Nat \ {0}
  /\ Debug \in BOOLEAN

VARIABLES
  chunks,                 \* the chunks: [base, capacity, used]
  current_chunk,
  checkpoints,            \* the explicit checkpoint stack
  current_checkpoint_id,
  bytes_used, bytes_allocated, allocation_count,   \* ArenaStats
  outcome,                \* how the last call ended
  log,                    \* live allocations, oldest first: [chunk, lo, hi, align]
  held,                   \* checkpoints that still represent a valid prior state
  scopes,                 \* the checkpoint of each open Scope guard
  outOfOrder              \* has a scope been rewound after its start was already undone?

memory == <<chunks, current_chunk, log>>
stats == <<bytes_used, bytes_allocated, allocation_count>>
marks == <<checkpoints, current_checkpoint_id, held, scopes, outOfOrder>>
vars == <<memory, stats, marks, outcome>>

\* ArenaCheckpoint, with the number of live allocations it stands for.
CheckpointRec == [chunk_index : Nat, chunk_offset : Nat, checkpoint_id : Nat,
                  allocation_count : Nat, mark : Nat]

BlockRec == [chunk : Nat, lo : Nat, hi : Nat, align : Nat]

-----------------------------------------------------------------------------
(* Creation, and allocation in a chunk *)

\* The index allocate and checkpoint use: current_chunk clamped to the vector.
CurrentIndex ==
  IF current_chunk > Len(chunks) THEN Len(chunks) ELSE current_chunk

\* Arena::with_capacity falls back when Chunk::new rejects a capacity of 0.
InitialCapacity(requested) == IF requested = 0 THEN DefaultChunk ELSE requested

\* ArenaInner::new
Init ==
  \E requested \in Capacities, base \in Bases :
    LET capacity == InitialCapacity(requested) IN
    /\ chunks = <<NewChunk(base, capacity)>>
    /\ current_chunk = 1
    /\ checkpoints = <<>>
    /\ current_checkpoint_id = 0
    /\ bytes_used = 0 /\ bytes_allocated = capacity /\ allocation_count = 0
    /\ outcome = "ok"
    /\ log = <<>> /\ held = {} /\ outOfOrder = FALSE
    /\ scopes = [g \in Guards |-> NoScope]

\* ArenaInner::add_chunk
AddChunk(base, capacity) == Append(chunks, NewChunk(base, capacity))

\* ArenaInner::allocate on chunk i of chs, when Chunk::allocate finds room.
AllocateInFromZero(chs, i, l) ==
  LET start == AlignUp(chs[i].used, l.align) IN
  /\ Fits(chs[i], l)
  /\ chunks' = [chs EXCEPT ![i].used = l.size]
  /\ bytes_used' = bytes_used + l.size
  /\ allocation_count' = allocation_count + 1
  /\ log' = Append(log, [chunk |-> i, lo |-> start, hi |-> start + l.size,
                         align |-> l.align])
AllocateIn(chs, i, l) ==
  LET start == AlignUp(chs[i].used, l.align) IN
  /\ Fits(chs[i], l)
  /\ chunks' = [chs EXCEPT ![i].used = start + l.size]
  /\ bytes_used' = bytes_used + l.size
  /\ allocation_count' = allocation_count + 1
  /\ log' = Append(log, [chunk |-> i, lo |-> start, hi |-> start + l.size,
                         align |-> l.align])

-----------------------------------------------------------------------------
(* Arena::allocate_raw, one action for each way out of it *)

Alive == outcome # "abort"

\* A zero-sized request gets a dangling pointer and is only counted.
AllocZeroSized(l) ==
  /\ Alive
  /\ l.size = 0
  /\ Len(log) < MaxLive
  /\ allocation_count' = allocation_count + 1
  /\ log' = Append(log, [chunk |-> 0, lo |-> 0, hi |-> 0, align |-> l.align])
  /\ outcome' = "ok"
  /\ UNCHANGED <<chunks, current_chunk, bytes_used, bytes_allocated, marks>>

AllocInCurrent(l) ==
  /\ Alive
  /\ l.size > 0
  /\ Len(log) < MaxLive
  /\ AllocateIn(chunks, CurrentIndex, l)
  /\ outcome' = "ok"
  /\ UNCHANGED <<current_chunk, bytes_allocated, marks>>

\* The current chunk is full: add_chunk, then allocate again.
AllocInNewChunk(l) ==
  /\ Alive
  /\ l.size > 0
  /\ Len(log) < MaxLive
  /\ ~Fits(chunks[CurrentIndex], l)
  /\ Len(chunks) < MaxChunks
  /\ \E base \in Bases :
       AllocateIn(AddChunk(base, NextChunkCapacity(l.size)), Len(chunks) + 1, l)
  /\ current_chunk' = Len(chunks) + 1
  /\ bytes_allocated' = bytes_allocated + NextChunkCapacity(l.size)
  /\ outcome' = "ok"
  /\ UNCHANGED marks

\* Not even the new chunk holds the request: handle_alloc_error ends the process.
AllocAbort(l) ==
  /\ Alive
  /\ l.size > 0
  /\ ~Fits(chunks[CurrentIndex], l)
  /\ \A base \in Bases : ~Fits(NewChunk(base, NextChunkCapacity(l.size)), l)
  /\ outcome' = "abort"
  /\ UNCHANGED <<memory, stats, marks>>

AllocateRaw(l) ==
  AllocZeroSized(l) \/ AllocInCurrent(l) \/ AllocInNewChunk(l) \/ AllocAbort(l)

-----------------------------------------------------------------------------
(* Checkpoints and rewinds *)

\* ArenaInner::checkpoint: the value returned, and the id it uses up.
TakenWithoutCount ==
  [chunk_index |-> CurrentIndex, chunk_offset |-> chunks[CurrentIndex].used,
   checkpoint_id |-> current_checkpoint_id, allocation_count |-> 0,
   mark |-> Len(log)]
TakenCheckpoint ==
  [chunk_index |-> CurrentIndex, chunk_offset |-> chunks[CurrentIndex].used,
   checkpoint_id |-> current_checkpoint_id, allocation_count |-> allocation_count,
   mark |-> Len(log)]

UseCheckpointId ==
  /\ Alive
  /\ current_checkpoint_id < MaxId
  /\ current_checkpoint_id' = current_checkpoint_id + 1
  /\ outcome' = "ok"
  /\ UNCHANGED <<memory, stats, outOfOrder>>

TakeCheckpoint ==
  /\ UseCheckpointId
  /\ held' = held \cup {TakenCheckpoint}
  /\ UNCHANGED <<checkpoints, scopes>>

PushCheckpoint ==
  /\ UseCheckpointId
  /\ checkpoints' = Append(checkpoints, TakenCheckpoint)
  /\ held' = held \cup {TakenCheckpoint}
  /\ UNCHANGED scopes

\* The two assertions that open ArenaInner::rewind_to_checkpoint.
InRange(c) ==
  /\ c.chunk_index \in DOMAIN chunks
  /\ c.chunk_offset <= chunks[c.chunk_index].capacity

\* checkpoints.retain(|cp| cp.checkpoint_id < id).  Ids increase up the stack
\* (IdsOrderTargets in ArenaProofs), so retain keeps a prefix
\* (RetainIsAFilter).
RetainAll(stack, id) == stack
RetainTarget(stack, id) ==
  SubSeq(stack, 1, Cardinality({i \in DOMAIN stack : stack[i].checkpoint_id <= id}))
Retain(stack, id) ==
  SubSeq(stack, 1, Cardinality({i \in DOMAIN stack : stack[i].checkpoint_id < id}))

RewoundToStart(c) ==
  [i \in DOMAIN chunks |->
     IF i < c.chunk_index THEN chunks[i] ELSE [chunks[i] EXCEPT !.used = 0]]
RewoundAndTruncated(c) ==
  [i \in 1..c.chunk_index |->
     IF i < c.chunk_index THEN chunks[i] ELSE [chunks[i] EXCEPT !.used = c.chunk_offset]]
RewoundTargetOnly(c) ==
  [i \in DOMAIN chunks |->
     IF i = c.chunk_index THEN [chunks[i] EXCEPT !.used = c.chunk_offset] ELSE chunks[i]]
RewoundChunks(c) ==
  [i \in DOMAIN chunks |->
     IF i < c.chunk_index THEN chunks[i]
     ELSE [chunks[i] EXCEPT !.used = IF i = c.chunk_index THEN c.chunk_offset ELSE 0]]

UsedUpTo(chs, n) == SumFunctionOnSet([i \in DOMAIN chs |-> chs[i].used], 1..n)

\* A rewind ends the life of every allocation made after mark, also inside the
\* scopes that are open: they now stand for no more than mark allocations.
LowerMark(c, mark) == [c EXCEPT !.mark = IF @ < mark THEN @ ELSE mark]

LoweredScopes(mark) ==
  [g \in Guards |-> IF scopes[g] = NoScope THEN NoScope ELSE LowerMark(scopes[g], mark)]

\* ArenaInner::rewind_to_checkpoint past its assertions.
Rewind(c, stack) ==
  /\ Alive
  /\ InRange(c)
  /\ current_chunk' = c.chunk_index
  /\ chunks' = RewoundChunks(c)
  /\ checkpoints' = Retain(stack, c.checkpoint_id)
  /\ current_checkpoint_id' = IF Debug THEN c.checkpoint_id + 1 ELSE current_checkpoint_id
  /\ bytes_used' = UsedUpTo(chunks', c.chunk_index)
  /\ allocation_count' = c.allocation_count
  /\ log' = SubSeq(log, 1, c.mark)
  /\ held' = {h \in held : h.mark <= c.mark}
  /\ outcome' = "ok"
  /\ UNCHANGED bytes_allocated

\* The unsafe rewind; its contract is that c is still a valid prior state.
RewindToCheckpoint(c) ==
  /\ Rewind(c, checkpoints)
  /\ scopes' = LoweredScopes(c.mark)
  /\ UNCHANGED outOfOrder

\* Calls that take &mut self cannot be made while a Scope borrows the arena.
NoScopeOpen == \A g \in Guards : scopes[g] = NoScope

PopAndRewind ==
  /\ NoScopeOpen
  /\ checkpoints # <<>>
  /\ LET top == checkpoints[Len(checkpoints)]
     IN  Rewind(top, SubSeq(checkpoints, 1, Len(checkpoints) - 1))
  /\ UNCHANGED <<scopes, outOfOrder>>

\* pop_and_rewind on an empty stack panics in expect, before any change.
PopEmpty ==
  /\ Alive
  /\ NoScopeOpen
  /\ checkpoints = <<>>
  /\ outcome' = "panic"
  /\ UNCHANGED <<memory, stats, marks>>

ClearCheckpoints ==
  /\ Alive
  /\ checkpoints' = <<>>
  /\ outcome' = "ok"
  /\ UNCHANGED <<memory, stats, current_checkpoint_id, held, scopes, outOfOrder>>

-----------------------------------------------------------------------------
(* Scopes *)

OpenScope(g) ==
  /\ scopes[g] = NoScope
  /\ UseCheckpointId
  /\ scopes' = [scopes EXCEPT ![g] = TakenCheckpoint]
  /\ UNCHANGED <<checkpoints, held>>

\* Scope::reset
ResetScope(g) ==
  /\ scopes[g] # NoScope
  /\ Rewind(scopes[g], checkpoints)
  /\ scopes' = LoweredScopes(scopes[g].mark)
  /\ outOfOrder' = (outOfOrder \/ scopes[g].mark < scopes[g].allocation_count)

\* Scope::reset when an assertion of rewind_to_checkpoint fails: the panic
\* leaves the arena, and the open scope, as they were.
ResetScopePanics(g) ==
  /\ Alive
  /\ scopes[g] # NoScope
  /\ ~InRange(scopes[g])
  /\ outcome' = "panic"
  /\ UNCHANGED <<memory, stats, marks>>

\* Scope::drop, whether the closure returned or unwound.
DropScope(g) ==
  /\ scopes[g] # NoScope
  /\ Rewind(scopes[g], checkpoints)
  /\ scopes' = [LoweredScopes(scopes[g].mark) EXCEPT ![g] = NoScope]
  /\ outOfOrder' = (outOfOrder \/ scopes[g].mark < scopes[g].allocation_count)

\* Scope::drop when an assertion fails: the panic leaves the arena as it was.
DropScopePanics(g) ==
  /\ Alive
  /\ scopes[g] # NoScope
  /\ ~InRange(scopes[g])
  /\ scopes' = [scopes EXCEPT ![g] = NoScope]
  /\ outcome' = "panic"
  /\ UNCHANGED <<memory, stats, checkpoints, current_checkpoint_id, held, outOfOrder>>

-----------------------------------------------------------------------------
(* Whole-arena resets *)

\* Arena::reset
Reset ==
  /\ Alive
  /\ NoScopeOpen
  /\ chunks' = [i \in DOMAIN chunks |-> [chunks[i] EXCEPT !.used = 0]]
  /\ current_chunk' = 1
  /\ bytes_used' = 0 /\ bytes_allocated' = 0 /\ allocation_count' = 0
  /\ checkpoints' = <<>>
  /\ log' = <<>> /\ held' = {} /\ outOfOrder' = FALSE
  /\ outcome' = "ok"
  /\ UNCHANGED <<current_checkpoint_id, scopes>>

\* Arena::reset_and_shrink_to_fit takes &self, so scopes may be open.
ShrinkKeepsBytesAllocated ==
  /\ Alive
  /\ chunks' = <<[chunks[1] EXCEPT !.used = 0]>>
  /\ current_chunk' = 1
  /\ bytes_used' = 0 /\ allocation_count' = 0
  /\ checkpoints' = <<>>
  /\ log' = <<>> /\ held' = {} /\ outOfOrder' = FALSE
  /\ scopes' = LoweredScopes(0)
  /\ outcome' = "ok"
  /\ UNCHANGED <<current_checkpoint_id, bytes_allocated>>
ResetAndShrinkToFit ==
  /\ Alive
  /\ chunks' = <<[chunks[1] EXCEPT !.used = 0]>>
  /\ current_chunk' = 1
  /\ bytes_used' = 0 /\ bytes_allocated' = 0 /\ allocation_count' = 0
  /\ checkpoints' = <<>>
  /\ log' = <<>> /\ held' = {} /\ outOfOrder' = FALSE
  /\ scopes' = LoweredScopes(0)
  /\ outcome' = "ok"
  /\ UNCHANGED current_checkpoint_id

-----------------------------------------------------------------------------

\* After handle_alloc_error there is no process left to take a step.
Aborted == ~Alive /\ UNCHANGED vars

Next ==
  \/ \E l \in Layouts : AllocateRaw(l)
  \/ TakeCheckpoint \/ PushCheckpoint \/ ClearCheckpoints
  \/ \E c \in held : RewindToCheckpoint(c)
  \/ PopAndRewind \/ PopEmpty
  \/ \E g \in Guards : \/ OpenScope(g)
                      \/ ResetScope(g) \/ ResetScopePanics(g)
                      \/ DropScope(g) \/ DropScopePanics(g)
  \/ Reset \/ ResetAndShrinkToFit
  \/ Aborted

Spec == Init /\ [][Next]_vars

-----------------------------------------------------------------------------
(* Properties *)

Entries == {checkpoints[i] : i \in DOMAIN checkpoints}

OpenScopes == {scopes[g] : g \in {h \in Guards : scopes[h] # NoScope}}

\* Type invariant.  current_chunk always names a chunk, so the clamp in
\* allocate and checkpoint is never needed.  (bytes_used: see
\* BytesAreBracketed.)
TypeOK ==
  /\ chunks \in Seq(ChunkRec) /\ chunks # <<>>
  /\ current_chunk \in DOMAIN chunks
  /\ checkpoints \in Seq(CheckpointRec)
  /\ current_checkpoint_id \in Nat
  /\ bytes_allocated \in Nat /\ allocation_count \in Nat
  /\ outcome \in {"ok", "panic", "abort"}
  /\ log \in Seq(BlockRec)
  /\ held \subseteq CheckpointRec
  /\ scopes \in [Guards -> CheckpointRec \cup {NoScope}]
  /\ outOfOrder \in BOOLEAN

\* Two live allocations never share a byte, whatever sequence of allocations,
\* rewinds, scope exits in any order and resets led here: no set_used or
\* set-to-checkpoint of a chunk goes below an allocation the caller still owns.
LiveBlocksDisjoint ==
  \A i, j \in DOMAIN log :
    i # j /\ log[i].lo < log[i].hi /\ log[j].lo < log[j].hi
      => \/ log[i].chunk # log[j].chunk
         \/ log[i].hi <= log[j].lo
         \/ log[j].hi <= log[i].lo

\* Every live allocation lies in a chunk that has not been dropped, at or
\* before the current one, below that chunk's `used`, which never exceeds its
\* capacity (allocate_raw's pointers "point into a valid Chunk allocation").
LiveBlocksInBounds ==
  /\ \A i \in DOMAIN chunks : chunks[i].used <= chunks[i].capacity
  /\ \A i \in DOMAIN log :
       log[i].lo < log[i].hi
         => /\ log[i].chunk \in 1..current_chunk
            /\ log[i].hi <= chunks[log[i].chunk].used

Aligned(b) == (chunks[b.chunk].base + b.lo) % b.align = 0

\* The address of a live allocation satisfies its layout, for every alignment
\* up to the one chunks are allocated with (Chunk::allocate aligns the offset,
\* not the address).
AlignedUpToChunkAlign ==
  \A i \in DOMAIN log :
    log[i].lo < log[i].hi /\ ChunkAlign % log[i].align = 0 => Aligned(log[i])

\* The block ends at or below the position of checkpoint c.
Below(b, c) ==
  b.lo < b.hi => \/ b.chunk < c.chunk_index
                 \/ b.chunk = c.chunk_index /\ b.hi <= c.chunk_offset

Protects(c) == c.mark <= Len(log) /\ \A i \in 1..c.mark : Below(log[i], c)

\* Rewinding to any checkpoint that may still be rewound to - held by the
\* caller, on the stack, or owned by an open Scope - keeps every allocation
\* that was live when it was taken and has not been released since.  For the
\* first two kinds the assertions of rewind_to_checkpoint moreover hold.
RewindKeepsEarlierAllocations ==
  /\ \A c \in held \cup Entries : Protects(c) /\ InRange(c)
  /\ \A c \in OpenScopes : Protects(c)

\* Dropping or resetting an open Scope fails an assertion only when nothing
\* that was live when the Scope opened is left: of all the calls that can be
\* made under it, only reset_and_shrink_to_fit takes its chunk away.
ScopeFailsOnlyWhenEmptied == \A c \in OpenScopes : InRange(c) \/ c.mark = 0

\* retain leaves exactly the entries pushed before the rewind target was
\* taken, and they are a prefix of the stack: ids increase up the stack, even
\* though neither reset nor rewind ever takes an id back.
RetainIsAFilter ==
  \A c \in held \cup Entries \cup OpenScopes :
    Retain(checkpoints, c.checkpoint_id)
      = SelectSeq(checkpoints, LAMBDA e : e.checkpoint_id < c.checkpoint_id)

Size(b) == b.hi - b.lo

LiveBytes == SumFunctionOnSet([i \in DOMAIN log |-> Size(log[i])], DOMAIN log)

\* bytes_used never under-reports the live allocations and never over-reports
\* the chunks: allocate adds the size without padding, a rewind recomputes it
\* from `used` with the padding.  Nor does bytes_allocated over-report the
\* capacity: it counts capacities before Chunk::new rounds them up, both resets
\* store 0 although chunks stay, and a shrink leaves no dropped chunk in it.
BytesAreBracketed ==
  /\ LiveBytes <= bytes_used
  /\ bytes_used <= SumFunctionOnSet([i \in DOMAIN chunks |-> chunks[i].used], DOMAIN chunks)
  /\ bytes_allocated <= SumFunctionOnSet([i \in DOMAIN chunks |-> chunks[i].capacity],
                                         DOMAIN chunks)

\* The chunks behind the current one are empty, also after rewinds across
\* chunk borders in any order: what allocate_raw leaves behind when it appends
\* a chunk rather than moving on to the next, and what a rewind leaves out of
\* bytes_used, holds nothing.
NothingBehindCurrent ==
  \A i \in DOMAIN chunks : i > current_chunk => chunks[i].used = 0

\* As long as scopes end in nested order, allocation_count is the number of
\* live allocations and no chunk is filled past its last live allocation.  A
\* scope that ends after its start was already rewound brings both back too high.
ExactWhenNested ==
  ~outOfOrder
    => /\ allocation_count = Len(log)
       /\ \A i \in DOMAIN chunks :
            chunks[i].used > 0
              => \E j \in DOMAIN log : log[j].chunk = i /\ log[j].hi = chunks[i].used

\* allocate_raw gives up only on a request above MAX_CHUNK_SIZE: whatever the
\* fill of the current chunk, next_chunk_capacity picks a chunk the retry fits.
AbortOnlyAboveMaxChunk ==
  [][\A l \in Layouts : AllocAbort(l) => l.size > MaxChunk]_vars

\* The blocks callers own, as the abstract allocator sees them.  The id tells
\* a block from the same range granted a second time.
LiveBlocks == {[chunk |-> log[i].chunk, lo |-> log[i].lo, hi |-> log[i].hi, id |-> i] :
                 i \in {j \in DOMAIN log : log[j].lo < log[j].hi}}

Regions == INSTANCE RegionAllocator WITH live <- LiveBlocks

\* The arena is a region allocator: each step grants one block that overlaps
\* no live one, or only releases blocks.  A rewind never moves a block.
ImplementsRegionAllocator == Regions!Spec

=============================================================================

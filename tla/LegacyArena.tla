---------------------------- MODULE LegacyArena ----------------------------
(***************************************************************************)
(* legacy_arena::Arena (src/legacy_arena.rs), the Arena of a build without *)
(* the arena_module feature.  It uses the same chunks, but grows them      *)
(* differently, computes its statistics from them, keeps the checkpoint    *)
(* stack through a rewind, and opens a scope around a closure without a    *)
(* guard.  Scopes are calls, so they nest; `scopes` is their stack.        *)
(* Indices are 1-based; `log` and `held` are the caller's, as in Arena.    *)
(***************************************************************************)
EXTENDS Chunk, Sequences, Functions, FiniteSets

CONSTANTS
  Capacities,    \* capacities the arena may be created with
  Layouts,       \* the layouts callers ask for, [size, align]
  MaxLive,       \* bound: allocations live at once
  MaxChunks,     \* bound: chunks ever held
  MaxCheckpoints,\* bound: checkpoints held or scoped at once, and on the stack
  MaxCount       \* bound: allocations the counter counts

ASSUME LegacyArenaAssumption ==
  /\ Capacities \subseteq Nat \ {0}
  /\ \A l \in Layouts : l.size \in Nat /\ l.align \in Nat \ {0}

VARIABLES
  chunks, current_chunk,
  checkpoints,  \* how many checkpoints are on the stack, which is never read
  allocation_counter,
  outcome,      \* how the last call ended: "ok" or "panic"
  log,          \* live allocations, oldest first: [chunk, lo, hi]
  held,         \* checkpoints that still represent a valid prior state
  scopes        \* the checkpoint of each scope call in progress, outermost first

caller == <<held, scopes>>
vars == <<chunks, current_chunk, checkpoints, allocation_counter, outcome, log, caller>>

Init ==
  \E capacity \in Capacities, base \in Bases :
    /\ chunks = <<NewChunk(base, capacity)>>
    /\ current_chunk = 1
    /\ checkpoints = 0
    /\ allocation_counter = 0
    /\ outcome = "ok"
    /\ log = <<>> /\ held = {} /\ scopes = <<>>

-----------------------------------------------------------------------------
(* Allocation *)

\* alloc_layout doubles the request for a new chunk, without an upper limit.
\* The panic! for a new chunk that is too small is not an action: that the
\* chunk is large enough is part of LiveBlocksSound.
GrowTooLittle(size) == IF size > MinChunk THEN MinChunk ELSE 2 * MinChunk
NewCapacity(size) == IF 2 * size > MinChunk THEN 2 * size ELSE MinChunk

\* Chunk::allocate on chunk i of chs, which has room; zero-sized requests too.
AllocateIn(chs, i, l) ==
  LET start == AlignUp(chs[i].used, l.align) IN
  /\ chunks' = [chs EXCEPT ![i].used = start + l.size]
  /\ log' = Append(log, [chunk |-> i, lo |-> start, hi |-> start + l.size])

AllocLayout(l) ==
  /\ Len(log) < MaxLive
  /\ LET grown(base) == Append(chunks, NewChunk(base, NewCapacity(l.size))) IN
     \/ /\ Fits(chunks[current_chunk], l)
        /\ AllocateIn(chunks, current_chunk, l)
        /\ outcome' = "ok"
        /\ UNCHANGED current_chunk
     \/ /\ ~Fits(chunks[current_chunk], l) /\ Len(chunks) < MaxChunks
        /\ \E base \in Bases : AllocateIn(grown(base), Len(chunks) + 1, l)
        /\ current_chunk' = Len(chunks) + 1
        /\ outcome' = "ok"
  /\ UNCHANGED <<checkpoints, caller>>

\* alloc counts the allocation; the slice and layout variants do not.
Alloc(l) ==
  /\ AllocLayout(l)
  /\ allocation_counter < MaxCount
  /\ allocation_counter' = allocation_counter + 1

AllocSlice(l) == AllocLayout(l) /\ UNCHANGED allocation_counter

-----------------------------------------------------------------------------
(* Checkpoints *)

MayTake == Cardinality(held) + Len(scopes) < MaxCheckpoints

\* checkpoint returns a value and changes nothing.
Taken ==
  [chunk_index |-> current_chunk, chunk_offset |-> chunks[current_chunk].used,
   allocation_count |-> allocation_counter, mark |-> Len(log)]

TakeCheckpoint ==
  /\ MayTake
  /\ held' = held \cup {Taken}
  /\ outcome' = "ok"
  /\ UNCHANGED <<chunks, current_chunk, checkpoints, allocation_counter, log, scopes>>

PushCheckpoint ==
  /\ MayTake /\ checkpoints < MaxCheckpoints
  /\ checkpoints' = checkpoints + 1
  /\ held' = held \cup {Taken}
  /\ outcome' = "ok"
  /\ UNCHANGED <<chunks, current_chunk, allocation_counter, log, scopes>>

ClearCheckpoints ==
  /\ checkpoints' = 0
  /\ outcome' = "ok"
  /\ UNCHANGED <<chunks, current_chunk, allocation_counter, log, caller>>

\* A scope that is open now stands for no more than mark allocations.
Lowered(mark) ==
  [i \in DOMAIN scopes |->
     [scopes[i] EXCEPT !.mark = IF @ < mark THEN @ ELSE mark]]

\* rewind_to_checkpoint: no assertion, the stack and the counter are kept.
RewindClearsChunk(c) ==
  /\ chunks' = [i \in DOMAIN chunks |->
                  IF i < c.chunk_index THEN chunks[i] ELSE [chunks[i] EXCEPT !.used = 0]]
  /\ current_chunk' = c.chunk_index
  /\ log' = SubSeq(log, 1, c.mark)
  /\ held' = {h \in held : h.mark <= c.mark}
  /\ UNCHANGED checkpoints
Rewind(c) ==
  /\ chunks' = [i \in DOMAIN chunks |->
                  IF i < c.chunk_index THEN chunks[i]
                  ELSE [chunks[i] EXCEPT !.used = IF i = c.chunk_index
                                                  THEN c.chunk_offset ELSE 0]]
  /\ current_chunk' = c.chunk_index
  /\ log' = SubSeq(log, 1, c.mark)
  /\ held' = {h \in held : h.mark <= c.mark}
  /\ UNCHANGED checkpoints

\* The unsafe rewind, to a checkpoint that is still a valid prior state.
RewindToCheckpoint(c) ==
  /\ Rewind(c)
  /\ scopes' = Lowered(c.mark)
  /\ outcome' = "ok"
  /\ UNCHANGED allocation_counter

-----------------------------------------------------------------------------
(* scope(f) *)

Innermost == scopes[Len(scopes)]
Outer == SubSeq(scopes, 1, Len(scopes) - 1)

EnterScope ==
  /\ MayTake
  /\ scopes' = Append(scopes, Taken)
  /\ outcome' = "ok"
  /\ UNCHANGED <<chunks, current_chunk, checkpoints, allocation_counter, log, held>>

\* The closure returns: rewind, then restore the counter.
LeaveScope ==
  /\ scopes # <<>>
  /\ Innermost.chunk_index \in DOMAIN chunks
  /\ Rewind(Innermost)
  /\ allocation_counter' = Innermost.allocation_count
  /\ scopes' = Outer
  /\ outcome' = "ok"

\* The closure returns, but the chunk to rewind to is gone: the index panics.
LeaveScopePanics ==
  /\ scopes # <<>>
  /\ Innermost.chunk_index \notin DOMAIN chunks
  /\ scopes' = Outer
  /\ outcome' = "panic"
  /\ UNCHANGED <<chunks, current_chunk, checkpoints, allocation_counter, log, held>>

\* The closure unwinds: nothing after the call of f is executed.
UnwindScope ==
  /\ scopes # <<>>
  /\ scopes' = Outer
  /\ outcome' = "panic"
  /\ UNCHANGED <<chunks, current_chunk, checkpoints, allocation_counter, log, held>>

-----------------------------------------------------------------------------
(* Resets; both take &self, so scopes may be in progress *)

ResetTo(chs) ==
  /\ chunks' = chs
  /\ current_chunk' = 1
  /\ checkpoints' = 0
  /\ allocation_counter' = 0
  /\ log' = <<>> /\ held' = {} /\ scopes' = Lowered(0)
  /\ outcome' = "ok"

Emptied(c) == [c EXCEPT !.used = 0]

Reset == ResetTo([i \in DOMAIN chunks |-> Emptied(chunks[i])])

ResetAndShrinkToFit == ResetTo(<<Emptied(chunks[1])>>)

-----------------------------------------------------------------------------

Next ==
  \/ \E l \in Layouts : Alloc(l) \/ AllocSlice(l)
  \/ TakeCheckpoint \/ PushCheckpoint \/ ClearCheckpoints
  \/ \E c \in held : RewindToCheckpoint(c)
  \/ EnterScope \/ LeaveScope \/ LeaveScopePanics \/ UnwindScope
  \/ Reset \/ ResetAndShrinkToFit

Spec == Init /\ [][Next]_vars

-----------------------------------------------------------------------------
(* Properties *)

\* Live allocations never share a byte and lie inside a chunk that exists,
\* below its `used`, whatever the order of rewinds, unwinding scopes and resets
\* inside scopes; and current_chunk names a chunk, so that checkpoint, which
\* does not clamp it, never indexes past the vector.
LiveBlocksSound ==
  /\ current_chunk \in DOMAIN chunks
  /\ \A i \in DOMAIN log :
       log[i].lo < log[i].hi =>
         /\ log[i].chunk \in 1..current_chunk
         /\ log[i].hi <= chunks[log[i].chunk].used
         /\ log[i].hi <= chunks[log[i].chunk].capacity
         /\ \A j \in DOMAIN log \ {i} :
              log[j].lo < log[j].hi =>
                log[i].chunk # log[j].chunk \/ log[i].hi <= log[j].lo \/ log[j].hi <= log[i].lo

Below(b, c) ==
  b.lo < b.hi => \/ b.chunk < c.chunk_index
                 \/ b.chunk = c.chunk_index /\ b.hi <= c.chunk_offset

\* Leaving a scope, or rewinding to a held checkpoint, keeps every allocation
\* that was live when it was taken and not released since.
RewindKeepsEarlierAllocations ==
  \A c \in held \cup {scopes[i] : i \in DOMAIN scopes} :
    c.mark <= Len(log) /\ \A i \in 1..c.mark : Below(log[i], c)

=============================================================================

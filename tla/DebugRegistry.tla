--------------------------- MODULE DebugRegistry ---------------------------
(***************************************************************************)
(* The debug build's registry of allocations (src/debug.rs), one static    *)
(* behind a RwLock, and the arenas that report to it from their threads.   *)
(* A step is what an arena does between two acquisitions of that lock; an  *)
(* arena itself belongs to one thread at a time.  Of an arena the model    *)
(* keeps what decides which allocations are live: their order, and the     *)
(* checkpoints (open scopes included) with the number of allocations each  *)
(* one keeps.                                                              *)
(*                                                                         *)
(* allocate_with_guard copies every allocation into a block of its own,    *)
(* which is never freed, so a pointer is named by its arena and a serial   *)
(* number.  A rewind taints a byte of the guard in front of the pointer.   *)
(***************************************************************************)
EXTENDS Integers, Sequences, FiniteSets, Functions

CONSTANTS
  Arenas,      \* the arenas there ever are; each has its own arena_id
  Nil,         \* no entry in arena_checkpoints
  MaxAllocs,   \* bound: allocations made by arenas that live
  MaxMarks,    \* bound: checkpoints that may be rewound to
  MaxId        \* bound: checkpoint ids in use

ASSUME DebugAssumption == Nil \notin Nat /\ MaxId \in Nat

VARIABLES
  allocations,             \* per arena, the Vec of AllocationInfo: [ptr, checkpoint_id]
  arena_checkpoints,       \* per arena, the current checkpoint, or Nil
  tainted,                 \* per arena, the pointers whose guard was overwritten
  phase,                   \* what the arena is doing
  log,                     \* per arena, the live allocations, oldest first
  serial,                  \* per arena, the number of guarded blocks made
  current_checkpoint_id,
  checkpoints,             \* per arena, the checkpoints that may be rewound to
  crossed,                 \* per arena, did another one's rewind reach its entries?
  overtaken,               \* per arena, was one of its checkpoints rewound to after
                           \* a rewind to an older one had taken its id back?
  rewound                  \* per arena, the pointers its rewinds released

registry == <<allocations, arena_checkpoints, tainted>>
arena == <<phase, log, serial, current_checkpoint_id, checkpoints>>
history == <<crossed, overtaken, rewound>>
debugVars == <<registry, arena, history>>

DebugInit ==
  /\ allocations = [a \in Arenas |-> <<>>]
  /\ arena_checkpoints = [a \in Arenas |-> Nil]
  /\ tainted = [a \in Arenas |-> {}]
  /\ phase = [a \in Arenas |-> "idle"]
  /\ log = [a \in Arenas |-> <<>>]
  /\ serial = [a \in Arenas |-> 0]
  /\ current_checkpoint_id = [a \in Arenas |-> 0]
  /\ checkpoints = [a \in Arenas |-> {}]
  /\ crossed = [a \in Arenas |-> FALSE]
  /\ overtaken = [a \in Arenas |-> FALSE]
  /\ rewound = [a \in Arenas |-> {}]

-----------------------------------------------------------------------------
(* Allocation *)

\* DebugState::register_allocation
RegisterAllocation(a, ptr) ==
  /\ allocations' = [allocations EXCEPT ![a] =
       Append(@, [ptr |-> ptr, checkpoint_id |-> current_checkpoint_id[a]])]
  /\ arena_checkpoints' = [arena_checkpoints EXCEPT ![a] = current_checkpoint_id[a]]
  /\ UNCHANGED tainted

\* allocate_raw up to the registration inside allocate_with_guard.  From the
\* current chunk a second registration follows, from a new chunk it does not.
AllocateWithGuard(a, next) ==
  /\ phase[a] = "idle"
  /\ SumFunction(serial) < MaxAllocs
  /\ serial' = [serial EXCEPT ![a] = @ + 1]
  /\ RegisterAllocation(a, serial'[a])
  /\ log' = [log EXCEPT ![a] = Append(@, serial'[a])]
  /\ phase' = [phase EXCEPT ![a] = next]
  /\ UNCHANGED <<current_checkpoint_id, checkpoints, history>>

\* allocate_raw registers the guarded pointer again.
RegisterAgain(a) ==
  /\ phase[a] = "registering"
  /\ RegisterAllocation(a, serial[a])
  /\ phase' = [phase EXCEPT ![a] = "idle"]
  /\ UNCHANGED <<log, serial, current_checkpoint_id, checkpoints, history>>

-----------------------------------------------------------------------------
(* Checkpoints and rewinds *)

\* ArenaInner::checkpoint, also by Scope::new.
Checkpoint(a) ==
  /\ phase[a] = "idle"
  /\ current_checkpoint_id[a] < MaxId
  /\ SumFunction([b \in Arenas |-> Cardinality(checkpoints[b])]) < MaxMarks
  /\ checkpoints' = [checkpoints EXCEPT ![a] = @ \cup
       {[id |-> current_checkpoint_id[a], mark |-> Len(log[a]), over |-> FALSE]}]
  /\ current_checkpoint_id' = [current_checkpoint_id EXCEPT ![a] = @ + 1]
  /\ UNCHANGED <<registry, phase, log, serial, history>>

\* The pointers of arena b registered under an id above checkpoint_id.
Later(b, checkpoint_id) ==
  {e.ptr : e \in {f \in Range(allocations[b]) : f.checkpoint_id > checkpoint_id}}

\* debug::rewind_to_checkpoint: DebugState::rewind_to_checkpoint for every
\* arena that has a current checkpoint.
RewindTaintsFromTarget(checkpoint_id) ==
  /\ arena_checkpoints' = [b \in Arenas |->
       IF arena_checkpoints[b] = Nil THEN Nil ELSE checkpoint_id]
  /\ tainted' = [b \in Arenas |-> tainted[b] \cup Later(b, checkpoint_id - 1)]
  /\ UNCHANGED allocations
RewindForgetsTaint(checkpoint_id) ==
  /\ arena_checkpoints' = [b \in Arenas |->
       IF arena_checkpoints[b] = Nil THEN Nil ELSE checkpoint_id]
  /\ UNCHANGED <<allocations, tainted>>
RegistryRewind(checkpoint_id) ==
  /\ arena_checkpoints' = [b \in Arenas |->
       IF arena_checkpoints[b] = Nil THEN Nil ELSE checkpoint_id]
  /\ tainted' = [b \in Arenas |-> tainted[b] \cup Later(b, checkpoint_id)]
  /\ UNCHANGED allocations

\* A rewind to c takes ids above c's back, and leaves the other checkpoints
\* at most what c keeps.
LowerCheckpoints(a, c) ==
  {[id |-> d.id, mark |-> IF d.mark < c.mark THEN d.mark ELSE c.mark,
    over |-> d.over \/ d.id > c.id] : d \in checkpoints[a]}

\* ArenaInner::rewind_to_checkpoint, by the caller or by a scope's exit.
RewindToCheckpoint(a, c) ==
  /\ phase[a] = "idle"
  /\ log' = [log EXCEPT ![a] = SubSeq(@, 1, c.mark)]
  /\ RegistryRewind(c.id)
  /\ current_checkpoint_id' = [current_checkpoint_id EXCEPT ![a] = c.id + 1]
  /\ checkpoints' = [checkpoints EXCEPT ![a] = LowerCheckpoints(a, c)]
  /\ crossed' = [b \in Arenas |-> crossed[b] \/ (b # a /\ Later(b, c.id) # {})]
  /\ overtaken' = [overtaken EXCEPT ![a] = @ \/ c.over]
  /\ rewound' = [rewound EXCEPT ![a] = @ \cup Range(SubSeq(log[a], c.mark + 1, Len(log[a])))]
  /\ UNCHANGED <<phase, serial>>

\* Arena::reset and reset_and_shrink_to_fit do not tell the registry.
ResetArena(a) ==
  /\ phase[a] = "idle"
  /\ log' = [log EXCEPT ![a] = <<>>]
  /\ checkpoints' = [checkpoints EXCEPT ![a] = {[c EXCEPT !.mark = 0] : c \in @}]
  /\ UNCHANGED <<registry, phase, serial, current_checkpoint_id, history>>

\* Dropping the arena drops its DebugAllocator: cleanup_arena.
CleanupLeavesCheckpoint(a) ==
  /\ allocations' = [allocations EXCEPT ![a] = <<>>]
  /\ UNCHANGED arena_checkpoints
CleanupArena(a) ==
  /\ allocations' = [allocations EXCEPT ![a] = <<>>]
  /\ arena_checkpoints' = [arena_checkpoints EXCEPT ![a] = Nil]

DropArena(a) ==
  /\ phase[a] = "idle"
  /\ CleanupArena(a)
  /\ phase' = [phase EXCEPT ![a] = "dropped"]
  /\ log' = [log EXCEPT ![a] = <<>>]
  /\ serial' = [serial EXCEPT ![a] = 0]
  /\ current_checkpoint_id' = [current_checkpoint_id EXCEPT ![a] = 0]
  /\ checkpoints' = [checkpoints EXCEPT ![a] = {}]
  /\ tainted' = [tainted EXCEPT ![a] = {}]
  /\ rewound' = [rewound EXCEPT ![a] = {}]
  /\ crossed' = [crossed EXCEPT ![a] = FALSE]
  /\ overtaken' = [overtaken EXCEPT ![a] = FALSE]

-----------------------------------------------------------------------------

DebugNext ==
  \E a \in Arenas :
    \/ AllocateWithGuard(a, "registering") \/ RegisterAgain(a)
    \/ AllocateWithGuard(a, "idle")
    \/ Checkpoint(a)
    \/ \E c \in checkpoints[a] : RewindToCheckpoint(a, c)
    \/ ResetArena(a) \/ DropArena(a)

DebugSpec == DebugInit /\ [][DebugNext]_debugVars

-----------------------------------------------------------------------------
(* Validation *)

\* The entry validate_allocation finds: the first one with the pointer.
Found(a, ptr) ==
  LET at == {i \in DOMAIN allocations[a] : allocations[a][i].ptr = ptr}
  IN  allocations[a][CHOOSE i \in at : \A j \in at : i <= j]

\* DebugState::validate_allocation: what it may answer.  It reads a whole
\* DebugGuard where only the pre-guard is, so past an intact pre-guard the
\* answer depends on the caller's data.
ValidateAllocation(a, ptr) ==
  IF \A e \in Range(allocations[a]) : e.ptr # ptr THEN {"not found"}
  ELSE IF Found(a, ptr).checkpoint_id > arena_checkpoints[a] THEN {"use after rewind"}
  ELSE IF ptr \in tainted[a] THEN {"corrupted"}
  ELSE {"ok", "corrupted"}

-----------------------------------------------------------------------------
(* Properties *)

\* The registry knows every allocation of every arena that lives, and an arena
\* that has been dropped leaves nothing behind: a rewind that another thread
\* makes at any moment brings no entry back, and loses none.
RegistryFollowsArenas ==
  \A a \in Arenas :
    /\ Range(log[a]) \subseteq {e.ptr : e \in Range(allocations[a])}
    /\ (arena_checkpoints[a] = Nil) = (allocations[a] = <<>>)
    /\ phase[a] = "dropped" => allocations[a] = <<>>

\* A live allocation is neither reported as used after a rewind nor tainted,
\* whatever its own arena has rewound or reset and however ids were reused,
\* as long as no rewind of another arena has reached this one's entries.
NoFalseAlarm ==
  \A a \in Arenas : ~crossed[a] =>
    \A ptr \in Range(log[a]) : "ok" \in ValidateAllocation(a, ptr)

\* Every allocation a rewind released is reported ever after, also once the
\* arena's checkpoint id has grown past it again; unless a checkpoint was used
\* whose id an earlier rewind had given back.
RewoundIsReported ==
  \A a \in Arenas : ~overtaken[a] =>
    \A ptr \in rewound[a] : "ok" \notin ValidateAllocation(a, ptr)

=============================================================================

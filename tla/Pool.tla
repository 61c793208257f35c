-------------------------------- MODULE Pool --------------------------------
(***************************************************************************)
(* arena_b::Pool and its Pooled handles (src/lib.rs): a vector of slots, a *)
(* stack of the free ones and a count of those in use.                     *)
(*                                                                         *)
(* A pooled value may itself own a handle of the same pool.  Dropping it   *)
(* then calls put_back inside put_back, so a drop is a stack of calls,     *)
(* taken in steps; a destructor may also panic and unwind them all.        *)
(***************************************************************************)
EXTENDS Integers, SequencesExt, FiniteSets

CONSTANTS
  Capacities,  \* the capacities the pool may be created with
  Holders,     \* the variables clients keep handles in
  MaxSlots     \* bound: slots ever created

ASSUME PoolAssumption == Capacities \subseteq Nat /\ MaxSlots \in Nat

VARIABLES
  storage,     \* the slots, [full, owns]: owns is the handle inside the value, or 0
  free,        \* the stack of free slots
  in_use,
  handle,      \* the slot of each client's handle, or 0
  dropping     \* the slots of the put_back calls in progress, innermost last

vars == <<storage, free, in_use, handle, dropping>>

EmptySlot == [full |-> FALSE, owns |-> 0]

\* with_capacity
InitialFree(capacity) == [i \in 1..capacity |-> i]

Init ==
  \E capacity \in Capacities :
    /\ storage = [i \in 1..capacity |-> EmptySlot]
    /\ free = InitialFree(capacity)
    /\ in_use = 0
    /\ handle = [h \in Holders |-> 0]
    /\ dropping = <<>>

-----------------------------------------------------------------------------

\* The slot alloc takes: the top of the free stack, or else a new slot.
LastSlot == IF free # <<>> THEN Last(free) ELSE Len(storage)
NextSlot == IF free # <<>> THEN Last(free) ELSE Len(storage) + 1

\* inner.free.pop()
PoppedFree == IF free # <<>> THEN Front(free) ELSE free

\* alloc of a value that owns the handle `inner`, or none if inner is 0.
Alloc(h, inner) ==
  /\ dropping = <<>> /\ handle[h] = 0
  /\ free # <<>> \/ Len(storage) < MaxSlots
  /\ LET grown == IF free # <<>> THEN storage ELSE Append(storage, EmptySlot)
     IN  storage' = [grown EXCEPT ![NextSlot] = [full |-> TRUE, owns |-> inner]]
  /\ handle' = [g \in Holders |-> IF g = h THEN NextSlot
                                  ELSE IF handle[g] = inner THEN 0 ELSE handle[g]]
  /\ free' = PoppedFree
  /\ in_use' = in_use + 1
  /\ UNCHANGED dropping

\* Pooled::drop calls put_back.
DropHandle(h) ==
  /\ dropping = <<>> /\ handle[h] # 0
  /\ dropping' = <<handle[h]>>
  /\ handle' = [handle EXCEPT ![h] = 0]
  /\ UNCHANGED <<storage, free, in_use>>

\* mem::forget: the slot stays in use for good.
Forget(h) ==
  /\ dropping = <<>> /\ handle[h] # 0
  /\ handle' = [handle EXCEPT ![h] = 0]
  /\ UNCHANGED <<storage, free, in_use, dropping>>

-----------------------------------------------------------------------------
(* put_back: `storage[index] = None` drops the old value first *)

\* The value owns a handle: its destructor calls put_back in turn.
DropInner ==
  /\ dropping # <<>>
  /\ LET i == Last(dropping) IN
     /\ storage[i].full /\ storage[i].owns # 0
     /\ dropping' = Append(dropping, storage[i].owns)
     /\ storage' = [storage EXCEPT ![i].owns = 0]
  /\ UNCHANGED <<free, in_use, handle>>

\* The value is gone: empty the slot, count, and put the slot on the stack.
PutBackUncounted ==
  /\ dropping # <<>>
  /\ LET i == Last(dropping) IN
     /\ storage[i].full /\ storage[i].owns = 0
     /\ storage' = [storage EXCEPT ![i] = EmptySlot]
     /\ free' = Append(free, i)
  /\ dropping' = Front(dropping)
  /\ UNCHANGED <<in_use, handle>>
PutBack ==
  /\ dropping # <<>>
  /\ LET i == Last(dropping) IN
     /\ storage[i].full /\ storage[i].owns = 0
     /\ storage' = [storage EXCEPT ![i] = EmptySlot]
     /\ in_use' = in_use - 1
     /\ free' = Append(free, i)
  /\ dropping' = Front(dropping)
  /\ UNCHANGED handle

\* A destructor panics.  The assignment still empties the slot, but what
\* follows it is skipped, in this call and in every call around it.
Unwind ==
  /\ dropping # <<>>
  /\ storage[Last(dropping)].full /\ storage[Last(dropping)].owns = 0
  /\ storage' = [i \in DOMAIN storage |->
                   IF \E k \in DOMAIN dropping : dropping[k] = i
                   THEN EmptySlot ELSE storage[i]]
  /\ dropping' = <<>>
  /\ UNCHANGED <<free, in_use, handle>>

-----------------------------------------------------------------------------

Next ==
  \/ \E h \in Holders :
       \/ Alloc(h, 0)
       \/ \E g \in Holders : handle[g] # 0 /\ Alloc(h, handle[g])
       \/ DropHandle(h) \/ Forget(h)
  \/ DropInner \/ PutBack \/ Unwind

Spec == Init /\ [][Next]_vars

-----------------------------------------------------------------------------
(* Properties *)

\* The places that own a slot: clients' handles, handles inside full slots,
\* and the put_back calls in progress.
Owners(i) ==
  Cardinality({h \in Holders : handle[h] = i})
  + Cardinality({j \in DOMAIN storage : storage[j].full /\ storage[j].owns = i})
  + Cardinality({k \in DOMAIN dropping : dropping[k] = i})

\* No two handles share a slot, a slot somebody has a handle of is full, and
\* a slot on the free stack is there once, empty and nobody's: deref never
\* fails in expect("pooled slot empty"), put_back never meets an empty slot,
\* and alloc's debug_assert!(inner.storage[index].is_none()) holds, however
\* nested, forgotten and panicking drops are mixed.
HandlesAreExclusive ==
  \A i \in DOMAIN storage :
    LET listed == Cardinality({k \in DOMAIN free : free[k] = i})
    IN  /\ Owners(i) + listed <= 1
        /\ Owners(i) = 1 => storage[i].full
        /\ listed = 1 => ~storage[i].full

\* PoolStats: capacity is in_use plus free.  A slot whose destructor panicked
\* is in use for good.
StatsAddUp == Len(storage) = in_use + Len(free)

=============================================================================

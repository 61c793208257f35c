---------------------------- MODULE LockFreePool ----------------------------
(***************************************************************************)
(* arena_b::lockfree::LockFreePool (src/lockfree.rs): a Treiber stack of   *)
(* heap nodes.  try_alloc pops a node, moves the object out and frees the  *)
(* node; dealloc puts an object into a new node and pushes it.             *)
(*                                                                         *)
(* A step is one access to shared memory with the local work around it     *)
(* (the `next` field of a node not yet pushed is local to its thread).     *)
(* The allocator may give a new node the address of any freed one.         *)
(* compare_exchange_weak may fail although the value matches.              *)
(***************************************************************************)
EXTENDS Integers, Sequences, FiniteSets

CONSTANTS
  Threads,
  Consumers,      \* the threads that call try_alloc; all call dealloc
  Objects,        \* the objects that circulate
  Nodes,          \* node addresses
  Null,
  W,              \* usize has W bits
  MaxEvents       \* bound: hits, misses and contention are counted up to this

ASSUME LockFreePoolAssumption ==
  /\ Consumers \subseteq Threads /\ Null \notin Nodes /\ Null \notin Objects
  /\ IsFiniteSet(Threads) /\ IsFiniteSet(Nodes)
  /\ W \in Nat \ {0} /\ MaxEvents \in Nat

VARIABLES
  head,           \* the top of the stack
  node,           \* address -> [allocated, data, next]
  stats,          \* LockFreeStats
  pc,
  top, next,      \* try_alloc's `head` and `next`; dealloc's `node_ptr` and `head`
  outside,        \* object -> number of times clients hold it
  gone            \* has the pool been dropped?

local == <<pc, top, next>>
vars == <<head, node, stats, local, outside, gone>>

FreeNode == [allocated |-> FALSE, data |-> Null, next |-> Null]

Init ==
  /\ head = Null
  /\ node = [n \in Nodes |-> FreeNode]
  /\ stats = [allocations |-> 0, hits |-> 0, misses |-> 0, contention |-> 0]
  /\ pc = [t \in Threads |-> "idle"]
  /\ top = [t \in Threads |-> Null] /\ next = [t \in Threads |-> Null]
  /\ outside = [i \in Objects |-> 1]
  /\ gone = FALSE

Goto(t, label) == pc' = [pc EXCEPT ![t] = label]

\* Hits, misses and contention only grow: MaxEvents stands for that or more.
Bump(n) == IF n < MaxEvents THEN n + 1 ELSE n

\* record_allocation with record_cache_hit, and record_deallocation: the
\* counter of allocations wraps around in both directions.
RecordAllocation ==
  stats' = [stats EXCEPT !.allocations = (@ + 1) % 2^W, !.hits = Bump(@)]
RecordDeallocation ==
  stats' = [stats EXCEPT !.allocations = (@ - 1) % 2^W]

RecordMiss == stats' = [stats EXCEPT !.misses = Bump(@)]
RecordContention == stats' = [stats EXCEPT !.contention = Bump(@)]

\* What a thread reads at an address: the node, or if it has been freed
\* whatever the memory holds.
Read(n) == IF node[n].allocated THEN {node[n]}
           ELSE [allocated : {FALSE}, data : Objects, next : Nodes \cup {Null}]

-----------------------------------------------------------------------------
(* try_alloc *)

\* The test ahead of the loop, on a head of its own.
TryAlloc(t) ==
  /\ ~gone /\ pc[t] = "idle" /\ t \in Consumers
  /\ \/ /\ head = Null
        /\ RecordMiss
        /\ UNCHANGED pc
     \/ /\ head # Null
        /\ Goto(t, "pop_load")
        /\ UNCHANGED stats
  /\ UNCHANGED <<head, node, top, next, outside, gone>>

PopLoad(t) ==
  /\ pc[t] = "pop_load"
  /\ \/ /\ head = Null
        /\ RecordMiss
        /\ Goto(t, "idle")
        /\ UNCHANGED top
     \/ /\ head # Null
        /\ top' = [top EXCEPT ![t] = head]
        /\ Goto(t, "pop_next")
        /\ UNCHANGED stats
  /\ UNCHANGED <<head, node, next, outside, gone>>

PopNext(t) ==
  /\ pc[t] = "pop_next"
  /\ \E n \in Read(top[t]) : next' = [next EXCEPT ![t] = n.next]
  /\ Goto(t, "pop_cas")
  /\ UNCHANGED <<head, node, stats, top, outside, gone>>

PopSucceedsAlways(t) ==
  /\ pc[t] = "pop_cas"
  /\ head' = next[t]
  /\ Goto(t, "pop_take")
  /\ UNCHANGED <<node, stats, top, next, outside, gone>>
PopKeepsHead(t) ==
  /\ pc[t] = "pop_cas" /\ head = top[t]
  /\ Goto(t, "pop_take")
  /\ UNCHANGED <<head, node, stats, top, next, outside, gone>>
PopSucceeds(t) ==
  /\ pc[t] = "pop_cas" /\ head = top[t]
  /\ head' = next[t]
  /\ Goto(t, "pop_take")
  /\ UNCHANGED <<node, stats, top, next, outside, gone>>

PopFailsInPlace(t) ==
  /\ pc[t] = "pop_cas"
  /\ RecordContention
  /\ UNCHANGED <<head, node, local, outside, gone>>
PopFails(t) ==
  /\ pc[t] = "pop_cas"
  /\ RecordContention
  /\ Goto(t, "pop_load")
  /\ UNCHANGED <<head, node, top, next, outside, gone>>

\* Count, move the object out, free the node, return the object.
TakeUncounted(t) ==
  /\ pc[t] = "pop_take"
  /\ \E n \in Read(top[t]) : outside' = [outside EXCEPT ![n.data] = @ + 1]
  /\ node' = [node EXCEPT ![top[t]] = FreeNode]
  /\ top' = [top EXCEPT ![t] = Null] /\ next' = [next EXCEPT ![t] = Null]
  /\ Goto(t, "idle")
  /\ UNCHANGED <<head, stats, gone>>
Take(t) ==
  /\ pc[t] = "pop_take"
  /\ RecordAllocation
  /\ \E n \in Read(top[t]) : outside' = [outside EXCEPT ![n.data] = @ + 1]
  /\ node' = [node EXCEPT ![top[t]] = FreeNode]
  /\ top' = [top EXCEPT ![t] = Null] /\ next' = [next EXCEPT ![t] = Null]
  /\ Goto(t, "idle")
  /\ UNCHANGED <<head, gone>>

-----------------------------------------------------------------------------
(* dealloc *)

Dealloc(t) ==
  /\ ~gone /\ pc[t] = "idle"
  /\ \E i \in Objects, n \in Nodes :
       /\ outside[i] > 0 /\ ~node[n].allocated
       /\ outside' = [outside EXCEPT ![i] = @ - 1]
       /\ node' = [node EXCEPT ![n] = [allocated |-> TRUE, data |-> i, next |-> Null]]
       /\ top' = [top EXCEPT ![t] = n]
  /\ Goto(t, "push_load")
  /\ UNCHANGED <<head, stats, next, gone>>

PushLoad(t) ==
  /\ pc[t] = "push_load"
  /\ next' = [next EXCEPT ![t] = head]
  /\ node' = [node EXCEPT ![top[t]].next = head]
  /\ Goto(t, "push_cas")
  /\ UNCHANGED <<head, stats, top, outside, gone>>

PushSucceedsAlways(t) ==
  /\ pc[t] = "push_cas"
  /\ head' = top[t]
  /\ Goto(t, "push_count")
  /\ UNCHANGED <<node, stats, top, next, outside, gone>>
PushSucceeds(t) ==
  /\ pc[t] = "push_cas" /\ head = next[t]
  /\ head' = top[t]
  /\ Goto(t, "push_count")
  /\ UNCHANGED <<node, stats, top, next, outside, gone>>

PushFails(t) ==
  /\ pc[t] = "push_cas"
  /\ RecordContention
  /\ Goto(t, "push_load")
  /\ UNCHANGED <<head, node, top, next, outside, gone>>

PushCount(t) ==
  /\ pc[t] = "push_count"
  /\ RecordDeallocation
  /\ top' = [top EXCEPT ![t] = Null] /\ next' = [next EXCEPT ![t] = Null]
  /\ Goto(t, "idle")
  /\ UNCHANGED <<head, node, outside, gone>>

-----------------------------------------------------------------------------
(* Drop, when the last handle goes *)

\* The addresses met when following `next` from h.
WalkFrom(h, nodes) ==
  LET at[k \in 0..Cardinality(Nodes)] ==
        IF k = 0 THEN h
        ELSE IF at[k - 1] = Null THEN Null ELSE nodes[at[k - 1]].next
  IN  at

Walk == WalkFrom(head, node)

Linked == {n \in Nodes : \E k \in DOMAIN Walk : Walk[k] = n}

Drop ==
  /\ ~gone /\ \A t \in Threads : pc[t] = "idle"
  /\ gone' = TRUE
  /\ node' = [n \in Nodes |-> IF n \in Linked THEN FreeNode ELSE node[n]]
  /\ head' = Null
  /\ UNCHANGED <<stats, local, outside>>

-----------------------------------------------------------------------------

Step(t) ==
  \/ PopLoad(t) \/ PopNext(t) \/ PopSucceeds(t) \/ PopFails(t) \/ Take(t)
  \/ PushLoad(t) \/ PushSucceeds(t) \/ PushFails(t) \/ PushCount(t)

Next ==
  \/ \E t \in Threads : TryAlloc(t) \/ Dealloc(t) \/ Step(t)
  \/ Drop

\* A thread inside a call is eventually scheduled, and compare_exchange_weak
\* does not fail forever on a value that keeps matching.
Fairness ==
  \A t \in Threads :
    WF_vars(Step(t)) /\ SF_vars(PopSucceeds(t)) /\ SF_vars(PushSucceeds(t))

Spec == Init /\ [][Next]_vars /\ Fairness

-----------------------------------------------------------------------------
(* Properties *)

\* try_alloc never dereferences a node that has been freed: the pool is
\* "thread-safe object pooling with atomic CAS operations" (README.md:83).
NoDanglingAccess ==
  \A t \in Threads : pc[t] \in {"pop_next", "pop_take"} => node[top[t]].allocated

\* The nodes threads own: popped and not yet freed, or not yet pushed.
Private == {top[t] : t \in {u \in Threads : pc[u] \in {"pop_take", "push_load", "push_cas"}}}

\* Every object is in one place: with one client, in one node of the stack,
\* or in the one node of a call in progress.  Dropping the pool frees every
\* node, whatever calls came before.
ObjectsAreConserved ==
  IF gone THEN \A n \in Nodes : ~node[n].allocated
  ELSE \A i \in Objects :
         outside[i] + Cardinality({n \in Linked \cup Private : node[n].data = i}) = 1

Length == Cardinality(Linked)
At(label) == Cardinality({t \in Threads : pc[t] = label})

\* The counter of allocations is minus the length of the stack, in usize
\* arithmetic and up to the calls that have not yet counted themselves:
\* record_deallocation wraps below zero and comes back.
AllocationsMirrorLength ==
  gone \/ (stats.allocations + Length + At("pop_take") - At("push_count")) % 2^W = 0

\* The pool is a stack of objects with atomic operations: the
\* compare_exchange that succeeds is the moment an object enters or leaves.
Contents == [k \in 1..Length |-> node[Walk[k - 1]].data]
NotIn == {i \in Objects : \A k \in DOMAIN Contents : Contents[k] # i}
DroppedWith(i) == gone /\ outside[i] = 0
Stack == INSTANCE ObjectStack
           WITH stack <- Contents, away <- {i \in NotIn : ~DroppedWith(i)}
ImplementsObjectStack == Stack!Spec

\* Lock-freedom: while calls are in progress some call returns, even if a
\* particular one is overtaken again and again.
Returns == \E t \in Threads : pc[t] # "idle" /\ pc'[t] = "idle"
SomeCallReturns ==
  []<>(\A t \in Threads : pc[t] = "idle") \/ []<><<Returns>>_vars

=============================================================================

------------------------- MODULE LockFreePoolProofs -------------------------
(***************************************************************************)
(* Proofs about LockFreePool, for any number of threads, objects, node     *)
(* addresses and any width of usize, as long as at most one thread calls   *)
(* try_alloc: with two, a node can be popped and reused under a thread     *)
(* that is about to pop it (run LockFreePoolConsumers).                    *)
(*                                                                         *)
(* The stack is a linked list in shared memory.  The invariant speaks of   *)
(* it through Chain, the sequence of its nodes: it is a list without       *)
(* repetitions, every allocated node is on it or belongs to one call, and  *)
(* what a call has read of it is still true when its compare_exchange      *)
(* succeeds.                                                               *)
(***************************************************************************)
EXTENDS LockFreePool, FiniteSetTheorems, TLAPS

OneConsumer == \A t, u \in Consumers : t = u

-----------------------------------------------------------------------------
(* The inductive invariant *)

Popping == {"pop_load", "pop_next", "pop_cas", "pop_take"}
Owning == {"pop_take", "push_load", "push_cas"}

NodeRec == [allocated : BOOLEAN, data : Objects \cup {Null}, next : Nodes \cup {Null}]

TypeOK ==
  /\ head \in Nodes \cup {Null}
  /\ node \in [Nodes -> NodeRec]
  /\ stats \in [allocations : Nat, hits : Nat, misses : Nat, contention : Nat]
  /\ pc \in [Threads -> Popping \cup Owning \cup {"idle", "push_count"}]
  /\ top \in [Threads -> Nodes \cup {Null}] /\ next \in [Threads -> Nodes \cup {Null}]
  /\ outside \in [Objects -> Nat]
  /\ gone \in BOOLEAN

\* s is the list that starts at h: each node once, each pointing to the next.
IsList(s, h, nodes) ==
  /\ s \in Seq(Nodes)
  /\ \A j, k \in DOMAIN s : s[j] = s[k] => j = k
  /\ h = IF s = <<>> THEN Null ELSE s[1]
  /\ \A k \in DOMAIN s : nodes[s[k]].next = IF k = Len(s) THEN Null ELSE s[k + 1]

On(s, n) == \E k \in DOMAIN s : s[k] = n

Owns(t, n) == pc[t] \in Owning /\ top[t] = n

\* A thread that pops has seen a node that is still on the stack, with the
\* `next` it still has; a node that is owned is owned by one call and is not
\* on the stack; one that is about to be pushed points where it was read to.
CallsOK(s) ==
  \A t \in Threads :
    /\ pc[t] \in Popping => t \in Consumers
    /\ pc[t] \in {"pop_next", "pop_cas"} => top[t] \in Nodes /\ On(s, top[t])
    /\ pc[t] = "pop_cas" => next[t] = node[top[t]].next
    /\ pc[t] = "push_cas" => next[t] = node[top[t]].next
    /\ pc[t] \in Owning => top[t] \in Nodes /\ ~On(s, top[t])
    /\ \A u \in Threads : pc[t] \in Owning /\ Owns(u, top[t]) => t = u

\* A node is allocated exactly if it is on the stack or owned.
NodesOK(s) ==
  \A n \in Nodes : node[n].allocated <=> On(s, n) \/ \E t \in Threads : Owns(t, n)

Holds(n, i) == node[n].allocated /\ node[n].data = i

\* An object is with one client and in no node, or in one node.
ObjectsOK ==
  /\ \A n \in Nodes : node[n].allocated => node[n].data \in Objects
  /\ \A i \in Objects :
       /\ outside[i] \in {0, 1}
       /\ outside[i] = 1 => \A n \in Nodes : ~Holds(n, i)
       /\ outside[i] = 0 => gone \/ \E n \in Nodes : Holds(n, i)
       /\ \A m, n \in Nodes : Holds(m, i) /\ Holds(n, i) => m = n

GoneOK(s) == gone => s = <<>> /\ \A t \in Threads : pc[t] = "idle"

CountOK(s) ==
  (stats.allocations + Len(s) + At("pop_take") - At("push_count")) % 2^W = 0

Sound(s) ==
  /\ IsList(s, head, node)
  /\ CallsOK(s) /\ NodesOK(s) /\ GoneOK(s) /\ ObjectsOK

Chain == [k \in 1..Length |-> Walk[k - 1]]

IInv == TypeOK /\ Sound(Chain) /\ (gone \/ CountOK(Chain))

-----------------------------------------------------------------------------
(* Following the list *)

\* Induction for a set of natural numbers: among the intervals 1..n whose n is
\* missing from the set, one would be minimal for inclusion.
LEMMA NatSetInduction ==
  ASSUME NEW S, 0 \in S, \A n \in Nat : n \in S => n + 1 \in S
  PROVE  Nat \subseteq S
<1> SUFFICES ASSUME Nat \ S # {} PROVE FALSE
  BY Zenon
<1> DEFINE T == {1..n : n \in Nat \ S}
<1>1. T \subseteq FiniteSubsetsOf(Nat)
  <2>1. \A n \in Nat \ S : IsFiniteSet(1..n)
    BY FS_Interval
  <2> QED
    BY <2>1 DEF FiniteSubsetsOf
<1>2. PICK t \in T : \A u \in T : ~(<<u, t>> \in StrictSubsetOrdering(Nat))
  <2>1. T # {}
    BY Zenon
  <2> HIDE DEF T
  <2> QED
    BY <1>1, <2>1, FS_StrictSubsetOrderingWellFounded, WFMin, Zenon
<1>3. PICK x \in Nat \ S : t = 1..x
  BY Zenon
<1>4. x # 0 /\ x - 1 \in Nat \ S
  OBVIOUS
<1>5. <<1..(x - 1), t>> \in StrictSubsetOrdering(Nat)
  <2>1. x \in 1..x /\ x \notin 1..(x - 1) /\ 1..(x - 1) \subseteq 1..x
    BY <1>4
  <2> QED
    BY <1>3, <2>1 DEF StrictSubsetOrdering
<1> QED
  BY <1>2, <1>4, <1>5, Zenon

\* The indices of a sequence of length m.
LEMMA IntervalFromOne ==
  ASSUME NEW m \in Nat
  PROVE  IsFiniteSet(1..m) /\ Cardinality(1..m) = m
<1>1. IsFiniteSet(1..m) /\ Cardinality(1..m) = IF 1 > m THEN 0 ELSE m - 1 + 1
  <2>1. 1 \in Int /\ m \in Int
    OBVIOUS
  <2> QED
    BY <2>1, FS_Interval, Zenon
<1> QED
  BY <1>1

\* A list has no more nodes than there are.
LEMMA ListLength ==
  ASSUME NEW h, NEW nodes, NEW s, IsList(s, h, nodes)
  PROVE  /\ s \in Seq(Nodes) /\ Len(s) \in Nat /\ DOMAIN s = 1..Len(s)
         /\ Cardinality(Nodes) \in Nat
         /\ Len(s) <= Cardinality(Nodes)
<1>1. s \in Seq(Nodes) /\ Len(s) \in Nat /\ DOMAIN s = 1..Len(s)
  BY DEF IsList
<1>2. Cardinality(Nodes) \in Nat /\ IsFiniteSet(Nodes)
  BY LockFreePoolAssumption, FS_CardinalityType, Zenon
<1>3. s \in Injection(1..Len(s), Nodes)
  BY <1>1 DEF IsList, Injection, IsInjective
<1>4. Cardinality(1..Len(s)) <= Cardinality(Nodes)
  BY <1>2, <1>3, FS_Injection, Zenon
<1>5. Cardinality(1..Len(s)) = Len(s)
  BY <1>1, IntervalFromOne, Zenon
<1> QED
  BY <1>1, <1>2, <1>4, <1>5, Zenon

\* Following `next` from the head of a list meets its nodes, then Null.
LEMMA WalkOfList ==
  ASSUME NEW h, NEW nodes, NEW s, IsList(s, h, nodes)
  PROVE  WalkFrom(h, nodes) =
           [k \in 0..Cardinality(Nodes) |-> IF k < Len(s) THEN s[k + 1] ELSE Null]
<1> DEFINE N == Cardinality(Nodes)
           F(f) == [k \in 0..N |-> IF k = 0 THEN h
                                   ELSE IF f[k - 1] = Null THEN Null
                                   ELSE nodes[f[k - 1]].next]
           w == [k \in 0..N |-> IF k < Len(s) THEN s[k + 1] ELSE Null]
           at == WalkFrom(h, nodes)
<1>1. /\ s \in Seq(Nodes) /\ Len(s) \in Nat /\ DOMAIN s = 1..Len(s)
      /\ N \in Nat /\ Len(s) <= N
  BY ListLength, Zenon
<1>2. w = F(w)
  <2> SUFFICES ASSUME NEW k \in 0..N
               PROVE  w[k] = IF k = 0 THEN h ELSE IF w[k - 1] = Null THEN Null
                             ELSE nodes[w[k - 1]].next
    BY Zenon
  <2>1. CASE k = 0
    BY <1>1, <2>1 DEF IsList
  <2>2. CASE k # 0 /\ k - 1 < Len(s)
    <3>1. w[k - 1] = s[k] /\ k \in DOMAIN s
      BY <1>1, <2>2
    <3>2. w[k - 1] # Null
      BY <1>1, <3>1, LockFreePoolAssumption
    <3>3. nodes[s[k]].next = IF k = Len(s) THEN Null ELSE s[k + 1]
      BY <3>1, Zenon DEF IsList
    <3> QED
      BY <1>1, <2>2, <3>1, <3>2, <3>3
  <2>3. CASE k # 0 /\ ~(k - 1 < Len(s))
    BY <1>1, <2>3
  <2> QED
    BY <2>1, <2>2, <2>3, Zenon
<1>3. at = F(at)
  <2>1. at = CHOOSE f : f = F(f)
    BY Zenon DEF WalkFrom
  <2> HIDE DEF at, w, F
  <2> QED
    BY <1>2, <2>1, Zenon
<1>4. \A k \in 0..N : at[k] = w[k]
  <2> DEFINE S == {k \in Nat : k \in 0..N => at[k] = w[k]}
  <2>0. 0 \in 0..N
    BY <1>1
  <2>1. at[0] = h /\ w[0] = h
    <3> HIDE DEF at, w, N
    <3> QED
      BY <2>0, <1>2, <1>3, Zenon
  <2>2. ASSUME NEW k \in Nat, k \in S PROVE k + 1 \in S
    <3> SUFFICES ASSUME k + 1 \in 0..N PROVE at[k + 1] = w[k + 1]
      OBVIOUS
    <3>1. at[k] = w[k]
      BY <1>1, <2>2
    <3> HIDE DEF at, w
    <3>2. /\ at[k + 1] = IF at[k] = Null THEN Null ELSE nodes[at[k]].next
          /\ w[k + 1] = IF w[k] = Null THEN Null ELSE nodes[w[k]].next
      BY <1>1, <1>2, <1>3
    <3> QED
      BY <3>1, <3>2, Zenon
  <2>3. 0 \in S
    BY <2>1, Zenon
  <2>4. Nat \subseteq S
    <3> HIDE DEF S
    <3> QED
      BY <2>2, <2>3, NatSetInduction, Zenon
  <2> HIDE DEF at, w
  <2> QED
    BY <1>1, <2>4
<1> QED
  <2>1. DOMAIN at = 0..N
    BY <1>3, Zenon
  <2>2. at = [k \in 0..N |-> at[k]]
    <3> HIDE DEF at
    <3> QED
      BY <1>3, Zenon
  <2> QED
    BY <1>4, <2>2, Zenon

Members(s) == {n \in Nodes : On(s, n)}
Reached(w) == {n \in Nodes : \E k \in DOMAIN w : w[k] = n}
FirstReached(w, m) == [k \in 1..m |-> w[k - 1]]

\* A walk along a list meets its members, in order.
LEMMA ListFacts ==
  ASSUME NEW h, NEW nodes, NEW s, IsList(s, h, nodes)
  PROVE  /\ Reached(WalkFrom(h, nodes)) = Members(s)
         /\ Cardinality(Members(s)) = Len(s)
         /\ FirstReached(WalkFrom(h, nodes), Len(s)) = s
<1> DEFINE N == Cardinality(Nodes)
           w == WalkFrom(h, nodes)
<1>1. /\ s \in Seq(Nodes) /\ Len(s) \in Nat /\ DOMAIN s = 1..Len(s)
      /\ N \in Nat /\ Len(s) <= N
  BY ListLength, Zenon
<1>2. w = [k \in 0..N |-> IF k < Len(s) THEN s[k + 1] ELSE Null]
  BY WalkOfList, Zenon
<1> HIDE DEF w
<1>3. Reached(w) = Members(s)
  <2>1. ASSUME NEW n \in Nodes, NEW k \in DOMAIN w, w[k] = n PROVE On(s, n)
    <3>1. k \in 0..N /\ k < Len(s) /\ s[k + 1] = n
      BY <1>2, <2>1, LockFreePoolAssumption, Zenon
    <3>2. k + 1 \in DOMAIN s
      BY <1>1, <3>1
    <3> QED
      BY <3>1, <3>2, Zenon DEF On
  <2>2. ASSUME NEW n \in Nodes, On(s, n) PROVE \E k \in DOMAIN w : w[k] = n
    <3>1. PICK k \in DOMAIN s : s[k] = n
      BY <2>2, Zenon DEF On
    <3>2. k - 1 \in DOMAIN w /\ w[k - 1] = n
      BY <1>1, <1>2, <3>1
    <3> QED
      BY <3>2, Zenon
  <2> QED
    BY <2>1, <2>2, Zenon DEF Reached, Members
<1>4. Cardinality(Members(s)) = Len(s)
  <2>1. s \in Bijection(1..Len(s), Members(s))
    BY <1>1 DEF IsList, On, Members, Bijection, Injection, Surjection, IsInjective
  <2>2. IsFiniteSet(1..Len(s)) /\ Cardinality(1..Len(s)) = Len(s)
    BY <1>1, IntervalFromOne, Zenon
  <2>3. Cardinality(Members(s)) = Cardinality(1..Len(s))
    <3>1. ExistsBijection(1..Len(s), Members(s))
      BY <2>1, Zenon DEF ExistsBijection
    <3> QED
      BY <2>2, <3>1, FS_Bijection, Zenon
  <2> QED
    BY <1>1, <2>2, <2>3, Zenon
<1>5. FirstReached(w, Len(s)) = s
  <2>1. ASSUME NEW k \in 1..Len(s) PROVE w[k - 1] = s[k]
    BY <1>1, <1>2
  <2>2. s = [k \in 1..Len(s) |-> s[k]]
    BY <1>1
  <2> QED
    BY <2>1, <2>2, Zenon DEF FirstReached
<1> QED
  BY <1>3, <1>4, <1>5, Zenon DEF w

\* The operators of the model in a state in which s is the list from the head.
LEMMA ChainIsList ==
  ASSUME NEW s, IsList(s, head, node)
  PROVE  Linked = Members(s) /\ Length = Len(s) /\ Chain = s
<1>1. Reached(Walk) = Members(s) /\ FirstReached(Walk, Len(s)) = s
      /\ Cardinality(Members(s)) = Len(s)
  BY ListFacts, Zenon DEF Walk
<1>2. Linked = Members(s)
  BY <1>1, Zenon DEF Linked, Reached
<1>3. Length = Len(s)
  BY <1>1, <1>2, Zenon DEF Length
<1> QED
  BY <1>1, <1>2, <1>3, Zenon DEF Chain, FirstReached

\* The same of the next state.
LEMMA ChainIsListNext ==
  ASSUME NEW s, IsList(s, head', node')
  PROVE  Linked' = Members(s) /\ Length' = Len(s) /\ Chain' = s
<1>1. Reached(Walk') = Members(s) /\ FirstReached(Walk', Len(s)) = s
      /\ Cardinality(Members(s)) = Len(s)
  BY ListFacts, Zenon DEF Walk
<1>2. Linked' = Members(s)
  BY <1>1, Zenon DEF Linked, Reached
<1>3. Length' = Len(s)
  BY <1>1, <1>2, Zenon DEF Length
<1> QED
  BY <1>1, <1>2, <1>3, Zenon DEF Chain, FirstReached

-----------------------------------------------------------------------------
(* Counting *)

\* 2^W is a positive number: as many as an interval of W elements has subsets.
LEMMA WordSize == 2^W \in Nat \ {0}
<1>1. W \in Nat
  BY LockFreePoolAssumption, Zenon
<1>2. IsFiniteSet(1..W) /\ Cardinality(1..W) = W
  BY <1>1, IntervalFromOne, Zenon
<1>3. IsFiniteSet(SUBSET (1..W)) /\ Cardinality(SUBSET (1..W)) = 2^W
  BY <1>2, FS_SUBSET, Zenon
<1>4. Cardinality(SUBSET (1..W)) \in Nat
  BY <1>3, FS_CardinalityType, Zenon
<1>5. Cardinality(SUBSET (1..W)) # 0
  <2>1. {} \in SUBSET (1..W)
    BY Zenon
  <2> QED
    BY <1>3, <2>1, FS_EmptySet, Zenon
<1> QED
  BY <1>3, <1>4, <1>5, Zenon

\* Quotient and remainder.
LEMMA DivMod ==
  ASSUME NEW M \in Nat \ {0}, NEW a \in Int
  PROVE  a \div M \in Int /\ a % M \in 0..(M - 1) /\ a = (a \div M) * M + (a % M)
OBVIOUS

\* A multiple of the modulus is 0 modulo it, as the counters wrap.
LEMMA MultipleMod ==
  ASSUME NEW M \in Nat \ {0}, NEW q \in Int
  PROVE  (q * M) % M = 0
OBVIOUS

\* Adding c to a counter that wraps at M, and taking c from what it is
\* compared with.
LEMMA WrappedSum ==
  ASSUME NEW M \in Nat \ {0}, NEW a \in Int, NEW b \in Int, NEW c \in Int,
         (a + b) % M = 0
  PROVE  (((a + c) % M) + b - c) % M = 0
<1> DEFINE p == (a + b) \div M
           q == (a + c) \div M
           r == (a + c) % M
<1>1. p \in Int /\ a + b = p * M
  <2>1. a + b \in Int
    OBVIOUS
  <2>2. p \in Int /\ a + b = p * M + ((a + b) % M)
    BY <2>1, DivMod, Zenon
  <2> QED
    BY <2>2
<1>2. q \in Int /\ r \in Int /\ a + c = q * M + r
  <2>1. a + c \in Int
    OBVIOUS
  <2>2. q \in Int /\ r \in 0..(M - 1) /\ a + c = q * M + r
    BY <2>1, DivMod, Zenon
  <2> QED
    BY <2>2
<1> HIDE DEF p, q, r
<1>3. r + b - c = (p - q) * M
  <2>1. (p - q) * M = p * M - q * M /\ p * M \in Int /\ q * M \in Int
    BY <1>1, <1>2
  <2> QED
    BY <1>1, <1>2, <2>1
<1>4. p - q \in Int
  BY <1>1, <1>2
<1>5. ((p - q) * M) % M = 0
  BY <1>4, MultipleMod, Zenon
<1> QED
  BY <1>3, <1>5, Zenon DEF r

\* How many threads are at a label after one of them has moved.
LEMMA AtAfterGoto ==
  ASSUME NEW S, pc \in [Threads -> S], NEW t \in Threads, NEW l, Goto(t, l), NEW label
  PROVE  /\ At(label) \in Nat
         /\ At(label)' = IF pc[t] = label
                         THEN IF l = label THEN At(label) ELSE At(label) - 1
                         ELSE IF l = label THEN At(label) + 1 ELSE At(label)
<1> DEFINE U == {u \in Threads : pc[u] = label}
           V == {u \in Threads : pc'[u] = label}
<1>1. IsFiniteSet(U)
  BY LockFreePoolAssumption, FS_Subset, Zenon
<1>2. /\ Cardinality(U) \in Nat
      /\ Cardinality(U \cup {t}) = IF t \in U THEN Cardinality(U) ELSE Cardinality(U) + 1
      /\ Cardinality(U \ {t}) = IF t \in U THEN Cardinality(U) - 1 ELSE Cardinality(U)
  BY <1>1, FS_CardinalityType, FS_AddElement, FS_RemoveElement, Zenon
<1>3. V = IF l = label THEN U \cup {t} ELSE U \ {t}
  BY Zenon DEF Goto
<1>4. At(label) = Cardinality(U) /\ At(label)' = Cardinality(V)
  BY Zenon DEF At
<1>5. t \in U <=> pc[t] = label
  BY Zenon
<1> HIDE DEF U, V
<1> QED
  BY <1>2, <1>3, <1>4, <1>5, Zenon

-----------------------------------------------------------------------------
(* Types *)

\* The new pool of LockFreePool::new is empty, and so is its list.
LEMMA InitOK == Init => TypeOK /\ Sound(<<>>) /\ CountOK(<<>>)
<1> SUFFICES ASSUME Init PROVE TypeOK /\ Sound(<<>>) /\ CountOK(<<>>)
  BY Zenon
<1>1. TypeOK
  BY Zenon DEF Init, TypeOK, FreeNode, NodeRec
<1>2. DOMAIN <<>> = {} /\ <<>> \in Seq(Nodes)
  OBVIOUS
<1>3. IsList(<<>>, head, node)
  BY <1>2, Zenon DEF IsList, Init
<1>4. CallsOK(<<>>) /\ NodesOK(<<>>) /\ GoneOK(<<>>)
  BY <1>2, Zenon DEF Init, CallsOK, NodesOK, GoneOK, On, Owns, FreeNode, Popping, Owning
<1>5. ObjectsOK
  BY DEF Init, ObjectsOK, Holds, FreeNode
<1>6. CountOK(<<>>)
  <2>1. ASSUME NEW label, label # "idle" PROVE At(label) = 0
    <3>1. {t \in Threads : pc[t] = label} = {}
      BY <2>1, Zenon DEF Init
    <3> QED
      BY <3>1, FS_EmptySet, Zenon DEF At
  <2>2. At("pop_take") = 0 /\ At("push_count") = 0
    BY <2>1, Zenon
  <2>3. stats.allocations = 0 /\ Len(<<>>) = 0
    BY Zenon DEF Init
  <2>4. (0 * 2^W) % 2^W = 0
    BY WordSize, MultipleMod
  <2>5. 0 * 2^W = 0
    BY WordSize
  <2> QED
    BY <2>2, <2>3, <2>4, <2>5 DEF CountOK
<1> QED
  BY <1>1, <1>3, <1>4, <1>5, <1>6, Zenon DEF Sound

\* The record_* calls of the statistics keep the counters natural numbers.
LEMMA StatsType ==
  ASSUME TypeOK, \/ RecordAllocation \/ RecordDeallocation
                 \/ RecordMiss \/ RecordContention \/ UNCHANGED stats
  PROVE  stats' \in [allocations : Nat, hits : Nat, misses : Nat, contention : Nat]
<1>1. \A a \in Int : a % 2^W \in Nat
  BY WordSize, DivMod
<1>2. \A n \in Nat : Bump(n) \in Nat
  BY DEF Bump
<1>3. CASE RecordAllocation
  <2>1. (stats.allocations + 1) % 2^W \in Nat
    BY <1>1 DEF TypeOK
  <2>2. Bump(stats.hits) \in Nat
    BY <1>2, Zenon DEF TypeOK
  <2> QED
    BY <1>3, <2>1, <2>2, Zenon DEF RecordAllocation, TypeOK
<1>4. CASE RecordDeallocation
  <2>1. (stats.allocations - 1) % 2^W \in Nat
    BY <1>1 DEF TypeOK
  <2> QED
    BY <1>4, <2>1, Zenon DEF RecordDeallocation, TypeOK
<1> QED
  BY <1>2, <1>3, <1>4 DEF RecordMiss, RecordContention, TypeOK

\* Every step of try_alloc, dealloc, allocation outside and drop keeps the types.
LEMMA TypeStep ==
  ASSUME TypeOK, NEW s, CallsOK(s), ObjectsOK, Next
  PROVE  TypeOK'
<1>1. ASSUME NEW t \in Threads, TryAlloc(t) \/ Dealloc(t) \/ Step(t)
      PROVE  TypeOK'
  <2>1. stats' \in [allocations : Nat, hits : Nat, misses : Nat, contention : Nat]
    BY <1>1, StatsType, Zenon
       DEF TryAlloc, Dealloc, Step, PopLoad, PopNext, PopSucceeds, PopFails, Take,
           PushLoad, PushSucceeds, PushFails, PushCount
  <2>2. \A l \in Popping \cup Owning \cup {"idle", "push_count"} :
          Goto(t, l) => pc' \in [Threads -> Popping \cup Owning \cup {"idle", "push_count"}]
    BY DEF TypeOK, Goto
  <2>3. pc' \in [Threads -> Popping \cup Owning \cup {"idle", "push_count"}]
    BY <1>1, <2>2, Zenon
       DEF TryAlloc, Dealloc, Step, PopLoad, PopNext, PopSucceeds, PopFails, Take,
           PushLoad, PushSucceeds, PushFails, PushCount, TypeOK, Popping, Owning
  <2>4. CASE TryAlloc(t)
    BY <2>4, <2>1, <2>3, Zenon DEF TryAlloc, TypeOK
  <2>5. CASE Dealloc(t)
    <3>1. PICK i \in Objects, n \in Nodes :
            /\ outside[i] > 0
            /\ outside' = [outside EXCEPT ![i] = @ - 1]
            /\ node' = [node EXCEPT ![n] = [allocated |-> TRUE, data |-> i, next |-> Null]]
            /\ top' = [top EXCEPT ![t] = n]
      BY <2>5, Zenon DEF Dealloc
    <3>2. outside' \in [Objects -> Nat]
      BY <3>1 DEF TypeOK
    <3>3. node' \in [Nodes -> NodeRec]
      BY <3>1, Zenon DEF TypeOK, NodeRec
    <3> QED
      BY <2>5, <2>1, <2>3, <3>1, <3>2, <3>3, Zenon DEF Dealloc, TypeOK
  <2>6. CASE PopLoad(t)
    BY <2>6, <2>1, <2>3 DEF PopLoad, TypeOK
  <2>7. CASE PopNext(t)
    <3>1. top[t] \in Nodes
      BY <2>7, Zenon DEF PopNext, CallsOK
    <3>2. PICK n \in Read(top[t]) : next' = [next EXCEPT ![t] = n.next]
      BY <2>7, Zenon DEF PopNext
    <3>3. n.next \in Nodes \cup {Null}
      BY <3>1, Zenon DEF Read, TypeOK, NodeRec
    <3> QED
      BY <2>7, <2>1, <2>3, <3>2, <3>3, Zenon DEF PopNext, TypeOK
  <2>8. CASE PopSucceeds(t)
    BY <2>8, <2>1, <2>3, Zenon DEF PopSucceeds, TypeOK
  <2>9. CASE PopFails(t)
    BY <2>9, <2>1, <2>3, Zenon DEF PopFails, TypeOK
  <2>10. CASE Take(t)
    <3>1. PICK n \in Read(top[t]) : outside' = [outside EXCEPT ![n.data] = @ + 1]
      BY <2>10, Zenon DEF Take
    <3>2. n.data \in Objects
      <4>1. top[t] \in Nodes
        BY <2>10, Zenon DEF Take, CallsOK, Owning
      <4> QED
        BY <4>1, Zenon DEF Read, ObjectsOK
    <3>3. outside' \in [Objects -> Nat]
      BY <3>1, <3>2 DEF TypeOK
    <3> QED
      BY <2>10, <2>1, <2>3, <3>3, Zenon DEF Take, TypeOK, FreeNode, NodeRec
  <2>11. CASE PushLoad(t)
    BY <2>11, <2>1, <2>3, ZenonT(30) DEF PushLoad, TypeOK, NodeRec
  <2>12. CASE PushSucceeds(t)
    BY <2>12, <2>1, <2>3, Zenon DEF PushSucceeds, TypeOK
  <2>13. CASE PushFails(t)
    BY <2>13, <2>1, <2>3, Zenon DEF PushFails, TypeOK
  <2>14. CASE PushCount(t)
    BY <2>14, <2>1, <2>3, Zenon DEF PushCount, TypeOK
  <2> QED
    BY <1>1, <2>4, <2>5, <2>6, <2>7, <2>8, <2>9, <2>10, <2>11, <2>12, <2>13, <2>14, Zenon
       DEF Step
<1>2. CASE Drop
  BY <1>2, Zenon DEF Drop, local, TypeOK, FreeNode, NodeRec
<1> QED
  BY <1>1, <1>2, Zenon DEF Next

-----------------------------------------------------------------------------
(* The steps, each with the list it leaves *)

\* The steps that read the stack, give up on it or return.
Reads(t) ==
  \/ TryAlloc(t) \/ PopLoad(t) \/ PopNext(t) \/ PopFails(t) \/ PushFails(t) \/ PushCount(t)

\* The loads, and the compare_exchange that fails, leave the list as it is.
LEMMA ReadsPreserve ==
  ASSUME TypeOK, NEW s, Sound(s), NEW t \in Threads, Reads(t)
  PROVE  Sound(s)'
<1> USE DEF Popping, Owning
<1>1. head' = head /\ node' = node /\ outside' = outside /\ gone' = gone
  BY Zenon DEF Reads, TryAlloc, PopLoad, PopNext, PopFails, PushFails, PushCount
<1>2. /\ \A u \in Threads \ {t} : pc'[u] = pc[u] /\ top'[u] = top[u] /\ next'[u] = next[u]
      /\ pc'[t] \in Owning <=> pc[t] \in Owning
      /\ pc[t] \in Owning => top'[t] = top[t]
  BY DEF Reads, TryAlloc, PopLoad, PopNext, PopFails, PushFails, PushCount, Goto, TypeOK
<1>3. \A u \in Threads, n \in Nodes : Owns(u, n)' <=> Owns(u, n)
  BY <1>2, Zenon DEF Owns
<1>4. NodesOK(s)'
  BY <1>1, <1>3, Zenon DEF Sound, NodesOK
<1>5. ObjectsOK'
  BY <1>1, Zenon DEF Sound, ObjectsOK, Holds
<1>6. IsList(s, head, node)'
  BY <1>1, Zenon DEF Sound
<1>7. ~gone \/ pc[t] # "idle"
  BY Zenon DEF Reads, TryAlloc, PopLoad, PopNext, PopFails, PushFails, PushCount
<1>8. ~gone
  BY <1>7, Zenon DEF Sound, GoneOK
<1>9. CallsOK(s)'
  <2>1. ASSUME NEW u \in Threads, u # t
        PROVE  /\ pc'[u] \in Popping => u \in Consumers
               /\ pc'[u] \in {"pop_next", "pop_cas"} => top'[u] \in Nodes /\ On(s, top'[u])
               /\ pc'[u] = "pop_cas" => next'[u] = node'[top'[u]].next
               /\ pc'[u] = "push_cas" => next'[u] = node'[top'[u]].next
               /\ pc'[u] \in Owning => top'[u] \in Nodes /\ ~On(s, top'[u])
    BY <1>1, <1>2, <2>1, Zenon DEF Sound, CallsOK
  <2>2. /\ pc'[t] \in Popping => t \in Consumers
        /\ pc'[t] \in {"pop_next", "pop_cas"} => top'[t] \in Nodes /\ On(s, top'[t])
        /\ pc'[t] = "pop_cas" => next'[t] = node'[top'[t]].next
        /\ pc'[t] = "push_cas" => next'[t] = node'[top'[t]].next
        /\ pc'[t] \in Owning => top'[t] \in Nodes /\ ~On(s, top'[t])
    <3>1. CASE TryAlloc(t)
      BY <3>1, Zenon DEF TryAlloc, Goto, TypeOK, Sound, CallsOK
    <3>2. CASE PopLoad(t)
      <4>1. head # Null => head \in Nodes /\ On(s, head)
        <5>1. head # Null => 1 \in DOMAIN s /\ head = s[1] /\ s \in Seq(Nodes)
          BY DEF Sound, IsList
        <5> QED
          BY <5>1 DEF On
      <4> QED
        BY <3>2, <4>1, Zenon DEF PopLoad, Goto, TypeOK, Sound, CallsOK
    <3>3. CASE PopNext(t)
      <4>1. top[t] \in Nodes /\ On(s, top[t]) /\ t \in Consumers /\ pc[t] = "pop_next"
        BY <3>3, Zenon DEF PopNext, Sound, CallsOK
      <4>2. node[top[t]].allocated
        BY <4>1, Zenon DEF Sound, NodesOK
      <4>3. next'[t] = node[top[t]].next /\ top' = top
        BY <3>3, <4>2 DEF PopNext, Read, TypeOK
      <4>4. pc'[t] = "pop_cas"
        BY <3>3, Zenon DEF PopNext, Goto, TypeOK
      <4> QED
        BY <1>1, <4>1, <4>3, <4>4, Zenon
    <3>4. CASE PopFails(t)
      BY <3>4, Zenon DEF PopFails, Goto, TypeOK, Sound, CallsOK
    <3>5. CASE PushFails(t)
      BY <3>5, Zenon DEF PushFails, Goto, TypeOK, Sound, CallsOK
    <3>6. CASE PushCount(t)
      BY <3>6, SMTT(30) DEF PushCount, Goto, TypeOK
    <3> QED
      BY <3>1, <3>2, <3>3, <3>4, <3>5, <3>6, ZenonT(30) DEF Reads
  <2>3. \A u, v \in Threads : pc'[u] \in Owning /\ Owns(v, top[u])' => u = v
    BY <1>2 DEF Sound, CallsOK, Owns
  <2> QED
    BY <2>1, <2>2, <2>3, Zenon DEF CallsOK
<1>10. GoneOK(s)'
  BY <1>1, <1>8, Zenon DEF GoneOK
<1> QED
  BY <1>4, <1>5, <1>6, <1>9, <1>10, Zenon DEF Sound

\* Nodes that are not on a list do not matter to it.
LEMMA ListFrame ==
  ASSUME NEW s, NEW h, NEW nodes, IsList(s, h, nodes), NEW nodes2,
         \A n \in Nodes : On(s, n) => nodes2[n].next = nodes[n].next
  PROVE  IsList(s, h, nodes2)
<1>1. \A k \in DOMAIN s : s[k] \in Nodes /\ On(s, s[k])
  BY DEF IsList, On
<1> QED
  BY <1>1, Zenon DEF IsList

\* Taking the data out of the popped node and freeing it: try_alloc owned it alone.
LEMMA TakePreserves ==
  ASSUME TypeOK, NEW s, Sound(s), NEW t \in Threads, Take(t)
  PROVE  Sound(s)'
<1> DEFINE n0 == top[t]
           i0 == node[n0].data
<1> USE DEF Popping, Owning
<1>1. pc[t] = "pop_take" /\ n0 \in Nodes /\ ~On(s, n0) /\ ~gone
  BY Zenon DEF Take, Sound, CallsOK, GoneOK
<1>2. node[n0].allocated /\ i0 \in Objects
  BY <1>1, Zenon DEF Sound, NodesOK, Owns, ObjectsOK
<1>3. /\ head' = head /\ gone' = gone
      /\ node' = [node EXCEPT ![n0] = FreeNode]
      /\ outside' = [outside EXCEPT ![i0] = @ + 1]
  BY <1>2, Zenon DEF Take, Read
<1>4. /\ pc' = [pc EXCEPT ![t] = "idle"] /\ top' = [top EXCEPT ![t] = Null]
      /\ next' = [next EXCEPT ![t] = Null]
  BY Zenon DEF Take, Goto
<1>5. /\ \A u \in Threads \ {t} : pc'[u] = pc[u] /\ top'[u] = top[u] /\ next'[u] = next[u]
      /\ pc'[t] = "idle"
      /\ \A n \in Nodes \ {n0} : node'[n] = node[n]
      /\ ~node'[n0].allocated
  BY <1>1, <1>3, <1>4, Zenon DEF TypeOK, FreeNode
<1> HIDE DEF n0
<1>6. \A u \in Threads, n \in Nodes : Owns(u, n)' <=> Owns(u, n) /\ u # t
  BY <1>5, Zenon DEF Owns
<1>7. \A u \in Threads : Owns(u, n0) => u = t
  BY <1>1, Zenon DEF Sound, CallsOK, n0
<1>8. IsList(s, head, node)'
  <2>1. \A n \in Nodes : On(s, n) => node'[n].next = node[n].next
    BY <1>1, <1>5, Zenon
  <2>2. IsList(s, head, node')
    BY <2>1, ListFrame, Zenon DEF Sound
  <2> QED
    BY <1>3, <2>2, Zenon
<1>9. NodesOK(s)'
  <2> SUFFICES ASSUME NEW n \in Nodes
               PROVE  node'[n].allocated <=> On(s, n) \/ \E u \in Threads : Owns(u, n)'
    BY Zenon DEF NodesOK
  <2>1. CASE n = n0
    BY <1>1, <1>5, <1>6, <1>7, <2>1, Zenon
  <2>2. CASE n # n0
    <3>1. ~Owns(t, n)
      BY <2>2, Zenon DEF Owns, n0
    <3> QED
      BY <1>5, <1>6, <2>2, <3>1, Zenon DEF Sound, NodesOK
  <2> QED
    BY <2>1, <2>2, Zenon
<1>10. CallsOK(s)'
  <2>1. \A u \in Threads \ {t} : pc[u] \in {"pop_next", "pop_cas", "push_cas"} => top[u] # n0
    BY <1>1, <1>7, SMTT(30) DEF Sound, CallsOK, Owns
  <2>2. \A u \in Threads \ {t} :
          pc[u] \in {"pop_next", "pop_cas", "push_cas"} => node'[top[u]] = node[top[u]]
    BY <1>5, <2>1, Zenon DEF Sound, CallsOK
  <2> QED
    BY <1>5, <2>2, SMTT(30) DEF Sound, CallsOK, Owns
<1>11. ObjectsOK'
  <2>1. \A n \in Nodes, i \in Objects : Holds(n, i)' <=> Holds(n, i) /\ n # n0
    BY <1>5, Zenon DEF Holds
  <2>2. outside[i0] = 0 /\ Holds(n0, i0)
    BY <1>1, <1>2, Zenon DEF Sound, ObjectsOK, Holds
  <2>3. \A n \in Nodes : Holds(n, i0) => n = n0
    BY <1>1, <1>2, <2>2, Zenon DEF Sound, ObjectsOK
  <2>4. outside'[i0] = 1 /\ \A i \in Objects \ {i0} : outside'[i] = outside[i]
    BY <1>2, <1>3, <2>2 DEF TypeOK
  <2>5. \A n \in Nodes : node'[n].allocated => node'[n].data \in Objects
    BY <1>5, Zenon DEF Sound, ObjectsOK
  <2>6. \A i \in Objects, n \in Nodes : i # i0 /\ Holds(n, i) => n # n0
    BY Zenon DEF Holds
  <2> HIDE DEF i0
  <2> QED
    BY <1>1, <1>2, <1>3, <2>1, <2>2, <2>3, <2>4, <2>5, <2>6, SMTT(30) DEF Sound, ObjectsOK
<1>12. GoneOK(s)'
  BY <1>1, <1>3, Zenon DEF GoneOK
<1> QED
  BY <1>8, <1>9, <1>10, <1>11, <1>12, Zenon DEF Sound

\* dealloc boxes the object in a node that no other call holds.
LEMMA DeallocPreserves ==
  ASSUME TypeOK, NEW s, Sound(s), NEW t \in Threads, Dealloc(t)
  PROVE  Sound(s)'
<1> USE DEF Popping, Owning
<1>1. PICK i0 \in Objects, n0 \in Nodes :
        /\ outside[i0] > 0 /\ ~node[n0].allocated
        /\ outside' = [outside EXCEPT ![i0] = @ - 1]
        /\ node' = [node EXCEPT ![n0] = [allocated |-> TRUE, data |-> i0, next |-> Null]]
        /\ top' = [top EXCEPT ![t] = n0]
  BY Zenon DEF Dealloc
<1>2. /\ head' = head /\ gone' = gone /\ ~gone /\ pc[t] = "idle" /\ next' = next
      /\ pc' = [pc EXCEPT ![t] = "push_load"]
  BY Zenon DEF Dealloc, Goto
<1>3. ~On(s, n0) /\ \A u \in Threads : ~Owns(u, n0)
  BY <1>1, Zenon DEF Sound, NodesOK
<1>4. /\ \A u \in Threads \ {t} : pc'[u] = pc[u] /\ top'[u] = top[u] /\ next'[u] = next[u]
      /\ pc'[t] = "push_load" /\ top'[t] = n0
      /\ \A n \in Nodes \ {n0} : node'[n] = node[n]
      /\ node'[n0].allocated /\ node'[n0].data = i0
  BY <1>1, <1>2, Zenon DEF TypeOK
<1>5. \A u \in Threads, n \in Nodes : Owns(u, n)' <=> Owns(u, n) \/ (u = t /\ n = n0)
  <2>1. \A n \in Nodes : Owns(t, n)' <=> n = n0
    BY <1>4, Zenon DEF Owns
  <2>2. \A n \in Nodes : ~Owns(t, n)
    BY <1>2, Zenon DEF Owns
  <2>3. \A u \in Threads \ {t}, n \in Nodes : Owns(u, n)' <=> Owns(u, n)
    BY <1>4, Zenon DEF Owns
  <2> QED
    BY <2>1, <2>2, <2>3, Zenon
<1>6. IsList(s, head, node)'
  <2>1. \A n \in Nodes : On(s, n) => node'[n].next = node[n].next
    BY <1>3, <1>4, Zenon
  <2>2. IsList(s, head, node')
    BY <2>1, ListFrame, Zenon DEF Sound
  <2> QED
    BY <1>2, <2>2, SMTT(30)
<1>7. NodesOK(s)'
  <2> SUFFICES ASSUME NEW n \in Nodes
               PROVE  node'[n].allocated <=> On(s, n) \/ \E u \in Threads : Owns(u, n)'
    BY Zenon DEF NodesOK
  <2>1. CASE n = n0
    BY <1>4, <1>5, <2>1, Zenon
  <2>2. CASE n # n0
    <3>1. (\E u \in Threads : Owns(u, n)') <=> \E u \in Threads : Owns(u, n)
      BY <1>5, <2>2, SMTT(30)
    <3> QED
      BY <1>4, <2>2, <3>1, Zenon DEF Sound, NodesOK
  <2> QED
    BY <2>1, <2>2, Zenon
<1>8. CallsOK(s)'
  <2>1. \A u \in Threads \ {t} :
          pc[u] \in {"pop_next", "pop_cas", "push_cas"} => top[u] # n0
    BY <1>3, SMTT(30) DEF Sound, CallsOK, Owns
  <2>2. \A u \in Threads \ {t} :
          pc[u] \in {"pop_next", "pop_cas", "push_cas"} => node'[top[u]] = node[top[u]]
    BY <1>4, <2>1, SMTT(30) DEF Sound, CallsOK
  <2>3. \A u, v \in Threads : pc'[u] \in Owning /\ Owns(v, top[u])' => u = v
    BY <1>3, <1>4, SMTT(30) DEF Sound, CallsOK, Owns
  <2> QED
    BY <1>3, <1>4, <2>2, <2>3, SMTT(30) DEF Sound, CallsOK
<1>9. ObjectsOK'
  <2>1. \A n \in Nodes, i \in Objects : Holds(n, i)' <=> Holds(n, i) \/ (n = n0 /\ i = i0)
    <3>1. \A i \in Objects : (Holds(n0, i)' <=> i = i0) /\ ~Holds(n0, i)
      BY <1>1, <1>4, Zenon DEF Holds
    <3>2. \A n \in Nodes \ {n0}, i \in Objects : Holds(n, i)' <=> Holds(n, i)
      BY <1>4, Zenon DEF Holds
    <3> QED
      BY <3>1, <3>2, Zenon
  <2>2. outside[i0] = 1 /\ \A n \in Nodes : ~Holds(n, i0)
    BY <1>1 DEF Sound, ObjectsOK
  <2>3. outside'[i0] = 0 /\ \A i \in Objects \ {i0} : outside'[i] = outside[i]
    BY <1>1, <2>2 DEF TypeOK
  <2>4. \A n \in Nodes : node'[n].allocated => node'[n].data \in Objects
    BY <1>4 DEF Sound, ObjectsOK
  <2> QED
    BY <1>2, <2>1, <2>2, <2>3, <2>4 DEF Sound, ObjectsOK
<1>10. GoneOK(s)'
  BY <1>2, Zenon DEF GoneOK
<1> QED
  BY <1>6, <1>7, <1>8, <1>9, <1>10, Zenon DEF Sound

\* dealloc stores the head it has read into its own node's next.
LEMMA PushLoadPreserves ==
  ASSUME TypeOK, NEW s, Sound(s), NEW t \in Threads, PushLoad(t)
  PROVE  Sound(s)'
<1> DEFINE n0 == top[t]
<1> USE DEF Popping, Owning
<1>1. pc[t] = "push_load" /\ n0 \in Nodes /\ ~On(s, n0) /\ ~gone
  BY Zenon DEF PushLoad, Sound, CallsOK, GoneOK
<1>2. /\ head' = head /\ gone' = gone /\ outside' = outside /\ top' = top
      /\ node' = [node EXCEPT ![n0].next = head]
      /\ next' = [next EXCEPT ![t] = head] /\ pc' = [pc EXCEPT ![t] = "push_cas"]
  BY Zenon DEF PushLoad, Goto
<1>3. /\ \A u \in Threads \ {t} : pc'[u] = pc[u] /\ next'[u] = next[u]
      /\ pc'[t] = "push_cas" /\ next'[t] = head
      /\ \A n \in Nodes \ {n0} : node'[n] = node[n]
      /\ node'[n0].next = head
      /\ \A n \in Nodes : node'[n].data = node[n].data /\ node'[n].allocated = node[n].allocated
  BY <1>1, <1>2 DEF TypeOK, NodeRec
<1> HIDE DEF n0
<1>4. \A u \in Threads, n \in Nodes : Owns(u, n)' <=> Owns(u, n)
  BY <1>1, <1>2, <1>3, SMTT(30) DEF Owns
<1>5. \A u \in Threads : Owns(u, n0) => u = t
  BY <1>1, Zenon DEF Sound, CallsOK, n0
<1>6. IsList(s, head, node)'
  <2>1. \A n \in Nodes : On(s, n) => node'[n].next = node[n].next
    BY <1>1, <1>3, Zenon
  <2>2. IsList(s, head, node')
    BY <2>1, ListFrame, Zenon DEF Sound
  <2> QED
    BY <1>2, <2>2, SMTT(30)
<1>7. NodesOK(s)'
  BY <1>3, <1>4, ZenonT(30) DEF Sound, NodesOK
<1>8. CallsOK(s)'
  <2>1. \A u \in Threads \ {t} : pc[u] \in {"pop_next", "pop_cas", "push_cas"} => top[u] # n0
    BY <1>1, <1>5, SMTT(30) DEF Sound, CallsOK, Owns
  <2>2. \A u \in Threads \ {t} :
          pc[u] \in {"pop_next", "pop_cas", "push_cas"} => node'[top[u]] = node[top[u]]
    BY <1>3, <2>1, Zenon DEF Sound, CallsOK
  <2>3. \A u, v \in Threads : pc'[u] \in Owning /\ Owns(v, top[u])' => u = v
    BY <1>1, <1>2, <1>3 DEF Sound, CallsOK, Owns
  <2>4. next'[t] = node'[top'[t]].next /\ top'[t] \in Nodes /\ ~On(s, top'[t])
    BY <1>1, <1>2, <1>3, Zenon DEF n0
  <2>5. ASSUME NEW u \in Threads, u # t
        PROVE  /\ pc'[u] \in Popping => u \in Consumers
               /\ pc'[u] \in {"pop_next", "pop_cas"} => top'[u] \in Nodes /\ On(s, top'[u])
               /\ pc'[u] = "pop_cas" => next'[u] = node'[top'[u]].next
               /\ pc'[u] = "push_cas" => next'[u] = node'[top'[u]].next
               /\ pc'[u] \in Owning => top'[u] \in Nodes /\ ~On(s, top'[u])
    <3>1. pc'[u] = pc[u] /\ top'[u] = top[u] /\ next'[u] = next[u]
      BY <1>2, <1>3, <2>5, Zenon
    <3>2. pc[u] \in {"pop_next", "pop_cas", "push_cas"} => node'[top[u]] = node[top[u]]
      BY <2>2, <2>5, Zenon
    <3>3. /\ pc[u] \in Popping => u \in Consumers
          /\ pc[u] \in {"pop_next", "pop_cas"} => top[u] \in Nodes /\ On(s, top[u])
          /\ pc[u] = "pop_cas" => next[u] = node[top[u]].next
          /\ pc[u] = "push_cas" => next[u] = node[top[u]].next
          /\ pc[u] \in Owning => top[u] \in Nodes /\ ~On(s, top[u])
      BY Zenon DEF Sound, CallsOK
    <3> QED
      BY <3>1, <3>2, <3>3, Zenon
  <2> QED
    BY <1>3, <2>3, <2>4, <2>5, ZenonT(30) DEF CallsOK
<1>9. ObjectsOK'
  <2>1. \A n \in Nodes, i \in Objects : Holds(n, i)' <=> Holds(n, i)
    BY <1>3, Zenon DEF Holds
  <2> QED
    BY <1>2, <1>3, <2>1, Zenon DEF Sound, ObjectsOK
<1>10. GoneOK(s)'
  BY <1>1, <1>2, Zenon DEF GoneOK
<1> QED
  BY <1>6, <1>7, <1>8, <1>9, <1>10, Zenon DEF Sound

\* A sequence is empty when its length is 0.
LEMMA EmptySeq ==
  ASSUME NEW S, NEW s \in Seq(S)
  PROVE  s = <<>> <=> Len(s) = 0
OBVIOUS

\* A list without its first node.
LEMMA TailList ==
  ASSUME NEW s, NEW h \in Nodes, NEW nodes, IsList(s, h, nodes)
  PROVE  /\ s # <<>> /\ h = s[1] /\ Len(s) \in Nat \ {0} /\ Len(Tail(s)) = Len(s) - 1
         /\ \A k \in DOMAIN Tail(s) : k + 1 \in DOMAIN s /\ Tail(s)[k] = s[k + 1]
         /\ IsList(Tail(s), nodes[h].next, nodes)
         /\ \A n : On(Tail(s), n) <=> On(s, n) /\ n # h
<1>1. s \in Seq(Nodes) /\ s # <<>> /\ h = s[1] /\ Len(s) \in Nat \ {0} /\ 1 \in DOMAIN s
  BY LockFreePoolAssumption DEF IsList
<1>2. /\ Tail(s) \in Seq(Nodes) /\ Len(Tail(s)) = Len(s) - 1
      /\ DOMAIN s = 1..Len(s) /\ DOMAIN Tail(s) = 1..(Len(s) - 1)
      /\ \A k \in DOMAIN Tail(s) : k + 1 \in DOMAIN s /\ Tail(s)[k] = s[k + 1]
  BY <1>1
<1>3. nodes[h].next = IF Tail(s) = <<>> THEN Null ELSE Tail(s)[1]
  <2>1. nodes[h].next = IF 1 = Len(s) THEN Null ELSE s[1 + 1]
    BY <1>1, Zenon DEF IsList
  <2>2. Tail(s) = <<>> <=> Len(s) = 1
    <3>1. Tail(s) = <<>> <=> Len(Tail(s)) = 0
      BY <1>2, EmptySeq, Zenon
    <3> QED
      BY <1>1, <1>2, <3>1
  <2>3. Len(s) # 1 => Tail(s)[1] = s[2]
    BY <1>1, <1>2
  <2> QED
    BY <2>1, <2>2, <2>3
<1>4. \A j, k \in DOMAIN Tail(s) : Tail(s)[j] = Tail(s)[k] => j = k
  BY <1>2 DEF IsList
<1>5. ASSUME NEW k \in DOMAIN Tail(s)
      PROVE  nodes[Tail(s)[k]].next = IF k = Len(Tail(s)) THEN Null ELSE Tail(s)[k + 1]
  <2>1. nodes[s[k + 1]].next = IF k + 1 = Len(s) THEN Null ELSE s[k + 2]
    BY <1>2 DEF IsList
  <2>2. CASE k = Len(Tail(s))
    BY <1>1, <1>2, <2>1, <2>2
  <2>3. CASE k # Len(Tail(s))
    <3>1. k + 1 \in DOMAIN Tail(s) /\ k + 1 # Len(s)
      BY <1>1, <1>2, <2>3
    <3>2. Tail(s)[k + 1] = s[k + 2]
      BY <1>2, <3>1
    <3> QED
      BY <1>2, <2>1, <2>3, <3>1, <3>2, Zenon
  <2> QED
    BY <2>2, <2>3, Zenon
<1>6. IsList(Tail(s), nodes[h].next, nodes)
  BY <1>2, <1>3, <1>4, <1>5, SMTT(30) DEF IsList
<1>7. ASSUME NEW n PROVE On(Tail(s), n) <=> On(s, n) /\ n # h
  <2>1. ASSUME On(Tail(s), n) PROVE On(s, n) /\ n # h
    <3>1. PICK k \in DOMAIN Tail(s) : Tail(s)[k] = n
      BY <2>1, Zenon DEF On
    <3>2. k + 1 \in DOMAIN s /\ s[k + 1] = n /\ k + 1 # 1
      BY <1>2, <3>1
    <3>3. s[k + 1] # s[1]
      BY <1>1, <3>2, Zenon DEF IsList
    <3> QED
      BY <1>1, <3>2, <3>3, Zenon DEF On
  <2>2. ASSUME On(s, n), n # h PROVE On(Tail(s), n)
    <3>1. PICK k \in DOMAIN s : s[k] = n
      BY <2>2, Zenon DEF On
    <3>2. k # 1
      BY <1>1, <2>2, <3>1, Zenon
    <3>3. k - 1 \in DOMAIN Tail(s) /\ Tail(s)[k - 1] = n
      BY <1>1, <1>2, <3>1, <3>2
    <3> QED
      BY <3>3, Zenon DEF On
  <2> QED
    BY <2>1, <2>2, Zenon
<1> QED
  BY <1>1, <1>2, <1>6, <1>7, Zenon

\* A list with a node in front.
LEMMA ConsList ==
  ASSUME NEW s, NEW h, NEW nodes, IsList(s, h, nodes),
         NEW n0 \in Nodes, ~On(s, n0), nodes[n0].next = h
  PROVE  /\ Len(<<n0>> \o s) = Len(s) + 1 /\ (<<n0>> \o s)[1] = n0
         /\ \A k \in DOMAIN s : (<<n0>> \o s)[k + 1] = s[k]
         /\ IsList(<<n0>> \o s, n0, nodes)
         /\ \A n : On(<<n0>> \o s, n) <=> On(s, n) \/ n = n0
<1> DEFINE c == <<n0>> \o s
<1>1. s \in Seq(Nodes) /\ Len(s) \in Nat /\ DOMAIN s = 1..Len(s)
  BY DEF IsList
<1>2. /\ c \in Seq(Nodes) /\ Len(c) = Len(s) + 1 /\ DOMAIN c = 1..(Len(s) + 1)
      /\ c[1] = n0
      /\ \A k \in DOMAIN c \ {1} : k - 1 \in DOMAIN s /\ c[k] = s[k - 1]
      /\ \A k \in DOMAIN s : k + 1 \in DOMAIN c /\ c[k + 1] = s[k]
  BY <1>1
<1> HIDE DEF c
<1>3. \A k \in DOMAIN s : s[k] # n0
  BY Zenon DEF On
<1>4. \A j, k \in DOMAIN c : c[j] = c[k] => j = k
  BY <1>1, <1>2, <1>3 DEF IsList
<1>5. ASSUME NEW k \in DOMAIN c
      PROVE  nodes[c[k]].next = IF k = Len(c) THEN Null ELSE c[k + 1]
  <2>1. CASE k = 1
    <3>1. h = IF Len(s) = 0 THEN Null ELSE s[1]
      BY <1>1 DEF IsList
    <3>2. Len(s) # 0 => c[2] = s[1]
      BY <1>1, <1>2
    <3> QED
      BY <1>1, <1>2, <2>1, <3>1, <3>2
  <2>2. CASE k # 1
    <3>1. k - 1 \in DOMAIN s /\ c[k] = s[k - 1]
      BY <1>2, <2>2, Zenon
    <3>2. nodes[s[k - 1]].next = IF k - 1 = Len(s) THEN Null ELSE s[k]
      <4>1. nodes[s[k - 1]].next = IF k - 1 = Len(s) THEN Null ELSE s[k - 1 + 1]
        BY <3>1, Zenon DEF IsList
      <4>2. k - 1 + 1 = k
        BY <1>2
      <4> QED
        BY <4>1, <4>2, Zenon
    <3>3. k # Len(c) => c[k + 1] = s[k]
      BY <1>1, <1>2, <2>2
    <3> QED
      BY <1>1, <1>2, <3>1, <3>2, <3>3
  <2> QED
    BY <2>1, <2>2, Zenon
<1>6. IsList(c, n0, nodes)
  <2>1. c # <<>>
    BY <1>1, <1>2
  <2> QED
    BY <1>2, <1>4, <1>5, <2>1, Zenon DEF IsList
<1>7. ASSUME NEW n PROVE On(c, n) <=> On(s, n) \/ n = n0
  <2>1. ASSUME On(s, n) PROVE On(c, n)
    BY <1>2, <2>1, Zenon DEF On
  <2>2. On(c, n0)
    BY <1>1, <1>2 DEF On
  <2>3. ASSUME On(c, n), n # n0 PROVE On(s, n)
    BY <1>2, <2>3, SMTT(30) DEF On
  <2> QED
    BY <2>1, <2>2, <2>3, Zenon
<1> QED
  BY <1>1, <1>2, <1>6, <1>7, Zenon DEF c

\* A compare_exchange of try_alloc that succeeds takes the first node off the
\* list: with one consumer, the next it read before is still that node's next.
LEMMA PopPreserves ==
  ASSUME OneConsumer, TypeOK, NEW s, Sound(s), NEW t \in Threads, PopSucceeds(t)
  PROVE  head \in Nodes /\ IsList(s, head, node) /\ Sound(Tail(s))' /\ node' = node
<1> USE DEF Popping, Owning
<1>1. /\ pc[t] = "pop_cas" /\ head = top[t] /\ head \in Nodes
      /\ t \in Consumers /\ next[t] = node[head].next /\ On(s, head)
      /\ IsList(s, head, node) /\ ~gone
  BY Zenon DEF PopSucceeds, Sound, CallsOK, GoneOK
<1>2. /\ head' = node[head].next /\ gone' = gone /\ outside' = outside
      /\ node' = node /\ top' = top /\ next' = next
      /\ \A u \in Threads \ {t} : pc'[u] = pc[u]
      /\ pc'[t] = "pop_take"
  BY <1>1, Zenon DEF PopSucceeds, Goto, TypeOK
<1>3. /\ IsList(Tail(s), node[head].next, node)
      /\ \A n : On(Tail(s), n) <=> On(s, n) /\ n # head
  BY <1>1, TailList, ZenonT(30)
<1>4. IsList(Tail(s), head, node)'
  BY <1>2, <1>3, Zenon
<1>5. \A u \in Threads, n \in Nodes : Owns(u, n)' <=> Owns(u, n) \/ (u = t /\ n = head)
  BY <1>1, <1>2, Zenon DEF Owns
<1>6. \A u \in Threads : ~Owns(u, head)
  BY <1>1, Zenon DEF Sound, CallsOK, Owns
<1>7. NodesOK(Tail(s))'
  <2> SUFFICES ASSUME NEW n \in Nodes
               PROVE  node[n].allocated <=> On(Tail(s), n) \/ \E u \in Threads : Owns(u, n)'
    BY <1>2, Zenon DEF NodesOK
  <2>1. CASE n = head
    <3>1. node[n].allocated /\ Owns(t, n)'
      BY <1>1, <1>5, <2>1, Zenon DEF Sound, NodesOK
    <3> QED
      BY <3>1, SMTT(30)
  <2>2. CASE n # head
    <3>1. (\E u \in Threads : Owns(u, n)') <=> \E u \in Threads : Owns(u, n)
      BY <1>5, <2>2, Zenon
    <3>2. On(Tail(s), n) <=> On(s, n)
      BY <1>3, <2>2, SMTT(30)
    <3> QED
      BY <3>1, <3>2, Zenon DEF Sound, NodesOK
  <2> QED
    BY <2>1, <2>2, Zenon
<1>8. CallsOK(Tail(s))'
  <2>1. \A u \in Threads \ {t} : pc[u] \notin Popping
    BY <1>1, SMTT(30) DEF OneConsumer, Sound, CallsOK
  <2>2. \A u, v \in Threads : pc'[u] \in Owning /\ Owns(v, top[u])' => u = v
    BY <1>1, <1>2, <1>6, SMTT(30) DEF Sound, CallsOK, Owns
  <2>3. ASSUME NEW u \in Threads, u # t
        PROVE  /\ pc'[u] \notin Popping
               /\ pc'[u] = "push_cas" => next'[u] = node'[top'[u]].next
               /\ pc'[u] \in Owning => top'[u] \in Nodes /\ ~On(Tail(s), top'[u])
    BY <1>2, <1>3, <2>1, <2>3, ZenonT(30) DEF Sound, CallsOK
  <2>4. top'[t] \in Nodes /\ ~On(Tail(s), top'[t])
    BY <1>1, <1>2, <1>3, SMTT(30)
  <2> QED
    BY <1>1, <1>2, <2>2, <2>3, <2>4, SMTT(30) DEF CallsOK
<1>9. ObjectsOK'
  BY <1>2, Zenon DEF Sound, ObjectsOK, Holds
<1>10. GoneOK(Tail(s))'
  BY <1>1, <1>2, SMTT(30) DEF GoneOK
<1> QED
  BY <1>1, <1>2, <1>4, <1>7, <1>8, <1>9, <1>10, SMTT(30) DEF Sound

\* A compare_exchange of dealloc that succeeds puts the call's node on the list.
LEMMA PushPreserves ==
  ASSUME TypeOK, NEW s, Sound(s), NEW t \in Threads, PushSucceeds(t),
         NEW n0, n0 = top[t], NEW c, c = <<n0>> \o s
  PROVE  /\ n0 \in Nodes /\ ~On(s, n0) /\ node[n0].next = head /\ IsList(s, head, node)
         /\ Owns(t, n0) /\ node' = node
         /\ Sound(c)'
<1> USE DEF Popping, Owning
<1>1. /\ pc[t] = "push_cas" /\ n0 \in Nodes /\ ~On(s, n0)
      /\ node[n0].next = head /\ IsList(s, head, node) /\ ~gone
  BY Zenon DEF PushSucceeds, Sound, CallsOK, GoneOK
<1>2. /\ head' = n0 /\ gone' = gone /\ outside' = outside
      /\ node' = node /\ top' = top /\ next' = next
      /\ \A u \in Threads \ {t} : pc'[u] = pc[u]
      /\ pc'[t] = "push_count"
  BY <1>1, Zenon DEF PushSucceeds, Goto, TypeOK
<1>3. IsList(c, n0, node) /\ \A n : On(c, n) <=> On(s, n) \/ n = n0
  <2>1. /\ IsList(<<n0>> \o s, n0, node)
        /\ \A n : On(<<n0>> \o s, n) <=> On(s, n) \/ n = n0
    BY <1>1, ConsList, SMTT(30)
  <2> QED
    BY <2>1, ZenonT(30)
<1>4. \A u \in Threads : Owns(u, n0) <=> u = t
  BY <1>1, Zenon DEF Sound, CallsOK, Owns
<1>5. \A u \in Threads, n \in Nodes : Owns(u, n)' <=> Owns(u, n) /\ u # t
  BY <1>2, Zenon DEF Owns
<1>6. IsList(c, head, node)'
  BY <1>2, <1>3, Zenon
<1>7. NodesOK(c)'
  <2> SUFFICES ASSUME NEW n \in Nodes
               PROVE  node[n].allocated <=> On(c, n) \/ \E u \in Threads : Owns(u, n)'
    BY <1>2, Zenon DEF NodesOK
  <2>1. CASE n = n0
    <3>1. node[n].allocated /\ On(c, n)
      BY <1>3, <1>4, <2>1, Zenon DEF Sound, NodesOK
    <3> QED
      BY <3>1, SMTT(30)
  <2>2. CASE n # n0
    <3>1. ~Owns(t, n)
      BY <2>2, Zenon DEF Owns
    <3>2. (\E u \in Threads : Owns(u, n)') <=> \E u \in Threads : Owns(u, n)
      BY <1>5, <3>1, Zenon
    <3>3. On(c, n) <=> On(s, n)
      BY <1>3, <2>2, SMTT(30)
    <3> QED
      BY <3>2, <3>3, Zenon DEF Sound, NodesOK
  <2> QED
    BY <2>1, <2>2, Zenon
<1>8. CallsOK(c)'
  <2>1. \A u, v \in Threads : pc'[u] \in Owning /\ Owns(v, top[u])' => u = v
    BY <1>1, <1>2, ZenonT(30) DEF Sound, CallsOK, Owns
  <2>2. ASSUME NEW u \in Threads, u # t
        PROVE  /\ pc'[u] \in Popping => u \in Consumers
               /\ pc'[u] \in {"pop_next", "pop_cas"} => top'[u] \in Nodes /\ On(c, top'[u])
               /\ pc'[u] = "pop_cas" => next'[u] = node'[top'[u]].next
               /\ pc'[u] = "push_cas" => next'[u] = node'[top'[u]].next
               /\ pc'[u] \in Owning => top'[u] \in Nodes /\ ~On(c, top'[u])
    <3>1. pc[u] \in Owning => top[u] # n0
      BY <1>4, <2>2, SMTT(30) DEF Owns
    <3> QED
      BY <1>2, <1>3, <2>2, <3>1, Zenon DEF Sound, CallsOK
  <2> QED
    BY <1>2, <2>1, <2>2, SMTT(30) DEF CallsOK
<1>9. ObjectsOK'
  BY <1>2, Zenon DEF Sound, ObjectsOK, Holds
<1>10. GoneOK(c)'
  BY <1>1, <1>2, Zenon DEF GoneOK
<1> QED
  BY <1>1, <1>2, <1>4, <1>6, <1>7, <1>8, <1>9, <1>10, ZenonT(30) DEF Sound

\* Drop frees the nodes of the list, when no call is under way.
LEMMA DropPreserves ==
  ASSUME TypeOK, NEW s, Sound(s), Linked = Members(s), Drop
  PROVE  Sound(<<>>)'
<1> USE DEF Popping, Owning
<1>1. /\ \A t \in Threads : pc[t] = "idle" /\ pc'[t] = "idle"
      /\ gone' /\ head' = Null /\ outside' = outside
      /\ node' = [n \in Nodes |-> IF On(s, n) THEN FreeNode ELSE node[n]]
  BY Zenon DEF Drop, local, Members
<1>2. \A t \in Threads, n \in Nodes : ~Owns(t, n) /\ ~Owns(t, n)'
  BY <1>1, Zenon DEF Owns
<1>3. \A n \in Nodes : ~node'[n].allocated
  <2>1. \A n \in Nodes : ~On(s, n) => ~node[n].allocated
    BY <1>2, Zenon DEF Sound, NodesOK
  <2> QED
    BY <1>1, <2>1, Zenon DEF FreeNode
<1>4. DOMAIN <<>> = {} /\ <<>> \in Seq(Nodes) /\ \A n : ~On(<<>>, n)
  BY DEF On
<1>5. IsList(<<>>, head, node)'
  BY <1>1, <1>4, Zenon DEF IsList
<1>6. NodesOK(<<>>)'
  BY <1>2, <1>3, <1>4, ZenonT(30) DEF NodesOK
<1>7. CallsOK(<<>>)'
  BY <1>1, SMTT(30) DEF CallsOK, Owns
<1>8. ObjectsOK'
  <2>1. \A n \in Nodes, i \in Objects : ~Holds(n, i)'
    BY <1>3, Zenon DEF Holds
  <2> QED
    BY <1>1, <1>3, <2>1, Zenon DEF Sound, ObjectsOK
<1>9. GoneOK(<<>>)'
  BY <1>1, Zenon DEF GoneOK
<1> QED
  BY <1>5, <1>6, <1>7, <1>8, <1>9, Zenon DEF Sound

-----------------------------------------------------------------------------
(* The counter of allocations *)

\* How a step of one thread changes the number of threads that have popped and
\* not counted, and of those that have pushed and not counted.
LEMMA CountsAfterGoto ==
  ASSUME TypeOK, NEW t \in Threads, NEW l, Goto(t, l)
  PROVE  /\ At("pop_take") \in Nat /\ At("push_count") \in Nat
         /\ At("pop_take")' = At("pop_take") + (IF l = "pop_take" THEN 1 ELSE 0)
                                             - (IF pc[t] = "pop_take" THEN 1 ELSE 0)
         /\ At("push_count")' = At("push_count") + (IF l = "push_count" THEN 1 ELSE 0)
                                                 - (IF pc[t] = "push_count" THEN 1 ELSE 0)
<1>1. PICK S : pc \in [Threads -> S]
  BY Zenon DEF TypeOK
<1>2. ASSUME NEW label
      PROVE  /\ At(label) \in Nat
             /\ At(label)' = IF pc[t] = label
                             THEN IF l = label THEN At(label) ELSE At(label) - 1
                             ELSE IF l = label THEN At(label) + 1 ELSE At(label)
  BY <1>1, AtAfterGoto, Zenon
<1>3. /\ At("pop_take") \in Nat
      /\ At("pop_take")' = IF pc[t] = "pop_take"
             THEN IF l = "pop_take" THEN At("pop_take") ELSE At("pop_take") - 1
             ELSE IF l = "pop_take" THEN At("pop_take") + 1 ELSE At("pop_take")
  BY <1>2, Zenon
<1>4. /\ At("push_count") \in Nat
      /\ At("push_count")' = IF pc[t] = "push_count"
             THEN IF l = "push_count" THEN At("push_count") ELSE At("push_count") - 1
             ELSE IF l = "push_count" THEN At("push_count") + 1 ELSE At("push_count")
  BY <1>2, Zenon
<1> QED
  BY <1>3, <1>4

\* A call that counts c moves what the counter is compared with by -c.
LEMMA CountMoves ==
  ASSUME TypeOK, NEW s, NEW z, Len(s) \in Nat, Len(z) \in Nat, CountOK(s),
         NEW c \in Int, At("pop_take") \in Nat, At("push_count") \in Nat,
         At("pop_take")' \in Int, At("push_count")' \in Int,
         \/ c = 0 /\ stats'.allocations = stats.allocations
         \/ stats'.allocations = (stats.allocations + c) % 2^W,
         Len(z) + At("pop_take")' - At("push_count")'
           = Len(s) + At("pop_take") - At("push_count") - c
  PROVE  CountOK(z)'
<1> DEFINE a == stats.allocations
           b == Len(s) + At("pop_take") - At("push_count")
           d == Len(z) + At("pop_take")' - At("push_count")'
<1>1. PICK M \in Nat \ {0} : M = 2^W
  BY WordSize, Zenon
<1>2. a \in Int /\ b \in Int /\ d \in Int
  <2>1. a \in Int
    BY DEF TypeOK
  <2>2. b \in Int
    OBVIOUS
  <2>3. d \in Int
    OBVIOUS
  <2> QED
    BY <2>1, <2>2, <2>3, Zenon
<1>3. d = b - c
  OBVIOUS
<1>4. (a + b) % M = 0
  <2>1. stats.allocations + Len(s) + At("pop_take") - At("push_count") = a + b
    BY <1>2, SMTT(30)
  <2> QED
    BY <1>1, <2>1, Zenon DEF CountOK
<1>5. /\ (stats'.allocations + d) % M = 0
      /\ stats'.allocations \in Int
  <2> HIDE DEF b, d
  <2>1. CASE c = 0 /\ stats'.allocations = a
    <3>1. a + d = a + b
      BY <1>2, <1>3, <2>1
    <3> QED
      BY <1>2, <1>4, <2>1, <3>1, Zenon
  <2>2. CASE stats'.allocations = (a + c) % 2^W
    <3> DEFINE r == (a + c) % M
    <3>1. r \in Int
      <4>1. a + c \in Int
        BY <1>2
      <4>2. r \in 0..(M - 1)
        BY <4>1, <1>1, DivMod, Zenon
      <4> QED
        BY <4>2
    <3>2. (r + b - c) % M = 0
      BY <1>1, <1>2, <1>4, WrappedSum, ZenonT(30)
    <3>3. r + b - c = r + d
      <4> HIDE DEF r
      <4> QED
        BY <1>2, <1>3, <3>1, Zenon
    <3>4. stats'.allocations = r
      BY <1>1, <2>2, Zenon
    <3> QED
      BY <3>1, <3>2, <3>3, <3>4, Zenon
  <2> QED
    BY <2>1, <2>2, Zenon
<1>6. stats'.allocations + Len(z) + At("pop_take")' - At("push_count")'
        = stats'.allocations + d
  BY <1>2, <1>5, SMTT(30)
<1> QED
  BY <1>1, <1>5, <1>6, Zenon DEF CountOK

\* Every step leaves a sound list, and the counter in step with its length.
LEMMA StepOK ==
  ASSUME OneConsumer, TypeOK, NEW s, Sound(s), Linked = Members(s), gone \/ CountOK(s), Next
  PROVE  \E z : Sound(z)' /\ (gone \/ CountOK(z))'
<1> DEFINE Labels == Popping \cup Owning \cup {"idle", "push_count"}
<1>1. pc \in [Threads -> Labels] /\ Len(s) \in Nat
  BY ListLength, Zenon DEF TypeOK, Sound
<1>2. ASSUME NEW t \in Threads, pc[t] # "idle" \/ ~gone PROVE CountOK(s)
  BY <1>2, Zenon DEF Sound, GoneOK
<1>3. At("pop_take") \in Nat /\ At("push_count") \in Nat
  <2>1. \A label : IsFiniteSet({t \in Threads : pc[t] = label})
    BY LockFreePoolAssumption, FS_Subset, Zenon
  <2>2. \A label : At(label) \in Nat
    BY <2>1, FS_CardinalityType, Zenon DEF At
  <2> QED
    BY <2>2, Zenon
<1>4. ASSUME NEW t \in Threads, Reads(t) PROVE \E z : Sound(z)' /\ CountOK(z)'
  <2>0. Sound(s)' /\ CountOK(s)
    BY <1>2, <1>4, ReadsPreserve, Zenon
       DEF Reads, TryAlloc, PopLoad, PopNext, PopFails, PushFails, PushCount
  <2>1. CASE PushCount(t)
    <3>1. /\ pc[t] = "push_count" /\ Goto(t, "idle")
          /\ stats'.allocations = (stats.allocations + (-1)) % 2^W
      BY <2>1, Zenon DEF PushCount, RecordDeallocation, TypeOK
    <3>2. /\ At("pop_take")' = At("pop_take")
          /\ At("push_count")' = At("push_count") - 1
      BY <3>1, CountsAfterGoto
    <3>3. PICK c \in Int : c = -1
      OBVIOUS
    <3>4. /\ stats'.allocations = (stats.allocations + c) % 2^W
          /\ At("pop_take")' \in Int /\ At("push_count")' \in Int
          /\ Len(s) + At("pop_take")' - At("push_count")'
               = Len(s) + At("pop_take") - At("push_count") - c
      BY <1>1, <1>3, <3>1, <3>2, <3>3
    <3>5. CountOK(s)'
      BY <1>1, <1>3, <2>0, <3>4, CountMoves, Zenon
    <3> QED
      BY <2>0, <3>5, Zenon
  <2>2. CASE ~PushCount(t)
    <3>1. /\ stats'.allocations = stats.allocations
          /\ \/ pc' = pc
             \/ /\ pc[t] \notin {"pop_take", "push_count"}
                /\ \E l : Goto(t, l) /\ l \notin {"pop_take", "push_count"}
      BY <1>4, <2>2
         DEF Reads, TryAlloc, PopLoad, PopNext, PopFails, PushFails, PushCount,
             RecordMiss, RecordContention, TypeOK
    <3>2. At("pop_take")' = At("pop_take") /\ At("push_count")' = At("push_count")
      <4>1. CASE pc' = pc
        BY <4>1, Zenon DEF At
      <4>2. CASE \E l : Goto(t, l) /\ l \notin {"pop_take", "push_count"}
        <5>1. PICK l : Goto(t, l) /\ l \notin {"pop_take", "push_count"}
          BY <4>2, Zenon
        <5>2. CASE pc' = pc
          BY <5>2, Zenon DEF At
        <5>3. CASE pc[t] \notin {"pop_take", "push_count"}
          BY <5>1, <5>3, CountsAfterGoto
        <5> QED
          BY <3>1, <5>2, <5>3, Zenon
      <4> QED
        BY <3>1, <4>1, <4>2, Zenon
    <3>3. CountOK(s)'
      BY <1>1, <1>3, <2>0, <3>1, <3>2, CountMoves
    <3> QED
      BY <2>0, <3>3, Zenon
  <2> QED
    BY <2>1, <2>2, SMTT(30)
<1>5. ASSUME NEW t \in Threads, Take(t) PROVE \E z : Sound(z)' /\ CountOK(z)'
  <2>1. /\ pc[t] = "pop_take" /\ Goto(t, "idle")
        /\ stats'.allocations = (stats.allocations + 1) % 2^W
    BY <1>5, Zenon DEF Take, RecordAllocation, TypeOK
  <2>2. /\ At("pop_take")' = At("pop_take") - 1
        /\ At("push_count")' = At("push_count")
    BY <2>1, CountsAfterGoto
  <2>3. CountOK(s)'
    BY <1>1, <1>2, <1>3, <2>1, <2>2, CountMoves
  <2> QED
    BY <1>5, <2>3, TakePreserves, Zenon
<1>6. ASSUME NEW t \in Threads, Dealloc(t) \/ PushLoad(t)
      PROVE  \E z : Sound(z)' /\ CountOK(z)'
  <2>1. /\ pc[t] \in {"idle", "push_load"}
        /\ pc[t] # "idle" \/ ~gone
        /\ Goto(t, "push_load") \/ Goto(t, "push_cas")
        /\ stats' = stats
    BY <1>6, Zenon DEF Dealloc, PushLoad
  <2>2. At("pop_take")' = At("pop_take") /\ At("push_count")' = At("push_count")
    <3>1. CASE Goto(t, "push_load")
      BY <2>1, <3>1, CountsAfterGoto
    <3>2. CASE Goto(t, "push_cas")
      BY <2>1, <3>2, CountsAfterGoto
    <3> QED
      BY <2>1, <3>1, <3>2, Zenon
  <2>3. CountOK(s)'
    BY <1>1, <1>2, <1>3, <2>1, <2>2, CountMoves
  <2> QED
    BY <1>6, <2>3, DeallocPreserves, PushLoadPreserves, Zenon
<1>7. ASSUME NEW t \in Threads, PopSucceeds(t) PROVE \E z : Sound(z)' /\ CountOK(z)'
  <2>1. head \in Nodes /\ IsList(s, head, node) /\ Sound(Tail(s))'
    BY <1>7, PopPreserves, Zenon
  <2>2. Len(s) \in Nat \ {0} /\ Len(Tail(s)) = Len(s) - 1
    BY <2>1, TailList, Zenon
  <2>3. pc[t] = "pop_cas" /\ Goto(t, "pop_take") /\ stats' = stats
    BY <1>7, Zenon DEF PopSucceeds
  <2>4. /\ At("pop_take")' = At("pop_take") + 1
        /\ At("push_count")' = At("push_count")
    BY <2>3, CountsAfterGoto
  <2>5. /\ stats'.allocations = stats.allocations
        /\ At("pop_take")' \in Int /\ At("push_count")' \in Int /\ Len(Tail(s)) \in Nat
        /\ Len(Tail(s)) + At("pop_take")' - At("push_count")'
             = Len(s) + At("pop_take") - At("push_count") - 0
    BY <1>1, <1>3, <2>2, <2>3, <2>4, SMTT(30)
  <2>6. CountOK(s) /\ 0 \in Int
    BY <1>2, <2>3
  <2>7. CountOK(Tail(s))'
    BY <1>1, <1>3, <2>5, <2>6, CountMoves, Zenon
  <2> QED
    BY <2>1, <2>7, Zenon
<1>8. ASSUME NEW t \in Threads, PushSucceeds(t) PROVE \E z : Sound(z)' /\ CountOK(z)'
  <2>1. PICK n0 : n0 = top[t]
    BY Zenon
  <2>2. PICK c : c = <<n0>> \o s
    BY Zenon
  <2>3. /\ n0 \in Nodes /\ ~On(s, n0) /\ node[n0].next = head /\ IsList(s, head, node)
        /\ Sound(c)'
    BY <1>8, <2>1, <2>2, PushPreserves, ZenonT(30)
  <2>4. Len(c) = Len(s) + 1
    BY <2>2, <2>3, ConsList
  <2>5. pc[t] = "push_cas" /\ Goto(t, "push_count") /\ stats' = stats
    BY <1>8, Zenon DEF PushSucceeds
  <2>6. /\ At("pop_take")' = At("pop_take")
        /\ At("push_count")' = At("push_count") + 1
    BY <2>5, CountsAfterGoto
  <2>7. /\ stats'.allocations = stats.allocations
        /\ At("pop_take")' \in Int /\ At("push_count")' \in Int /\ Len(c) \in Nat
        /\ Len(c) + At("pop_take")' - At("push_count")'
             = Len(s) + At("pop_take") - At("push_count") - 0
    BY <1>1, <1>3, <2>4, <2>5, <2>6
  <2>8. CountOK(s) /\ 0 \in Int
    BY <1>2, <2>5
  <2>9. CountOK(c)'
    BY <1>1, <1>3, <2>7, <2>8, CountMoves, Zenon
  <2> QED
    BY <2>3, <2>9, Zenon
<1>9. CASE Drop
  <2>1. Sound(<<>>)' /\ gone'
    BY <1>9, DropPreserves, Zenon DEF Drop
  <2> QED
    BY <2>1, Zenon
<1> QED
  BY <1>4, <1>5, <1>6, <1>7, <1>8, <1>9, Zenon DEF Next, Step, Reads

-----------------------------------------------------------------------------
(* Theorems *)

\* A pool starts in the invariant: no nodes, every object with its client.
LEMMA InitInv == Init => IInv
<1> SUFFICES ASSUME Init PROVE IInv
  BY Zenon
<1>1. TypeOK /\ Sound(<<>>) /\ CountOK(<<>>)
  BY InitOK, Zenon
<1>2. Chain = <<>>
  BY <1>1, ChainIsList, Zenon DEF Sound
<1> QED
  BY <1>1, <1>2, Zenon DEF IInv

\* Every step of try_alloc, dealloc and Drop keeps the invariant.
LEMMA NextInv == OneConsumer /\ IInv /\ [Next]_vars => IInv'
<1> SUFFICES ASSUME OneConsumer, IInv, [Next]_vars PROVE IInv'
  BY Zenon
<1>1. PICK s : s = Chain
  BY Zenon
<1>2. TypeOK /\ Sound(s) /\ (gone \/ CountOK(s))
  BY <1>1, Zenon DEF IInv
<1>3. IsList(s, head, node) /\ CallsOK(s) /\ ObjectsOK
  BY <1>2, Zenon DEF Sound
<1>4. CASE Next
  <2>1. Linked = Members(s)
    BY <1>3, ChainIsList, Zenon
  <2>2. PICK z : Sound(z)' /\ (gone \/ CountOK(z))'
    BY <1>2, <1>4, <2>1, StepOK, Zenon
  <2>3. IsList(z, head', node')
    BY <2>2, Zenon DEF Sound
  <2>4. Chain' = z
    BY <2>3, ChainIsListNext, Zenon
  <2>5. TypeOK'
    BY <1>2, <1>3, <1>4, TypeStep, ZenonT(30)
  <2>6. /\ Sound(z)' <=> Sound(Chain)'
        /\ CountOK(z)' <=> CountOK(Chain)'
    BY <2>4 DEF Sound, CountOK, IsList, CallsOK, NodesOK, GoneOK, On
  <2> QED
    BY <2>2, <2>5, <2>6, Zenon DEF IInv
<1>5. CASE UNCHANGED vars
  <2>1. /\ head' = head /\ node' = node /\ stats' = stats /\ pc' = pc /\ top' = top
        /\ next' = next /\ outside' = outside /\ gone' = gone
    BY <1>5, Zenon DEF vars, local
  <2>2. Chain' = s
    BY <1>3, <2>1, ChainIsListNext, Zenon
  <2>3. TypeOK'
    BY <1>2, <2>1, SMTT(30) DEF TypeOK
  <2>4. Sound(Chain)'
    BY <1>2, <2>1, <2>2, SMTT(30)
       DEF Sound, IsList, CallsOK, NodesOK, GoneOK, ObjectsOK, On, Owns, Holds
  <2>5. (gone \/ CountOK(Chain))'
    BY <1>2, <2>1, <2>2, Zenon DEF CountOK, At
  <2> QED
    BY <2>3, <2>4, <2>5, Zenon DEF IInv
<1> QED
  BY <1>4, <1>5, Zenon

\* The invariant holds in every run of the pool with one consumer: what a
\* thread has read of the stack is still so when its compare_exchange succeeds.
THEOREM PoolInvariance == ASSUME OneConsumer PROVE Spec => []IInv
<1>1. OneConsumer
  BY Zenon
<1>2. IInv /\ [Next]_vars => IInv'
  BY <1>1, NextInv, Zenon
<1> QED
  BY <1>2, InitInv, PTL DEF Spec

\* With one thread that takes objects, try_alloc never dereferences a node that
\* has been freed, for any number of threads that give objects back.
THEOREM NoDangling == ASSUME OneConsumer PROVE Spec => []NoDanglingAccess
<1>1. IInv => NoDanglingAccess
  <2> SUFFICES ASSUME IInv, NEW t \in Threads, pc[t] \in {"pop_next", "pop_take"}
               PROVE  node[top[t]].allocated
    BY Zenon DEF NoDanglingAccess
  <2>1. PICK s : s = Chain
    BY Zenon
  <2>2. Sound(s)
    BY <2>1, Zenon DEF IInv
  <2> QED
    BY <2>2, Zenon DEF Sound, CallsOK, NodesOK, Owns, Owning
<1> QED
  BY <1>1, PoolInvariance, PTL

\* The counter of allocations is minus the length of the stack modulo the size
\* of usize, up to the calls that have not counted themselves yet.
THEOREM CounterMirrorsLength ==
  ASSUME OneConsumer PROVE Spec => []AllocationsMirrorLength
<1>1. IInv => AllocationsMirrorLength
  <2> SUFFICES ASSUME IInv PROVE AllocationsMirrorLength
    BY Zenon
  <2>1. PICK s : s = Chain
    BY Zenon
  <2>2. Sound(s) /\ (gone \/ CountOK(s))
    BY <2>1, Zenon DEF IInv
  <2>3. Length = Len(s)
    BY <2>2, ChainIsList, Zenon DEF Sound
  <2> QED
    BY <2>2, <2>3, Zenon DEF AllocationsMirrorLength, CountOK
<1> QED
  BY <1>1, PoolInvariance, PTL

\* No object is lost or handed out twice: each is with one client, in one node
\* of the stack or in the one node of a call in progress, and dropping the pool
\* frees every node.
THEOREM Conservation == ASSUME OneConsumer PROVE Spec => []ObjectsAreConserved
<1>1. IInv => ObjectsAreConserved
  <2> SUFFICES ASSUME IInv PROVE ObjectsAreConserved
    BY Zenon
  <2>1. PICK s : s = Chain
    BY Zenon
  <2>2. TypeOK /\ Sound(s)
    BY <2>1, Zenon DEF IInv
  <2>3. Linked = Members(s)
    BY <2>2, ChainIsList, ZenonT(30) DEF Sound
  <2>4. CASE gone
    <3>1. s = <<>> /\ \A t \in Threads : pc[t] = "idle"
      BY <2>2, <2>4, Zenon DEF Sound, GoneOK
    <3>2. \A n \in Nodes : ~On(s, n) /\ ~\E t \in Threads : Owns(t, n)
      BY <3>1, SMTT(30) DEF On, Owns, Owning
    <3> QED
      BY <2>2, <2>4, <3>2, Zenon DEF ObjectsAreConserved, Sound, NodesOK
  <2>5. ASSUME ~gone, NEW i \in Objects
        PROVE  outside[i] + Cardinality({n \in Linked \cup Private : node[n].data = i}) = 1
    <3> DEFINE P == {n \in Linked \cup Private : node[n].data = i}
    <3>1. \A n : n \in Private <=> \E t \in Threads : Owns(t, n)
      BY SMTT(30) DEF Private, Owns, Owning
    <3>2. \A t \in Threads : \A n : Owns(t, n) => n \in Nodes
      BY <2>2, Zenon DEF Sound, CallsOK, Owns
    <3>3. \A n : n \in Linked <=> n \in Nodes /\ On(s, n)
      BY <2>3, Zenon DEF Members
    <3>4. \A n : n \in P <=> n \in Nodes /\ Holds(n, i)
      BY <2>2, <3>1, <3>2, <3>3, Zenon DEF Sound, NodesOK, Holds
    <3> HIDE DEF P
    <3>5. CASE outside[i] = 1
      <4>1. P = {}
        BY <2>2, <3>4, <3>5, Zenon DEF Sound, ObjectsOK
      <4>2. Cardinality(P) = 0
        BY <4>1, FS_EmptySet, Zenon
      <4> QED
        BY <3>5, <4>2 DEF P
    <3>6. CASE outside[i] = 0
      <4>1. PICK n \in Nodes : Holds(n, i)
        BY <2>2, <2>5, <3>6, SMTT(30) DEF Sound, ObjectsOK
      <4>2. P = {n}
        BY <2>2, <3>4, <4>1, Zenon DEF Sound, ObjectsOK
      <4>3. Cardinality(P) = 1
        BY <4>2, FS_Singleton, Zenon
      <4> QED
        BY <3>6, <4>3, SMTT(30) DEF P
    <3> QED
      BY <2>2, <3>5, <3>6, Zenon DEF Sound, ObjectsOK
  <2> QED
    BY <2>4, <2>5, Zenon DEF ObjectsAreConserved
<1> QED
  BY <1>1, PoolInvariance, PTL

-----------------------------------------------------------------------------
(* The stack of objects *)

\* The objects in the nodes of s, and those that are neither there nor dropped.
DataOf(s, nodes) == [k \in 1..Len(s) |-> nodes[s[k]].data]
AwayFrom(s, nodes, held, dropped) ==
  {i \in Objects : /\ \A k \in 1..Len(s) : nodes[s[k]].data # i
                   /\ ~(dropped /\ held[i] = 0)}

Away == {i \in NotIn : ~DroppedWith(i)}

\* Contents and Away, read along the list.
LEMMA AbstractState ==
  ASSUME NEW s, IsList(s, head, node)
  PROVE  Contents = DataOf(s, node) /\ Away = AwayFrom(s, node, outside, gone)
<1>1. Length = Len(s) /\ Chain = s
  BY ChainIsList, Zenon
<1>2. \A k \in 1..Len(s) : Walk[k - 1] = s[k]
  BY <1>1, Zenon DEF Chain
<1>3. Contents = DataOf(s, node)
  BY <1>1, <1>2, Zenon DEF Contents, DataOf
<1>4. NotIn = {i \in Objects : \A k \in 1..Len(s) : node[s[k]].data # i}
  BY <1>3, Zenon DEF NotIn, DataOf
<1> QED
  BY <1>3, <1>4, Zenon DEF Away, AwayFrom, DroppedWith

\* The same in the state after a step.
LEMMA AbstractStateNext ==
  ASSUME NEW s, IsList(s, head', node')
  PROVE  Contents' = DataOf(s, node') /\ Away' = AwayFrom(s, node', outside', gone')
<1>1. Length' = Len(s) /\ Chain' = s
  BY ChainIsListNext, Zenon
<1>2. \A k \in 1..Len(s) : Walk'[k - 1] = s[k]
  BY <1>1, Zenon DEF Chain
<1>3. Contents' = DataOf(s, node')
  BY <1>1, <1>2, Zenon DEF Contents, DataOf
<1>4. NotIn' = {i \in Objects : \A k \in 1..Len(s) : node'[s[k]].data # i}
  BY <1>3, Zenon DEF NotIn, DataOf
<1> QED
  BY <1>3, <1>4, Zenon DEF Away, AwayFrom, DroppedWith

\* The steps that only read, move private nodes or count are stutters.
LEMMA QuietStep ==
  ASSUME TypeOK, NEW s, Sound(s), NEW t \in Threads,
         Reads(t) \/ Take(t) \/ Dealloc(t) \/ PushLoad(t)
  PROVE  UNCHANGED <<Contents, Away>>
<1>1. Sound(s)'
  BY ReadsPreserve, TakePreserves, DeallocPreserves, PushLoadPreserves, Zenon
<1>2. ~gone /\ ~gone'
  BY DEF Reads, TryAlloc, PopLoad, PopNext, PopFails, PushFails, PushCount, Take, Dealloc,
         PushLoad, Sound, GoneOK
<1>3. \A k \in 1..Len(s) : s[k] \in Nodes /\ On(s, s[k])
  BY DEF Sound, IsList, On
<1>4. \A n \in Nodes : On(s, n) => node'[n].data = node[n].data
  <2>1. CASE Reads(t)
    BY <2>1, SMTT(30) DEF Reads, TryAlloc, PopLoad, PopNext, PopFails, PushFails, PushCount
  <2>2. CASE Take(t)
    BY <2>2, ZenonT(30) DEF Take, Sound, CallsOK, Owning, TypeOK
  <2>3. CASE Dealloc(t)
    BY <2>3, Zenon DEF Dealloc, Sound, NodesOK, TypeOK
  <2>4. CASE PushLoad(t)
    BY <2>4, SMTT(30) DEF PushLoad, Sound, CallsOK, Owning, TypeOK, NodeRec
  <2> QED
    BY <2>1, <2>2, <2>3, <2>4, SMTT(30)
<1>5. DataOf(s, node') = DataOf(s, node)
  BY <1>3, <1>4, Zenon DEF DataOf
<1>6. AwayFrom(s, node', outside', gone') = AwayFrom(s, node, outside, gone)
  BY <1>2, <1>3, <1>4, Zenon DEF AwayFrom
<1>7. IsList(s, head, node) /\ IsList(s, head', node')
  BY <1>1, Zenon DEF Sound
<1>8. Contents = DataOf(s, node) /\ Away = AwayFrom(s, node, outside, gone)
  BY <1>7, AbstractState, Zenon
<1>9. Contents' = DataOf(s, node') /\ Away' = AwayFrom(s, node', outside', gone')
  BY <1>7, AbstractStateNext, Zenon
<1> QED
  BY <1>5, <1>6, <1>8, <1>9, Zenon

\* A sequence is the function of its elements.
LEMMA SeqIsFunction ==
  ASSUME NEW S, NEW a \in Seq(S)
  PROVE  a = [k \in 1..Len(a) |-> a[k]]
BY SMTT(30)

\* What a node of the stack or of a call holds, no other node holds.
LEMMA OneHolder ==
  ASSUME NEW s, Sound(s), NEW m \in Nodes, NEW n \in Nodes, m # n,
         On(s, m) \/ (\E t \in Threads : Owns(t, m)), On(s, n)
  PROVE  node[m].data \in Objects /\ node[m].data # node[n].data
<1>1. node[m].allocated /\ node[n].allocated
  BY SMTT(30) DEF Sound, NodesOK
<1>2. node[m].data \in Objects
  BY <1>1, Zenon DEF Sound, ObjectsOK
<1> QED
  BY <1>1, <1>2, Zenon DEF Sound, ObjectsOK, Holds

\* The compare_exchange of try_alloc that succeeds takes the object on top.
LEMMA PopStep ==
  ASSUME OneConsumer, TypeOK, NEW s, Sound(s), NEW t \in Threads, PopSucceeds(t)
  PROVE  /\ Contents # <<>> /\ Contents' = Tail(Contents)
         /\ Away' = Away \cup {Head(Contents)}
<1>1. head \in Nodes /\ IsList(s, head, node) /\ Sound(Tail(s))' /\ node' = node
  BY PopPreserves, ZenonT(30)
<1>2. /\ head = s[1] /\ Len(s) \in Nat \ {0} /\ Len(Tail(s)) = Len(s) - 1
      /\ \A k \in DOMAIN Tail(s) : Tail(s)[k] = s[k + 1]
      /\ s \in Seq(Nodes)
  <2>1. s \in Seq(Nodes)
    BY <1>1, Zenon DEF IsList
  <2> QED
    BY <1>1, <2>1, TailList, Zenon
<1>3. DOMAIN Tail(s) = 1..(Len(s) - 1)
  BY <1>2
<1>4. ~gone /\ ~gone' /\ outside' = outside
  BY Zenon DEF PopSucceeds, Sound, GoneOK
<1>5. /\ Contents = DataOf(s, node) /\ Away = AwayFrom(s, node, outside, gone)
  BY <1>1, AbstractState, Zenon
<1>6. /\ Contents' = DataOf(Tail(s), node')
      /\ Away' = AwayFrom(Tail(s), node', outside', gone')
  <2>1. IsList(Tail(s), head', node')
    BY <1>1, SMTT(30) DEF Sound
  <2> QED
    BY <2>1, AbstractStateNext, Zenon
<1>7. Contents # <<>> /\ Head(Contents) = node[head].data
  BY <1>2, <1>5 DEF DataOf
<1>8. Contents' = Tail(Contents)
  <2>1. Contents' = [k \in 1..(Len(s) - 1) |-> node[s[k + 1]].data]
    BY <1>1, <1>2, <1>3, <1>6, Zenon DEF DataOf
  <2>2. PICK S : Contents \in Seq(S)
    <3>1. \A k \in 1..Len(s) : Contents[k] \in {node[n].data : n \in Nodes}
      BY <1>2, <1>5, SMTT(30) DEF DataOf
    <3>2. Contents \in Seq({node[n].data : n \in Nodes})
      BY <1>2, <1>5, <3>1, SMTT(30) DEF DataOf
    <3> QED
      BY <3>2, Zenon
  <2>3. Len(Contents) = Len(s) /\ \A k \in 1..(Len(s) - 1) : Contents[k + 1] = node[s[k + 1]].data
    BY <1>2, <1>5, SMTT(30) DEF DataOf
  <2>4. Tail(Contents) \in Seq(S) /\ Len(Tail(Contents)) = Len(s) - 1
    BY <1>2, <1>7, <2>2, <2>3
  <2>5. \A k \in 1..(Len(s) - 1) : Tail(Contents)[k] = Contents[k + 1]
    BY <1>2, <1>7, <2>2, <2>3, <2>4
  <2>6. Tail(Contents) = [k \in 1..(Len(s) - 1) |-> Contents[k + 1]]
    <3>1. Tail(Contents) = [k \in 1..(Len(s) - 1) |-> Tail(Contents)[k]]
      BY <2>4, SeqIsFunction, Zenon
    <3> QED
      BY <2>5, <3>1, Zenon
  <2> QED
    BY <2>1, <2>3, <2>6, SMTT(30)
<1>9. Away' = Away \cup {Head(Contents)}
  <2>1. /\ \A k \in 2..Len(s) : node[s[k]].data # node[head].data
        /\ node[head].data \in Objects
    <3>1. \A k \in 1..Len(s) : s[k] \in Nodes /\ On(s, s[k])
      BY <1>2 DEF On
    <3>2. \A k \in 2..Len(s) : s[k] # head
      BY <1>1, <1>2, SMTT(30) DEF IsList
    <3>3. \A k \in 2..Len(s) : node[s[k]].data # node[head].data
      BY <1>1, <1>2, <3>1, <3>2, OneHolder, SMTT(30)
    <3>4. node[head].data \in Objects
      BY <1>1, <1>2, <3>1, SMTT(30) DEF Sound, NodesOK, ObjectsOK
    <3> QED
      BY <3>3, <3>4, Zenon
  <2>2. \A i \in Objects :
          (\A k \in 1..(Len(s) - 1) : node[s[k + 1]].data # i)
            <=> \A k \in 2..Len(s) : node[s[k]].data # i
    <3>1. \A k \in 1..(Len(s) - 1) : k + 1 \in 2..Len(s)
      BY <1>2
    <3>2. \A k \in 2..Len(s) : k - 1 \in 1..(Len(s) - 1) /\ (k - 1) + 1 = k
      BY <1>2
    <3> QED
      BY <3>1, <3>2, Zenon
  <2>3. Away' = {i \in Objects : \A k \in 2..Len(s) : node[s[k]].data # i}
    BY <1>1, <1>2, <1>3, <1>4, <1>6, <2>2, SMTT(30) DEF AwayFrom
  <2>4. Away = {i \in Objects : \A k \in 1..Len(s) : node[s[k]].data # i}
    BY <1>4, <1>5, Zenon DEF AwayFrom
  <2>5. \A i : (\A k \in 1..Len(s) : node[s[k]].data # i)
                 <=> node[head].data # i /\ \A k \in 2..Len(s) : node[s[k]].data # i
    BY <1>2
  <2>6. \A i : i \in Away' <=> i \in Away \/ i = node[head].data
    BY <2>1, <2>3, <2>4, <2>5, Zenon
  <2> QED
    BY <1>7, <2>6, Zenon
<1> QED
  BY <1>7, <1>8, <1>9, Zenon

\* The compare_exchange of dealloc that succeeds puts an object on top.
LEMMA PushStep ==
  ASSUME TypeOK, NEW s, Sound(s), NEW t \in Threads, PushSucceeds(t)
  PROVE  \E i \in Away : Contents' = <<i>> \o Contents /\ Away' = Away \ {i}
<1>1. PICK n0 : n0 = top[t]
  BY Zenon
<1>2. PICK c : c = <<n0>> \o s
  BY Zenon
<1>3. /\ n0 \in Nodes /\ ~On(s, n0) /\ node[n0].next = head /\ IsList(s, head, node)
      /\ Owns(t, n0) /\ node' = node /\ Sound(c)'
  BY <1>1, <1>2, PushPreserves, Zenon
<1>4. /\ Len(s) \in Nat /\ Len(c) = Len(s) + 1 /\ c[1] = n0
      /\ \A k \in 1..Len(s) : c[k + 1] = s[k] /\ s[k] \in Nodes /\ On(s, s[k])
  <2>1. s \in Seq(Nodes) /\ DOMAIN s = 1..Len(s) /\ Len(s) \in Nat
    BY <1>3, ListLength, ZenonT(30)
  <2>2. /\ Len(c) = Len(s) + 1 /\ c[1] = n0
        /\ \A k \in DOMAIN s : c[k + 1] = s[k]
    BY <1>2, <1>3, <2>1, SMTT(30)
  <2> QED
    BY <2>1, <2>2 DEF On
<1>5. ~gone /\ ~gone' /\ outside' = outside
  BY Zenon DEF PushSucceeds, Sound, GoneOK
<1>6. PICK i : i = node[n0].data
  BY ZenonT(30)
<1>7. /\ i \in Objects
      /\ \A k \in 1..Len(s) : node[s[k]].data # i
  <2>1. node[n0].allocated
    BY <1>3, Zenon DEF Sound, NodesOK
  <2>2. i \in Objects
    BY <1>3, <1>6, <2>1, Zenon DEF Sound, ObjectsOK
  <2>3. \A k \in 1..Len(s) : s[k] # n0
    BY <1>3, <1>4, Zenon
  <2> QED
    BY <1>3, <1>4, <1>6, <2>2, <2>3, OneHolder, ZenonT(30)
<1>8. Contents = DataOf(s, node) /\ Away = AwayFrom(s, node, outside, gone)
  BY <1>3, AbstractState, Zenon
<1>9. Contents' = DataOf(c, node') /\ Away' = AwayFrom(c, node', outside', gone')
  <2>1. IsList(c, head', node')
    BY <1>3, SMTT(30) DEF Sound
  <2> QED
    BY <2>1, AbstractStateNext, Zenon
<1>10. Contents' = <<i>> \o Contents
  <2>1. PICK S : i \in S /\ \A k \in 1..Len(s) : node[s[k]].data \in S
    <3>1. /\ i \in {node[n].data : n \in Nodes}
          /\ \A k \in 1..Len(s) : node[s[k]].data \in {node[n].data : n \in Nodes}
      BY <1>3, <1>4, <1>6, ZenonT(30)
    <3> QED
      BY <3>1, Zenon
  <2>2. Contents \in Seq(S) /\ Len(Contents) = Len(s)
        /\ \A k \in 1..Len(s) : Contents[k] = node[s[k]].data
    BY <1>4, <1>8, <2>1, SMTT(30) DEF DataOf
  <2>3. /\ <<i>> \o Contents \in Seq(S) /\ Len(<<i>> \o Contents) = Len(s) + 1
        /\ (<<i>> \o Contents)[1] = i
        /\ \A k \in 1..Len(s) : (<<i>> \o Contents)[k + 1] = Contents[k]
    BY <1>4, <2>1, <2>2
  <2>4. <<i>> \o Contents = [k \in 1..(Len(s) + 1) |-> (<<i>> \o Contents)[k]]
    BY <2>3, SeqIsFunction, Zenon
  <2>5. \A k \in 1..(Len(s) + 1) : (<<i>> \o Contents)[k] = node[c[k]].data
    <3> SUFFICES ASSUME NEW k \in 1..(Len(s) + 1)
                 PROVE  (<<i>> \o Contents)[k] = node[c[k]].data
      BY Zenon
    <3>1. CASE k = 1
      BY <3>1, <1>4, <1>6, <2>3, Zenon
    <3>2. PICK m : m = k - 1
      BY Zenon
    <3>3. CASE m \in 1..Len(s) /\ k = m + 1
      BY <3>3, <1>4, <2>2, <2>3
    <3>4. k = 1 \/ (m \in 1..Len(s) /\ k = m + 1)
      BY <1>4, <3>2, SMTT(30)
    <3> QED
      BY <3>1, <3>3, <3>4, Zenon
  <2>6. Contents' = [k \in 1..(Len(s) + 1) |-> node[c[k]].data]
    BY <1>3, <1>4, <1>9, Zenon DEF DataOf
  <2> QED
    BY <2>4, <2>5, <2>6, ZenonT(30)
<1>11. \A j : (\A k \in 1..(Len(s) + 1) : node[c[k]].data # j)
                <=> i # j /\ \A k \in 1..Len(s) : node[s[k]].data # j
  <2>1. 1 \in 1..(Len(s) + 1) /\ \A k \in 1..Len(s) : k + 1 \in 1..(Len(s) + 1)
    BY <1>4, SMTT(30)
  <2> QED
    <3> SUFFICES ASSUME NEW j
                 PROVE  (\A k \in 1..(Len(s) + 1) : node[c[k]].data # j)
                          <=> i # j /\ \A k \in 1..Len(s) : node[s[k]].data # j
      BY Zenon
    <3>1. ASSUME \A k \in 1..(Len(s) + 1) : node[c[k]].data # j
          PROVE  i # j /\ \A k \in 1..Len(s) : node[s[k]].data # j
      <4>1. \A k \in 1..Len(s) : node[c[k + 1]].data # j
        BY <2>1, <3>1, SMTT(30)
      <4> QED
        BY <1>4, <1>6, <2>1, <3>1, <4>1, Zenon
    <3>2. ASSUME i # j, \A k \in 1..Len(s) : node[s[k]].data # j,
                 NEW k \in 1..(Len(s) + 1)
          PROVE  node[c[k]].data # j
      <4>1. PICK m : m = k - 1
        BY Zenon
      <4>2. CASE k = 1
        BY <1>4, <1>6, <3>2, <4>2, SMTT(30)
      <4>3. CASE m \in 1..Len(s) /\ k = m + 1
        BY <1>4, <3>2, <4>3, Zenon
      <4> QED
        BY <1>4, <4>1, <4>2, <4>3
    <3> QED
      BY <3>1, <3>2, Zenon
<1>12. /\ Away' = {j \in Objects : \A k \in 1..(Len(s) + 1) : node[c[k]].data # j}
       /\ Away = {j \in Objects : \A k \in 1..Len(s) : node[s[k]].data # j}
  BY <1>3, <1>4, <1>5, <1>8, <1>9, Zenon DEF AwayFrom
<1>13. i \in Away /\ Away' = Away \ {i}
  <2>1. \A j : j \in Away' <=> j \in Away /\ j # i
    BY <1>11, <1>12, Zenon
  <2>2. i \in Away
    BY <1>7, <1>12, Zenon
  <2> QED
    BY <2>1, <2>2, Zenon
<1> QED
  BY <1>10, <1>13, Zenon

\* Drop empties the stack and loses the objects that were in it, and no other.
LEMMA DropStep ==
  ASSUME TypeOK, NEW s, Sound(s), Linked = Members(s), Drop
  PROVE  Contents' = <<>> /\ Away' = Away
<1>1. Sound(<<>>)' /\ IsList(s, head, node)
  BY DropPreserves, Zenon DEF Sound
<1>2. Contents = DataOf(s, node) /\ Away = AwayFrom(s, node, outside, gone)
  BY <1>1, AbstractState, Zenon
<1>3. Contents' = DataOf(<<>>, node') /\ Away' = AwayFrom(<<>>, node', outside', gone')
  <2>1. IsList(<<>>, head', node')
    BY <1>1, Zenon DEF Sound
  <2> QED
    BY <2>1, AbstractStateNext, Zenon
<1>4. ~gone /\ gone' /\ outside' = outside /\ \A t \in Threads : pc[t] = "idle"
  BY Zenon DEF Drop
<1>5. Contents' = <<>>
  BY <1>3 DEF DataOf
<1>6. Away' = {i \in Objects : outside[i] # 0}
  BY <1>3, <1>4 DEF AwayFrom
<1>7. \A i \in Objects : outside[i] = 0 <=> \E k \in 1..Len(s) : node[s[k]].data = i
  <2>1. \A n \in Nodes : node[n].allocated <=> On(s, n)
    BY <1>4, Zenon DEF Sound, NodesOK, Owns, Owning
  <2>2. DOMAIN s = 1..Len(s) /\ \A k \in 1..Len(s) : s[k] \in Nodes /\ On(s, s[k])
    BY <1>1 DEF IsList, On
  <2>3. \A i \in Objects : (\E n \in Nodes : Holds(n, i))
                             <=> \E k \in 1..Len(s) : node[s[k]].data = i
    BY <2>1, <2>2, SMTT(30) DEF Holds, On
  <2>4. \A i \in Objects : outside[i] = 0 <=> \E n \in Nodes : Holds(n, i)
    BY <1>4, Zenon DEF Sound, ObjectsOK
  <2> QED
    BY <2>3, <2>4, SMTT(30)
<1>8. Away = {i \in Objects : \A k \in 1..Len(s) : node[s[k]].data # i}
  BY <1>2, <1>4, Zenon DEF AwayFrom
<1> QED
  BY <1>5, <1>6, <1>7, <1>8, Zenon

\* The pool implements the stack of objects: every step of try_alloc, dealloc
\* and Drop is a push, a pop, the drop of the whole stack, or nothing.
THEOREM PoolIsAStack == ASSUME OneConsumer PROVE Spec => ImplementsObjectStack
<1>0. OneConsumer
  BY Zenon
<1>1. Init => Stack!Init
  <2> SUFFICES ASSUME Init PROVE Contents = <<>>
    BY Zenon DEF Stack!Init
  <2>1. IsList(<<>>, head, node)
    BY InitOK, Zenon DEF Sound
  <2>2. Contents = DataOf(<<>>, node)
    BY <2>1, AbstractState, Zenon
  <2> QED
    BY <2>2 DEF DataOf
<1>2. IInv /\ [Next]_vars => [Stack!Next]_<<Contents, Away>>
  <2> SUFFICES ASSUME IInv, [Next]_vars PROVE [Stack!Next]_<<Contents, Away>>
    BY Zenon
  <2>1. PICK s : s = Chain
    BY Zenon
  <2>2. TypeOK /\ Sound(s)
    BY <2>1, Zenon DEF IInv
  <2>3. IsList(s, head, node) /\ Linked = Members(s)
    BY <2>2, ChainIsList, Zenon DEF Sound
  <2>4. ASSUME NEW t \in Threads, Reads(t) \/ Take(t) \/ Dealloc(t) \/ PushLoad(t)
        PROVE  UNCHANGED <<Contents, Away>>
    BY <2>2, <2>4, QuietStep, Zenon
  <2>5. ASSUME NEW t \in Threads, PopSucceeds(t) PROVE Stack!Next
    BY <1>0, <2>2, <2>5, PopStep, Zenon DEF Stack!Next, Stack!Pop, Away
  <2>6. ASSUME NEW t \in Threads, PushSucceeds(t) PROVE Stack!Next
    BY <2>2, <2>6, PushStep, Zenon DEF Stack!Next, Stack!Push, Away
  <2>7. CASE Drop
    BY <2>2, <2>3, <2>7, DropStep, SMTT(30) DEF Stack!Next, Stack!Drop, Away
  <2>8. CASE UNCHANGED vars
    BY <2>8, ZenonT(30) DEF vars, local, Contents, Away, NotIn, DroppedWith, Length, Linked, Walk
  <2> QED
    BY <2>4, <2>5, <2>6, <2>7, <2>8, Zenon DEF Next, Step, Reads
<1> QED
  BY <1>1, <1>2, PoolInvariance, PTL
     DEF Spec, ImplementsObjectStack, Stack!Spec, Away

=============================================================================

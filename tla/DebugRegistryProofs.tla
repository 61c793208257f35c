------------------------ MODULE DebugRegistryProofs ------------------------
(***************************************************************************)
(* Proofs about DebugRegistry, for any number of arenas, allocations and   *)
(* checkpoints.                                                            *)
(*                                                                         *)
(* None of the properties is inductive.  What validation answers compares  *)
(* ids, which rewinds hand out again; the invariant says what ids still    *)
(* mean: an allocation a checkpoint keeps was registered under an id no    *)
(* larger than the checkpoint's, and one it does not keep under a larger   *)
(* one, unless a rewind to an older checkpoint has taken its id back.      *)
(***************************************************************************)
EXTENDS DebugRegistry, FiniteSetTheorems, TLAPS

EntryRec == [ptr : Nat, checkpoint_id : Nat]
MarkRec == [id : Nat, mark : Nat, over : BOOLEAN]

\* The types of the variables, as functions on arenas.
Shape ==
  /\ allocations \in [Arenas -> Seq(EntryRec)]
  /\ arena_checkpoints \in [Arenas -> Nat \cup {Nil}]
  /\ tainted \in [Arenas -> SUBSET Nat]
  /\ phase \in [Arenas -> {"idle", "registering", "dropped"}]
  /\ log \in [Arenas -> Seq(Nat)]
  /\ serial \in [Arenas -> Nat]
  /\ current_checkpoint_id \in [Arenas -> Nat]
  /\ checkpoints \in [Arenas -> SUBSET MarkRec]
  /\ crossed \in [Arenas -> BOOLEAN] /\ overtaken \in [Arenas -> BOOLEAN]
  /\ rewound \in [Arenas -> SUBSET Nat]

\* Pointers are numbered in the order they were made; while an allocation is
\* being registered again, no checkpoint keeps it.
PointersOK(a) ==
  /\ \A e \in Range(allocations[a]) : e.ptr \in 1..serial[a]
  /\ \A i \in DOMAIN log[a] : log[a][i] \in 1..serial[a]
  /\ \A i, j \in DOMAIN log[a] : i < j => log[a][i] < log[a][j]
  /\ tainted[a] \subseteq 1..serial[a] /\ rewound[a] \subseteq 1..serial[a]
  /\ \A c \in checkpoints[a] : c.mark <= Len(log[a]) /\ c.id < MaxId
  /\ current_checkpoint_id[a] <= MaxId
  /\ phase[a] = "registering" =>
       /\ Len(log[a]) > 0 /\ log[a][Len(log[a])] = serial[a]
       /\ \A c \in checkpoints[a] : c.mark < Len(log[a])

\* RegistryFollowsArenas, and an arena that was dropped has nothing.
PresenceOK(a) ==
  /\ \A i \in DOMAIN log[a] : \E e \in Range(allocations[a]) : e.ptr = log[a][i]
  /\ arena_checkpoints[a] = Nil <=> allocations[a] = <<>>
  /\ phase[a] = "dropped" => allocations[a] = <<>>

\* The i-th live allocation was registered under ids up to n only.
UpTo(a, i, n) ==
  \A e \in Range(allocations[a]) : e.ptr = log[a][i] => e.checkpoint_id <= n

\* The i-th live allocation was registered under an id above n.
Above(a, i, n) ==
  \E e \in Range(allocations[a]) : e.ptr = log[a][i] /\ e.checkpoint_id > n

\* What ids mean.
IdsOK(a) ==
  /\ \A i \in DOMAIN log[a] : UpTo(a, i, current_checkpoint_id[a])
  /\ \A c \in checkpoints[a] : \A i \in 1..c.mark : UpTo(a, i, c.id)
  /\ \A c \in checkpoints[a] : ~c.over =>
       /\ c.id < current_checkpoint_id[a]
       /\ \A i \in DOMAIN log[a] : i > c.mark => Above(a, i, c.id)

\* The two claims about validation.
LiveOK(a) ==
  ~crossed[a] => \A i \in DOMAIN log[a] :
                   UpTo(a, i, arena_checkpoints[a]) /\ log[a][i] \notin tainted[a]
RewoundOK(a) == ~overtaken[a] => rewound[a] \subseteq tainted[a]

ArenaInv(a) == PointersOK(a) /\ PresenceOK(a) /\ IdsOK(a) /\ LiveOK(a) /\ RewoundOK(a)

DebugInv == Shape /\ \A a \in Arenas : ArenaInv(a)

-----------------------------------------------------------------------------
(* Sequences *)

\* Appending an element to a sequence adds it to its elements.
LEMMA RangeAppend ==
  ASSUME NEW S, NEW s \in Seq(S), NEW e \in S
  PROVE  Range(Append(s, e)) = Range(s) \cup {e}
<1>1. /\ Len(s) \in Nat /\ DOMAIN s = 1..Len(s)
      /\ DOMAIN Append(s, e) = 1..(Len(s) + 1)
      /\ \A i \in 1..Len(s) : Append(s, e)[i] = s[i]
      /\ Append(s, e)[Len(s) + 1] = e
  OBVIOUS
<1>2. \A x \in Range(Append(s, e)) : x \in Range(s) \cup {e}
  BY <1>1 DEF Range
<1>3. \A x \in Range(s) : x \in Range(Append(s, e))
  BY <1>1 DEF Range
<1>4. e \in Range(Append(s, e))
  <2>1. Len(s) + 1 \in DOMAIN Append(s, e)
    BY <1>1
  <2> QED BY <1>1, <2>1 DEF Range
<1> QED BY <1>2, <1>3, <1>4

\* The elements of a sequence.
LEMMA RangeFacts ==
  ASSUME NEW S, NEW s \in Seq(S)
  PROVE  (\A x \in Range(s) : x \in S) /\ Range(<<>>) = {}
<1>1. \A i \in DOMAIN s : s[i] \in S
  OBVIOUS
<1> QED BY <1>1 DEF Range

\* An empty sequence has none.
LEMMA EmptyRange == Range(<<>>) = {}
BY DEF Range

\* The elements of a sequence from m + 1 on.
LEMMA SuffixFacts ==
  ASSUME NEW S, NEW s \in Seq(S), NEW m \in 0..Len(s),
         NEW x \in Range(SubSeq(s, m + 1, Len(s)))
  PROVE  \E i \in DOMAIN s : i > m /\ x = s[i]
<1>0. Len(s) \in Nat /\ DOMAIN s = 1..Len(s) /\ \A i \in 1..Len(s) : s[i] \in S
  OBVIOUS
<1> DEFINE t == SubSeq(s, m + 1, Len(s))
<1>1. m \in Nat /\ m <= Len(s) /\ m + 1 \in Int /\ Len(s) \in Int
  BY <1>0
<1>2. \A i \in (m + 1)..Len(s) : s[i] \in S
  BY <1>0, <1>1
<1>3. /\ t \in Seq(S) /\ Len(t) = IF m + 1 <= Len(s) THEN Len(s) - (m + 1) + 1 ELSE 0
      /\ \A i \in 1..(Len(s) - (m + 1) + 1) : t[i] = s[m + 1 + i - 1]
  BY <1>1, <1>2
<1>4. PICK j \in DOMAIN t : x = t[j]
  BY Zenon DEF Range
<1> HIDE DEF t
<1>5. DOMAIN t = 1..Len(t)
  BY <1>3
<1>6. j \in Nat /\ j >= 1 /\ m + 1 <= Len(s) /\ j <= Len(s) - m
  <2>1. j \in 1..Len(t) /\ Len(t) \in Nat
    BY <1>3, <1>4, <1>5
  <2>2. CASE m + 1 <= Len(s)
    <3>1. Len(t) = Len(s) - (m + 1) + 1
      BY <1>3, <2>2, Zenon
    <3> QED BY <1>0, <1>1, <2>1, <2>2, <3>1
  <2>3. CASE ~(m + 1 <= Len(s))
    <3>1. Len(t) = 0
      BY <1>3, <2>3, Zenon
    <3> QED BY <2>1, <3>1
  <2> QED BY <2>2, <2>3
<1>7. x = s[m + 1 + j - 1]
  BY <1>0, <1>1, <1>3, <1>4, <1>6
<1>8. m + 1 + j - 1 \in DOMAIN s /\ m + 1 + j - 1 > m
  BY <1>0, <1>1, <1>6
<1> QED BY <1>7, <1>8

\* The entries of a registry.
LEMMA EntryFacts ==
  ASSUME NEW s \in Seq(EntryRec), NEW f \in Range(s)
  PROVE  f \in EntryRec /\ f.ptr \in Nat /\ f.checkpoint_id \in Nat
<1>1. f \in EntryRec
  BY RangeFacts, Zenon
<1> QED BY <1>1 DEF EntryRec

\* The first m elements.
LEMMA PrefixFacts ==
  ASSUME NEW S, NEW s \in Seq(S), NEW m \in 0..Len(s)
  PROVE  /\ SubSeq(s, 1, m) \in Seq(S) /\ Len(SubSeq(s, 1, m)) = m
         /\ DOMAIN SubSeq(s, 1, m) = 1..m
         /\ \A i \in 1..m : i \in DOMAIN s /\ SubSeq(s, 1, m)[i] = s[i]
OBVIOUS

\* A nonempty set of natural numbers has a least element.
LEMMA LeastElement ==
  ASSUME NEW S, S \subseteq Nat, S # {}
  PROVE  \E x \in S : \A y \in S : x <= y
<1> DEFINE T == {1..n : n \in S}
<1>1. T \subseteq FiniteSubsetsOf(Nat)
  <2>1. \A n \in S : IsFiniteSet(1..n)
    BY FS_Interval
  <2> QED BY <2>1 DEF FiniteSubsetsOf
<1>2. PICK t \in T : \A u \in T : ~(<<u, t>> \in StrictSubsetOrdering(Nat))
  <2>1. T # {}
    BY Zenon
  <2> HIDE DEF T
  <2> QED BY <1>1, <2>1, FS_StrictSubsetOrderingWellFounded, WFMin
<1>3. PICK x \in S : t = 1..x
  BY Zenon
<1>4. ASSUME NEW y \in S, y < x
      PROVE  FALSE
  <2>1. x \in 1..x /\ x \notin 1..y
    BY <1>4
  <2>2. 1..y \subseteq 1..x /\ 1..y # 1..x
    BY <1>4, <2>1
  <2>3. <<1..y, t>> \in StrictSubsetOrdering(Nat)
    BY <1>3, <2>2 DEF StrictSubsetOrdering
  <2> QED BY <1>2, <2>3, Zenon
<1> QED BY <1>4

-----------------------------------------------------------------------------
(* One arena's part of the invariant *)

\* An arena nothing happened to.
LEMMA Elsewhere ==
  ASSUME NEW b \in Arenas, ArenaInv(b),
         allocations'[b] = allocations[b], arena_checkpoints'[b] = arena_checkpoints[b],
         tainted'[b] = tainted[b], phase'[b] = phase[b], log'[b] = log[b],
         serial'[b] = serial[b], current_checkpoint_id'[b] = current_checkpoint_id[b],
         checkpoints'[b] = checkpoints[b], crossed'[b] = crossed[b],
         overtaken'[b] = overtaken[b], rewound'[b] = rewound[b]
  PROVE  ArenaInv(b)'
<1>1. PointersOK(b)'
  BY Zenon DEF ArenaInv, PointersOK
<1>2. PresenceOK(b)'
  BY Zenon DEF ArenaInv, PresenceOK
<1>3. IdsOK(b)'
  BY DEF ArenaInv, IdsOK, UpTo, Above
<1>4. LiveOK(b)' /\ RewoundOK(b)'
  BY Zenon DEF ArenaInv, LiveOK, RewoundOK, UpTo
<1> QED BY <1>1, <1>2, <1>3, <1>4 DEF ArenaInv

\* The registration of a new pointer.
LEMMA AllocateKeeps ==
  ASSUME DebugInv, NEW a \in Arenas, NEW next \in {"idle", "registering"},
         AllocateWithGuard(a, next)
  PROVE  DebugInv'
<1> DEFINE p == serial[a] + 1
           cur == current_checkpoint_id[a]
           e == [ptr |-> p, checkpoint_id |-> cur]
           k == Len(log[a]) + 1
<1>1. /\ serial[a] \in Nat /\ cur \in Nat /\ log[a] \in Seq(Nat)
      /\ allocations[a] \in Seq(EntryRec) /\ p \in Nat /\ e \in EntryRec
      /\ checkpoints[a] \subseteq MarkRec
  BY DEF DebugInv, Shape, EntryRec
<1>2. /\ allocations' = [allocations EXCEPT ![a] = Append(@, e)]
      /\ arena_checkpoints' = [arena_checkpoints EXCEPT ![a] = cur]
      /\ serial' = [serial EXCEPT ![a] = p]
      /\ log' = [log EXCEPT ![a] = Append(@, p)]
      /\ phase' = [phase EXCEPT ![a] = next]
      /\ UNCHANGED <<tainted, current_checkpoint_id, checkpoints, crossed, overtaken, rewound>>
      /\ phase[a] = "idle"
  BY Zenon DEF AllocateWithGuard, RegisterAllocation, DebugInv, Shape, history
<1> HIDE DEF e, p, cur
<1>3. Append(allocations[a], e) \in Seq(EntryRec) /\ Append(log[a], p) \in Seq(Nat)
  BY <1>1
<1>4. Shape'
  BY <1>1, <1>2, <1>3, Zenon DEF DebugInv, Shape
<1>5. ASSUME NEW b \in Arenas, b # a
      PROVE  ArenaInv(b)'
  <2>1. ArenaInv(b)
    BY Zenon DEF DebugInv
  <2> QED BY <1>2, <1>5, <2>1, Elsewhere DEF DebugInv, Shape
<1>6. ArenaInv(a)'
  <2>1. /\ allocations'[a] = Append(allocations[a], e) /\ arena_checkpoints'[a] = cur
        /\ serial'[a] = p /\ log'[a] = Append(log[a], p) /\ phase'[a] = next
        /\ tainted'[a] = tainted[a] /\ rewound'[a] = rewound[a]
        /\ current_checkpoint_id'[a] = current_checkpoint_id[a]
        /\ checkpoints'[a] = checkpoints[a]
        /\ crossed'[a] = crossed[a] /\ overtaken'[a] = overtaken[a]
    BY <1>2, Zenon DEF DebugInv, Shape
  <2>2. Range(allocations'[a]) = Range(allocations[a]) \cup {e} /\ e.ptr = p
        /\ e.checkpoint_id = cur
    BY <1>1, <2>1, RangeAppend DEF e
  <2>3. /\ Len(log[a]) \in Nat /\ DOMAIN log[a] = 1..Len(log[a])
        /\ DOMAIN log'[a] = 1..k /\ Len(log'[a]) = k
        /\ \A i \in DOMAIN log[a] : log'[a][i] = log[a][i] /\ i \in DOMAIN log'[a]
        /\ log'[a][k] = p
        /\ \A i \in DOMAIN log'[a] : i \in DOMAIN log[a] \/ i = k
    BY <1>1, <2>1, SMTT(30)
  <2>4. p = serial[a] + 1 /\ cur = current_checkpoint_id[a]
    BY Zenon DEF p, cur
  <2>5. /\ PointersOK(a) /\ PresenceOK(a) /\ IdsOK(a) /\ LiveOK(a) /\ RewoundOK(a)
        /\ \A c \in checkpoints[a] : c.mark \in Nat /\ c.id \in Nat
        /\ \A f \in Range(allocations[a]) : f \in EntryRec
        /\ \A i \in DOMAIN log[a] : log[a][i] \in Nat
    BY <1>1, RangeFacts DEF DebugInv, ArenaInv, MarkRec
  <2> HIDE DEF k
  <2>6. PointersOK(a)'
    <3>1. \A f \in Range(allocations'[a]) : f.ptr \in 1..p
      BY <1>1, <2>2, <2>4, <2>5 DEF PointersOK
    <3>2. \A i \in DOMAIN log'[a] : log'[a][i] \in 1..p
      <4>1. \A i \in DOMAIN log[a] : log[a][i] \in 1..p /\ log[a][i] < p
        BY <1>1, <2>4, <2>5 DEF PointersOK
      <4>2. p \in 1..p
        BY <1>1, <2>4
      <4> QED BY <2>3, <4>1, <4>2
    <3>3. ASSUME NEW i \in DOMAIN log'[a], NEW j \in DOMAIN log'[a], i < j
          PROVE  log'[a][i] < log'[a][j]
      <4>1. i \in DOMAIN log[a]
        BY <2>3, <3>3 DEF k
      <4>2. CASE j \in DOMAIN log[a]
        BY <2>3, <2>5, <3>3, <4>1, <4>2, Zenon DEF PointersOK
      <4>3. CASE j = k
        <5>1. log[a][i] < p
          BY <1>1, <2>4, <2>5, <4>1 DEF PointersOK
        <5> QED BY <2>3, <4>1, <4>3, <5>1
      <4> QED BY <2>3, <4>2, <4>3
    <3>4. \A c \in checkpoints[a] : c.mark < k /\ c.mark <= k /\ c.id < MaxId
      BY <2>3, <2>5 DEF PointersOK, k
    <3>5. k > 0 /\ tainted[a] \subseteq 1..p /\ rewound[a] \subseteq 1..p
      BY <1>1, <2>3, <2>4, <2>5 DEF PointersOK, k
    <3> QED BY <2>1, <2>3, <2>5, <3>1, <3>2, <3>3, <3>4, <3>5 DEF PointersOK
  <2>7. PresenceOK(a)'
    <3>1. allocations'[a] # <<>>
      BY <1>1, <2>2, RangeFacts, Zenon
    <3>2. cur # Nil
      BY <1>1, DebugAssumption, Zenon
    <3> QED BY <2>1, <2>2, <2>3, <2>5, <3>1, <3>2 DEF PresenceOK
  <2>8. \A i \in DOMAIN log'[a] : \A f \in Range(allocations'[a]) :
          f.ptr = log'[a][i] => f.checkpoint_id <= cur
    <3>1. ASSUME NEW i \in DOMAIN log[a], NEW f \in Range(allocations'[a]), f.ptr = log'[a][i]
          PROVE  f \in Range(allocations[a]) /\ f.ptr = log[a][i] /\ f.checkpoint_id <= cur
      <4>1. f.ptr = log[a][i] /\ f.ptr # p
        BY <1>1, <2>3, <2>4, <2>5, <3>1 DEF PointersOK
      <4> QED BY <2>2, <2>4, <2>5, <4>1 DEF IdsOK, UpTo
    <3>2. ASSUME NEW f \in Range(allocations'[a]), f.ptr = log'[a][k]
          PROVE  f.checkpoint_id <= cur
      <4>1. f = e
        BY <1>1, <2>2, <2>3, <2>4, <2>5, <3>2 DEF PointersOK
      <4> QED BY <1>1, <2>2, <4>1
    <3> QED BY <2>3, <3>1, <3>2
  <2>9. \A i \in DOMAIN log[a] : \A n : UpTo(a, i, n) => UpTo(a, i, n)'
    <3>1. \A i \in DOMAIN log[a] : log'[a][i] = log[a][i] /\ log[a][i] # p
      BY <1>1, <2>3, <2>4, <2>5, SMTT(30) DEF PointersOK
    <3> QED BY <2>2, <3>1 DEF UpTo
  <2>10. IdsOK(a)'
    <3>1. \A c \in checkpoints[a] : \A i \in 1..c.mark : UpTo(a, i, c.id)'
      <4>1. \A c \in checkpoints[a] : \A i \in 1..c.mark : i \in DOMAIN log[a]
        BY <2>3, <2>5 DEF PointersOK
      <4> QED BY <2>5, <2>9, <4>1 DEF IdsOK
    <3>2. ASSUME NEW c \in checkpoints[a], ~c.over
          PROVE  /\ c.id < current_checkpoint_id[a]
                 /\ \A i \in DOMAIN log'[a] : i > c.mark => Above(a, i, c.id)'
      <4>1. c.id < cur /\ \A i \in DOMAIN log[a] : i > c.mark => Above(a, i, c.id)
        BY <2>4, <2>5, <3>2, Zenon DEF IdsOK
      <4> QED BY <2>2, <2>3, <2>4, <4>1 DEF Above
    <3>3. \A i \in DOMAIN log'[a] : UpTo(a, i, current_checkpoint_id[a])'
      BY <2>1, <2>4, <2>8, Zenon DEF UpTo
    <3> QED BY <2>1, <3>1, <3>2, <3>3 DEF IdsOK
  <2>11. LiveOK(a)'
    <3>1. p \notin tainted[a]
      BY <1>1, <2>4, <2>5 DEF PointersOK
    <3>2. ~crossed[a] => \A i \in DOMAIN log'[a] : log'[a][i] \notin tainted[a]
      BY <2>3, <2>5, <3>1, Zenon DEF LiveOK
    <3> QED BY <2>1, <2>8, <3>2 DEF LiveOK, UpTo
  <2>12. RewoundOK(a)'
    BY <2>1, <2>5, Zenon DEF RewoundOK
  <2> QED BY <2>6, <2>7, <2>10, <2>11, <2>12 DEF ArenaInv
<1> QED BY <1>4, <1>5, <1>6 DEF DebugInv

\* The second registration of the pointer made last: every checkpoint is
\* older than it.
LEMMA RegisterAgainKeeps ==
  ASSUME DebugInv, NEW a \in Arenas, RegisterAgain(a)
  PROVE  DebugInv'
<1> DEFINE cur == current_checkpoint_id[a]
           e == [ptr |-> serial[a], checkpoint_id |-> cur]
           k == Len(log[a])
<1>1. /\ serial[a] \in Nat /\ cur \in Nat /\ log[a] \in Seq(Nat)
      /\ allocations[a] \in Seq(EntryRec) /\ e \in EntryRec
      /\ checkpoints[a] \subseteq MarkRec /\ k \in Nat /\ DOMAIN log[a] = 1..k
  BY DEF DebugInv, Shape, EntryRec
<1>2. /\ allocations' = [allocations EXCEPT ![a] = Append(@, e)]
      /\ arena_checkpoints' = [arena_checkpoints EXCEPT ![a] = cur]
      /\ phase' = [phase EXCEPT ![a] = "idle"]
      /\ UNCHANGED <<tainted, log, serial, current_checkpoint_id, checkpoints,
                     crossed, overtaken, rewound>>
      /\ phase[a] = "registering"
  BY Zenon DEF RegisterAgain, RegisterAllocation, DebugInv, Shape, history
<1> HIDE DEF e
<1>3. Append(allocations[a], e) \in Seq(EntryRec)
  BY <1>1
<1>4. Shape'
  BY <1>1, <1>2, <1>3, Zenon DEF DebugInv, Shape
<1>5. ASSUME NEW b \in Arenas, b # a
      PROVE  ArenaInv(b)'
  <2>1. ArenaInv(b)
    BY Zenon DEF DebugInv
  <2> QED BY <1>2, <1>5, <2>1, Elsewhere DEF DebugInv, Shape
<1>6. ArenaInv(a)'
  <2>1. /\ allocations'[a] = Append(allocations[a], e) /\ arena_checkpoints'[a] = cur
        /\ phase'[a] = "idle"
    BY <1>2, Zenon DEF DebugInv, Shape
  <2>2. Range(allocations'[a]) = Range(allocations[a]) \cup {e} /\ e.ptr = serial[a]
        /\ e.checkpoint_id = cur
    BY <1>1, <2>1, RangeAppend, SMTT(30) DEF e
  <2>3. /\ PointersOK(a) /\ PresenceOK(a) /\ IdsOK(a) /\ LiveOK(a) /\ RewoundOK(a)
        /\ \A c \in checkpoints[a] : c.mark \in Nat /\ c.id \in Nat /\ c.mark < k
        /\ \A i \in DOMAIN log[a] : log[a][i] \in Nat
        /\ k > 0 /\ log[a][k] = serial[a]
    BY <1>1, <1>2, SMTT(30) DEF DebugInv, ArenaInv, PointersOK, MarkRec
  <2> HIDE DEF cur, k
  <2>4. PointersOK(a)'
    <3>1. \A f \in Range(allocations'[a]) : f.ptr \in 1..serial[a]
      <4>1. serial[a] \in 1..serial[a]
        BY <1>1, <2>3 DEF PointersOK
      <4> QED BY <2>2, <2>3, <4>1, SMTT(30) DEF PointersOK
    <3> QED BY <1>2, <2>1, <2>3, <3>1 DEF PointersOK
  <2>5. PresenceOK(a)'
    <3>1. allocations'[a] # <<>>
      BY <1>1, <2>2, RangeFacts, ZenonT(30)
    <3>2. cur # Nil
      BY <1>1, DebugAssumption, Zenon
    <3> QED BY <1>2, <2>1, <2>2, <2>3, <3>1, <3>2 DEF PresenceOK
  <2>6. \A i \in DOMAIN log[a] : UpTo(a, i, cur)
    BY <2>3, Zenon DEF IdsOK, cur
  <2>7. \A i \in DOMAIN log[a] : \A f \in Range(allocations'[a]) :
          f.ptr = log[a][i] => f.checkpoint_id <= cur
    BY <1>1, <2>2, <2>6 DEF UpTo
  <2>8. IdsOK(a)'
    <3>1. \A i \in DOMAIN log[a] : UpTo(a, i, current_checkpoint_id[a])'
      BY <1>2, <2>7, Zenon DEF UpTo, cur
    <3>2. ASSUME NEW c \in checkpoints[a], NEW i \in 1..c.mark
          PROVE  UpTo(a, i, c.id)'
      <4>1. i \in DOMAIN log[a] /\ k \in DOMAIN log[a] /\ i < k
        BY <1>1, <2>3
      <4>2. log[a][i] # serial[a]
        BY <2>3, <4>1 DEF PointersOK
      <4>3. UpTo(a, i, c.id)
        BY <2>3, SMTT(30) DEF IdsOK
      <4> QED BY <1>2, <2>2, <4>2, <4>3 DEF UpTo
    <3>3. ASSUME NEW c \in checkpoints[a], ~c.over
          PROVE  /\ c.id < current_checkpoint_id[a]
                 /\ \A i \in DOMAIN log[a] : i > c.mark => Above(a, i, c.id)'
      BY <1>2, <2>2, <2>3, <3>3, SMTT(30) DEF IdsOK, Above
    <3> QED BY <1>2, <3>1, <3>2, <3>3 DEF IdsOK
  <2>9. LiveOK(a)'
    BY <1>2, <2>1, <2>3, <2>7, SMTT(30) DEF LiveOK, UpTo
  <2>10. RewoundOK(a)'
    BY <1>2, <2>3, Zenon DEF RewoundOK
  <2> QED BY <2>4, <2>5, <2>8, <2>9, <2>10 DEF ArenaInv
<1> QED BY <1>4, <1>5, <1>6 DEF DebugInv

\* A checkpoint keeps all that is live, and nothing was registered under its
\* successor's id yet.
LEMMA CheckpointKeeps ==
  ASSUME DebugInv, NEW a \in Arenas, Checkpoint(a)
  PROVE  DebugInv'
<1> DEFINE cur == current_checkpoint_id[a]
           d == [id |-> cur, mark |-> Len(log[a]), over |-> FALSE]
<1>1. /\ cur \in Nat /\ log[a] \in Seq(Nat) /\ Len(log[a]) \in Nat
      /\ DOMAIN log[a] = 1..Len(log[a])
      /\ checkpoints[a] \subseteq MarkRec /\ d \in MarkRec /\ cur < MaxId
  BY SMTT(30) DEF DebugInv, Shape, MarkRec, Checkpoint
<1>2. /\ checkpoints' = [checkpoints EXCEPT ![a] = @ \cup {d}]
      /\ current_checkpoint_id' = [current_checkpoint_id EXCEPT ![a] = cur + 1]
      /\ UNCHANGED <<allocations, arena_checkpoints, tainted, phase, log, serial,
                     crossed, overtaken, rewound>>
      /\ phase[a] = "idle"
  BY Zenon DEF Checkpoint, registry, history
<1>3. d.id = cur /\ d.mark = Len(log[a]) /\ ~d.over
  BY Zenon
<1> HIDE DEF d
<1>4. Shape'
  BY <1>1, <1>2 DEF DebugInv, Shape
<1>5. ASSUME NEW b \in Arenas, b # a
      PROVE  ArenaInv(b)'
  <2>1. ArenaInv(b)
    BY Zenon DEF DebugInv
  <2> QED BY <1>2, <1>5, <2>1, Elsewhere DEF DebugInv, Shape
<1>6. ArenaInv(a)'
  <2>1. checkpoints'[a] = checkpoints[a] \cup {d} /\ current_checkpoint_id'[a] = cur + 1
    BY <1>2, Zenon DEF DebugInv, Shape
  <2>2. /\ PointersOK(a) /\ PresenceOK(a) /\ IdsOK(a) /\ LiveOK(a) /\ RewoundOK(a)
        /\ \A c \in checkpoints[a] : c.mark \in Nat /\ c.id \in Nat
        /\ \A f \in Range(allocations[a]) : f \in EntryRec /\ f.checkpoint_id \in Nat
    <3>1. allocations[a] \in Seq(EntryRec)
      BY Zenon DEF DebugInv, Shape
    <3>2. \A f \in Range(allocations[a]) : f \in EntryRec
      BY <3>1, RangeFacts
    <3> QED BY <1>1, <3>2 DEF DebugInv, ArenaInv, MarkRec, EntryRec
  <2>3. PointersOK(a)'
    <3>1. \A c \in checkpoints'[a] : c.mark <= Len(log[a]) /\ c.id < MaxId
      BY <1>1, <1>3, <2>1, <2>2 DEF PointersOK
    <3>2. cur + 1 <= MaxId
      BY <1>1, DebugAssumption
    <3> QED BY <1>2, <2>1, <2>2, <3>1, <3>2, SMTT(30) DEF PointersOK
  <2>4. IdsOK(a)'
    <3>1. \A i \in DOMAIN log[a] : UpTo(a, i, cur)
      BY <2>2, Zenon DEF IdsOK
    <3>2. \A i \in DOMAIN log[a] : UpTo(a, i, current_checkpoint_id[a])'
      BY <1>1, <1>2, <2>1, <2>2, <3>1, SMTT(30) DEF UpTo
    <3>3. ASSUME NEW c \in checkpoints'[a], NEW i \in 1..c.mark
          PROVE  UpTo(a, i, c.id)'
      <4>1. UpTo(a, i, c.id)
        BY <1>1, <1>3, <2>1, <2>2, <3>1, <3>3 DEF IdsOK
      <4> QED BY <1>2, <4>1 DEF UpTo
    <3>4. ASSUME NEW c \in checkpoints'[a], ~c.over
          PROVE  /\ c.id < cur + 1
                 /\ \A i \in DOMAIN log[a] : i > c.mark => Above(a, i, c.id)'
      <4>1. CASE c \in checkpoints[a]
        BY <1>1, <1>2, <2>2, <3>4, <4>1 DEF IdsOK, Above
      <4>2. CASE c = d
        BY <1>1, <1>3, <4>2
      <4> QED BY <2>1, <4>1, <4>2, SMTT(30)
    <3> QED BY <1>2, <2>1, <3>2, <3>3, <3>4 DEF IdsOK
  <2> QED BY <1>2, <2>2, <2>3, <2>4 DEF ArenaInv, PresenceOK, LiveOK, RewoundOK, UpTo
<1> QED BY <1>4, <1>5, <1>6 DEF DebugInv

\* A rewind of arena a to c, in the registry, as another arena sees it: if
\* none of its ids is above c's nothing is tainted, otherwise it was crossed.
LEMMA RewindElsewhere ==
  ASSUME DebugInv, NEW a \in Arenas, NEW c \in checkpoints[a], RewindToCheckpoint(a, c),
         NEW b \in Arenas, b # a
  PROVE  ArenaInv(b)'
<1>1. /\ allocations'[b] = allocations[b] /\ phase'[b] = phase[b] /\ log'[b] = log[b]
      /\ serial'[b] = serial[b] /\ current_checkpoint_id'[b] = current_checkpoint_id[b]
      /\ checkpoints'[b] = checkpoints[b] /\ overtaken'[b] = overtaken[b]
      /\ rewound'[b] = rewound[b]
  BY SMTT(30) DEF RewindToCheckpoint, RegistryRewind, DebugInv, Shape
<1>2. /\ arena_checkpoints'[b] = (IF arena_checkpoints[b] = Nil THEN Nil ELSE c.id)
      /\ tainted'[b] = tainted[b] \cup Later(b, c.id)
      /\ crossed'[b] = (crossed[b] \/ (b # a /\ Later(b, c.id) # {}))
  BY Zenon DEF RewindToCheckpoint, RegistryRewind
<1>3. /\ PointersOK(b) /\ PresenceOK(b) /\ IdsOK(b) /\ LiveOK(b) /\ RewoundOK(b)
      /\ c.id \in Nat /\ c.id # Nil
      /\ allocations[b] \in Seq(EntryRec)
  BY DebugAssumption DEF DebugInv, Shape, ArenaInv, MarkRec
<1>4. \A f \in Range(allocations[b]) : f.checkpoint_id \in Nat
  BY <1>3, EntryFacts, Zenon
<1>5. \A x \in Later(b, c.id) : \E f \in Range(allocations[b]) : x = f.ptr
  BY Zenon DEF Later
<1>6. PointersOK(b)'
  BY <1>1, <1>2, <1>3, <1>5 DEF PointersOK
<1>7. PresenceOK(b)'
  BY <1>1, <1>2, <1>3, Zenon DEF PresenceOK
<1>8. IdsOK(b)'
  BY <1>1, <1>3, ZenonT(30) DEF IdsOK, UpTo, Above
<1>9. LiveOK(b)'
  <2> SUFFICES ASSUME ~crossed'[b], NEW i \in DOMAIN log[b]
               PROVE  /\ \A f \in Range(allocations[b]) :
                           f.ptr = log[b][i] => f.checkpoint_id <= arena_checkpoints'[b]
                      /\ log[b][i] \notin tainted'[b]
    BY <1>1, Zenon DEF LiveOK, UpTo
  <2>1. Later(b, c.id) = {} /\ ~crossed[b]
    BY <1>2, Zenon
  <2>2. \A f \in Range(allocations[b]) : f.checkpoint_id <= c.id
    <3> SUFFICES ASSUME NEW f \in Range(allocations[b]), f.checkpoint_id > c.id
                 PROVE  FALSE
      BY <1>3, <1>4
    <3>1. f.ptr \in Later(b, c.id)
      BY Zenon DEF Later
    <3> QED BY <2>1, <3>1
  <2>3. log[b][i] \notin tainted[b] /\ UpTo(b, i, arena_checkpoints[b])
    BY <1>3, <2>1, SMTT(30) DEF LiveOK
  <2> QED BY <1>2, <2>1, <2>2, <2>3 DEF UpTo
<1>10. RewoundOK(b)'
  BY <1>1, <1>2, <1>3, Zenon DEF RewoundOK
<1> QED BY <1>6, <1>7, <1>8, <1>9, <1>10 DEF ArenaInv

\* A rewind of arena a to c: what c keeps was registered under ids up to c's
\* and is spared; what it does not keep is tainted, unless c was overtaken.
LEMMA RewindKeeps ==
  ASSUME DebugInv, NEW a \in Arenas, NEW c \in checkpoints[a], RewindToCheckpoint(a, c)
  PROVE  DebugInv'
<1> DEFINE gone == Range(SubSeq(log[a], c.mark + 1, Len(log[a])))
           Lowered(d) == IF d.mark < c.mark THEN d.mark ELSE c.mark
<1>1. /\ PointersOK(a) /\ PresenceOK(a) /\ IdsOK(a) /\ LiveOK(a) /\ RewoundOK(a)
      /\ log[a] \in Seq(Nat) /\ Len(log[a]) \in Nat /\ DOMAIN log[a] = 1..Len(log[a])
      /\ allocations[a] \in Seq(EntryRec)
      /\ c.id \in Nat /\ c.mark \in Nat /\ c.over \in BOOLEAN /\ c.id # Nil
      /\ c.mark \in 0..Len(log[a]) /\ c.id < MaxId
  <2>1. c \in MarkRec /\ PointersOK(a)
    BY DEF DebugInv, Shape, ArenaInv
  <2> QED BY <2>1, DebugAssumption DEF DebugInv, Shape, ArenaInv, PointersOK, MarkRec
<1>2. /\ \A f \in Range(allocations[a]) : f \in EntryRec /\ f.checkpoint_id \in Nat
      /\ \A x \in gone : \E i \in DOMAIN log[a] : i > c.mark /\ x = log[a][i]
  <2>1. \A f \in Range(allocations[a]) : f \in EntryRec
    BY <1>1, RangeFacts, Zenon
  <2>2. \A x \in gone : \E i \in DOMAIN log[a] : i > c.mark /\ x = log[a][i]
    <3>1. log[a] \in Seq(Nat) /\ c.mark \in 0..Len(log[a])
      BY <1>1, Zenon
    <3> QED BY <3>1, SuffixFacts, Zenon
  <2> QED BY <2>1, <2>2 DEF EntryRec
<1>3. \A d \in checkpoints[a] : d.id \in Nat /\ d.mark \in Nat /\ d.over \in BOOLEAN
  BY DEF DebugInv, Shape, MarkRec
<1>4. /\ log' = [log EXCEPT ![a] = SubSeq(log[a], 1, c.mark)]
      /\ current_checkpoint_id' = [current_checkpoint_id EXCEPT ![a] = c.id + 1]
      /\ checkpoints' = [checkpoints EXCEPT ![a] = LowerCheckpoints(a, c)]
      /\ overtaken' = [overtaken EXCEPT ![a] = overtaken[a] \/ c.over]
      /\ rewound' = [rewound EXCEPT ![a] = rewound[a] \cup gone]
      /\ arena_checkpoints' = [b \in Arenas |->
           IF arena_checkpoints[b] = Nil THEN Nil ELSE c.id]
      /\ tainted' = [b \in Arenas |-> tainted[b] \cup Later(b, c.id)]
      /\ crossed' = [b \in Arenas |-> crossed[b] \/ (b # a /\ Later(b, c.id) # {})]
      /\ UNCHANGED <<allocations, phase, serial>>
      /\ phase[a] = "idle"
  BY Zenon DEF RewindToCheckpoint, RegistryRewind, DebugInv, Shape
<1> HIDE DEF gone
<1>5. /\ SubSeq(log[a], 1, c.mark) \in Seq(Nat) /\ Len(SubSeq(log[a], 1, c.mark)) = c.mark
      /\ DOMAIN SubSeq(log[a], 1, c.mark) = 1..c.mark
      /\ \A i \in 1..c.mark : i \in DOMAIN log[a] /\ SubSeq(log[a], 1, c.mark)[i] = log[a][i]
  <2>1. ASSUME NEW m \in 0..Len(log[a])
        PROVE  /\ SubSeq(log[a], 1, m) \in Seq(Nat) /\ Len(SubSeq(log[a], 1, m)) = m
               /\ DOMAIN SubSeq(log[a], 1, m) = 1..m
               /\ \A i \in 1..m : i \in DOMAIN log[a] /\ SubSeq(log[a], 1, m)[i] = log[a][i]
    <3>1. log[a] \in Seq(Nat)
      BY <1>1, Zenon
    <3> QED BY <3>1, PrefixFacts
  <2> QED BY <1>1, <2>1
<1>6. \A b \in Arenas : Later(b, c.id) \subseteq Nat
  <2> SUFFICES ASSUME NEW b \in Arenas, NEW f \in Range(allocations[b])
               PROVE  f.ptr \in Nat
    BY Zenon DEF Later
  <2>1. allocations[b] \in Seq(EntryRec)
    BY Zenon DEF DebugInv, Shape
  <2> QED BY <2>1, EntryFacts
<1>7. /\ LowerCheckpoints(a, c) \subseteq MarkRec
      /\ \A x \in LowerCheckpoints(a, c) : \E d \in checkpoints[a] :
           x.id = d.id /\ x.mark = Lowered(d) /\ x.over = (d.over \/ d.id > c.id)
  <2> DEFINE r(d) == [id |-> d.id, mark |-> Lowered(d), over |-> d.over \/ d.id > c.id]
  <2>1. LowerCheckpoints(a, c) = {r(d) : d \in checkpoints[a]}
    BY DEF LowerCheckpoints
  <2>2. ASSUME NEW d \in checkpoints[a]
        PROVE  /\ r(d) \in MarkRec
               /\ r(d).id = d.id /\ r(d).mark = Lowered(d)
               /\ r(d).over = (d.over \/ d.id > c.id)
    <3>1. d.id \in Nat /\ Lowered(d) \in Nat /\ (d.over \/ d.id > c.id) \in BOOLEAN
      BY <1>1, <1>3, Zenon
    <3> QED BY <3>1 DEF MarkRec
  <2> HIDE DEF r, Lowered
  <2> QED BY <2>1, <2>2
<1>8. gone \subseteq Nat
  BY <1>1, <1>2
<1>9. Shape'
  <2>1. /\ log' \in [Arenas -> Seq(Nat)] /\ current_checkpoint_id' \in [Arenas -> Nat]
        /\ checkpoints' \in [Arenas -> SUBSET MarkRec]
    <3>1. log' \in [Arenas -> Seq(Nat)]
      BY <1>4, <1>5, Zenon DEF DebugInv, Shape
    <3>2. c.id + 1 \in Nat
      BY <1>1
    <3>3. current_checkpoint_id' \in [Arenas -> Nat]
      BY <1>4, <3>2, Zenon DEF DebugInv, Shape
    <3>4. checkpoints' \in [Arenas -> SUBSET MarkRec]
      BY <1>4, <1>7, Zenon DEF DebugInv, Shape
    <3> QED BY <3>1, <3>3, <3>4
  <2>2. /\ arena_checkpoints' \in [Arenas -> Nat \cup {Nil}]
        /\ tainted' \in [Arenas -> SUBSET Nat] /\ rewound' \in [Arenas -> SUBSET Nat]
    BY <1>1, <1>4, <1>6, <1>8, Zenon DEF DebugInv, Shape
  <2>3. overtaken' \in [Arenas -> BOOLEAN] /\ crossed' \in [Arenas -> BOOLEAN]
    BY <1>1, <1>4, Zenon DEF DebugInv, Shape
  <2> QED BY <1>4, <2>1, <2>2, <2>3, Zenon DEF DebugInv, Shape
<1>10. ArenaInv(a)'
  <2>1. /\ log'[a] = SubSeq(log[a], 1, c.mark) /\ current_checkpoint_id'[a] = c.id + 1
        /\ checkpoints'[a] = LowerCheckpoints(a, c)
        /\ overtaken'[a] = (overtaken[a] \/ c.over) /\ rewound'[a] = rewound[a] \cup gone
        /\ arena_checkpoints'[a] = (IF arena_checkpoints[a] = Nil THEN Nil ELSE c.id)
        /\ tainted'[a] = tainted[a] \cup Later(a, c.id)
        /\ crossed'[a] = crossed[a]
        /\ allocations'[a] = allocations[a] /\ phase'[a] = "idle" /\ serial'[a] = serial[a]
    BY <1>4, ZenonT(30) DEF DebugInv, Shape
  <2>2. /\ Len(log'[a]) = c.mark /\ DOMAIN log'[a] = 1..c.mark
        /\ \A i \in 1..c.mark : i \in DOMAIN log[a] /\ log'[a][i] = log[a][i]
    BY <1>5, <2>1, SMTT(30)
  <2>3. \A i \in 1..c.mark : UpTo(a, i, c.id)
    BY <1>1, Zenon DEF IdsOK
  <2>4. \A x \in Later(a, c.id) : \E f \in Range(allocations[a]) :
          x = f.ptr /\ f.checkpoint_id > c.id
    BY Zenon DEF Later
  <2>5. PointersOK(a)'
    <3>1. tainted'[a] \subseteq 1..serial[a] /\ rewound'[a] \subseteq 1..serial[a]
      <4>1. Later(a, c.id) \subseteq 1..serial[a]
        BY <1>1, <2>4, Zenon DEF PointersOK
      <4>2. gone \subseteq 1..serial[a]
        BY <1>1, <1>2, Zenon DEF PointersOK
      <4>3. tainted[a] \subseteq 1..serial[a] /\ rewound[a] \subseteq 1..serial[a]
        BY <1>1, Zenon DEF PointersOK
      <4> QED BY <2>1, <4>1, <4>2, <4>3, Zenon
    <3>2. \A x \in checkpoints'[a] : x.mark <= c.mark /\ x.id < MaxId
      <4> TAKE x \in checkpoints'[a]
      <4>1. PICK d \in checkpoints[a] : x.id = d.id /\ x.mark = Lowered(d)
        BY <1>7, <2>1, Zenon
      <4>2. d.id < MaxId /\ d.mark \in Nat
        BY <1>1, <1>3, Zenon DEF PointersOK
      <4>3. Lowered(d) <= c.mark
        BY <1>1, <4>2
      <4> QED BY <4>1, <4>2, <4>3
    <3>3. c.id + 1 <= MaxId
      BY <1>1, DebugAssumption
    <3>4. \A i, j \in 1..c.mark : i < j => log'[a][i] < log'[a][j]
      BY <1>1, <2>2, Zenon DEF PointersOK
    <3>5. \A i \in 1..c.mark : log'[a][i] \in 1..serial[a]
      BY <1>1, <2>2, Zenon DEF PointersOK
    <3> QED BY <1>1, <2>1, <2>2, <3>1, <3>2, <3>3, <3>4, <3>5, ZenonT(30) DEF PointersOK
  <2>6. PresenceOK(a)'
    BY <1>1, <2>1, <2>2, ZenonT(30) DEF PresenceOK
  <2>7. IdsOK(a)'
    <3>1. \A i \in 1..c.mark : UpTo(a, i, current_checkpoint_id[a])'
      <4> TAKE i \in 1..c.mark
      <4> SUFFICES ASSUME NEW f \in Range(allocations[a]), f.ptr = log[a][i]
                   PROVE  f.checkpoint_id <= c.id + 1
        BY <2>1, <2>2, Zenon DEF UpTo
      <4>1. f.checkpoint_id <= c.id /\ f.checkpoint_id \in Nat /\ c.id \in Nat
        BY <1>1, <1>2, <2>3, Zenon DEF UpTo
      <4> QED BY <4>1
    <3>2. ASSUME NEW x \in checkpoints'[a], NEW i \in 1..x.mark
          PROVE  UpTo(a, i, x.id)'
      <4>1. PICK d \in checkpoints[a] : x.id = d.id /\ x.mark = Lowered(d)
        BY <1>7, <2>1, Zenon
      <4>2. i \in 1..d.mark /\ i \in 1..c.mark
        BY <1>1, <1>3, <4>1, SMTT(30)
      <4>3. UpTo(a, i, d.id)
        BY <1>1, <4>2, Zenon DEF IdsOK
      <4> QED BY <2>1, <2>2, <4>1, <4>2, <4>3, Zenon DEF UpTo
    <3>3. ASSUME NEW x \in checkpoints'[a], ~x.over
          PROVE  /\ x.id < c.id + 1
                 /\ \A i \in 1..c.mark : i > x.mark => Above(a, i, x.id)'
      <4>1. PICK d \in checkpoints[a] :
              x.id = d.id /\ x.mark = Lowered(d) /\ x.over = (d.over \/ d.id > c.id)
        BY <1>7, <2>1, Zenon
      <4>2. ~d.over /\ ~(d.id > c.id)
        BY <3>3, <4>1, ZenonT(30)
      <4>3. x.id < c.id + 1
        BY <1>1, <1>3, <4>1, <4>2, SMTT(30)
      <4>4. ASSUME NEW i \in 1..c.mark, i > x.mark
            PROVE  Above(a, i, x.id)'
        <5>1. i > d.mark /\ i \in DOMAIN log[a]
          <6>1. i \in 1..c.mark /\ i > Lowered(d) /\ c.mark \in Nat /\ d.mark \in Nat
            BY <1>1, <1>3, <4>1, <4>4, Zenon
          <6>2. i \in DOMAIN log[a]
            BY <2>2, <6>1, ZenonT(30)
          <6> QED BY <6>1, <6>2
        <5>2. Above(a, i, d.id)
          BY <1>1, <4>2, <5>1, Zenon DEF IdsOK
        <5> QED BY <2>1, <2>2, <4>1, <5>2, ZenonT(30) DEF Above
      <4> QED BY <4>3, <4>4
    <3> QED BY <2>1, <2>2, <3>1, <3>2, <3>3, Zenon DEF IdsOK
  <2>8. LiveOK(a)'
    <3> SUFFICES ASSUME ~crossed[a], NEW i \in 1..c.mark
                 PROVE  /\ \A f \in Range(allocations[a]) :
                             f.ptr = log[a][i] => f.checkpoint_id <= arena_checkpoints'[a]
                        /\ log[a][i] \notin tainted'[a]
      BY <2>1, <2>2, ZenonT(30) DEF LiveOK, UpTo
    <3>1. log[a][i] \notin tainted[a]
      BY <1>1, <2>2, SMTT(30) DEF LiveOK
    <3>2. log[a][i] \notin Later(a, c.id)
      <4> SUFFICES ASSUME log[a][i] \in Later(a, c.id) PROVE FALSE
        BY Zenon
      <4>1. PICK f \in Range(allocations[a]) : log[a][i] = f.ptr /\ f.checkpoint_id > c.id
        BY <2>4, Zenon
      <4>2. f.checkpoint_id <= c.id
        BY <2>3, <4>1, Zenon DEF UpTo
      <4>3. f.checkpoint_id \in Nat /\ c.id \in Nat
        BY <1>1, <1>2, Zenon
      <4> QED BY <4>1, <4>2, <4>3
    <3>3. ASSUME NEW f \in Range(allocations[a])
          PROVE  arena_checkpoints[a] # Nil
      BY <1>1, <3>3, RangeFacts, Zenon DEF PresenceOK
    <3> QED BY <2>1, <2>3, <3>1, <3>2, <3>3 DEF UpTo
  <2>9. RewoundOK(a)'
    <3> SUFFICES ASSUME ~overtaken[a], ~c.over, NEW x \in gone
                 PROVE  x \in Later(a, c.id)
      BY <1>1, <2>1, Zenon DEF RewoundOK
    <3>1. PICK i \in DOMAIN log[a] : i > c.mark /\ x = log[a][i]
      BY <1>2, Zenon
    <3>2. Above(a, i, c.id)
      BY <1>1, <3>1, Zenon DEF IdsOK
    <3> QED BY <3>1, <3>2 DEF Above, Later
  <2> QED BY <2>5, <2>6, <2>7, <2>8, <2>9 DEF ArenaInv
<1> QED BY <1>9, <1>10, RewindElsewhere DEF DebugInv

\* A reset releases everything; the registry is not told.
LEMMA ResetKeeps ==
  ASSUME DebugInv, NEW a \in Arenas, ResetArena(a)
  PROVE  DebugInv'
<1> DEFINE zero == {[c EXCEPT !.mark = 0] : c \in checkpoints[a]}
<1>1. /\ log' = [log EXCEPT ![a] = <<>>]
      /\ checkpoints' = [checkpoints EXCEPT ![a] = zero]
      /\ UNCHANGED <<allocations, arena_checkpoints, tainted, phase, serial,
                     current_checkpoint_id, crossed, overtaken, rewound>>
      /\ phase[a] = "idle"
  BY Zenon DEF ResetArena, registry, history
<1>2. checkpoints[a] \subseteq MarkRec
  BY Zenon DEF DebugInv, Shape
<1>3. /\ zero \subseteq MarkRec
      /\ \A x \in zero : \E c \in checkpoints[a] :
           x.id = c.id /\ x.over = c.over /\ x.mark = 0
  BY <1>2 DEF MarkRec
<1> HIDE DEF zero
<1>4. Shape'
  BY <1>1, <1>3 DEF DebugInv, Shape
<1>5. ASSUME NEW b \in Arenas, b # a
      PROVE  ArenaInv(b)'
  <2>1. ArenaInv(b)
    BY Zenon DEF DebugInv
  <2> QED BY <1>1, <1>5, <2>1, Elsewhere DEF DebugInv, Shape
<1>6. ArenaInv(a)'
  <2>1. /\ log'[a] = <<>> /\ DOMAIN log'[a] = {} /\ Len(log'[a]) = 0
        /\ checkpoints'[a] = zero
    BY <1>1 DEF DebugInv, Shape
  <2>2. PointersOK(a) /\ PresenceOK(a) /\ IdsOK(a) /\ LiveOK(a) /\ RewoundOK(a)
    BY Zenon DEF DebugInv, ArenaInv
  <2>3. PointersOK(a)'
    BY <1>1, <1>3, <2>1, <2>2 DEF PointersOK
  <2>4. PresenceOK(a)'
    BY <1>1, <2>1, <2>2, ZenonT(30) DEF PresenceOK
  <2>5. IdsOK(a)'
    <3>1. \A x \in zero : 1..x.mark = {}
      BY <1>3
    <3>2. \A x \in zero : ~x.over => x.id < current_checkpoint_id[a]
      BY <1>3, <2>2, Zenon DEF IdsOK
    <3> QED BY <1>1, <2>1, <3>1, <3>2 DEF IdsOK
  <2> QED BY <1>1, <2>1, <2>2, <2>3, <2>4, <2>5 DEF ArenaInv, LiveOK, RewoundOK
<1> QED BY <1>4, <1>5, <1>6 DEF DebugInv

\* A dropped arena has no entries, no allocations and no checkpoints.
LEMMA DropKeeps ==
  ASSUME DebugInv, NEW a \in Arenas, DropArena(a)
  PROVE  DebugInv'
<1>1. /\ allocations' = [allocations EXCEPT ![a] = <<>>]
      /\ arena_checkpoints' = [arena_checkpoints EXCEPT ![a] = Nil]
      /\ phase' = [phase EXCEPT ![a] = "dropped"]
      /\ log' = [log EXCEPT ![a] = <<>>]
      /\ serial' = [serial EXCEPT ![a] = 0]
      /\ current_checkpoint_id' = [current_checkpoint_id EXCEPT ![a] = 0]
      /\ checkpoints' = [checkpoints EXCEPT ![a] = {}]
      /\ tainted' = [tainted EXCEPT ![a] = {}]
      /\ rewound' = [rewound EXCEPT ![a] = {}]
      /\ crossed' = [crossed EXCEPT ![a] = FALSE]
      /\ overtaken' = [overtaken EXCEPT ![a] = FALSE]
  BY Zenon DEF DropArena, CleanupArena
<1>2. Shape'
  BY <1>1 DEF DebugInv, Shape
<1>3. ASSUME NEW b \in Arenas, b # a
      PROVE  ArenaInv(b)'
  <2>1. ArenaInv(b)
    BY Zenon DEF DebugInv
  <2> QED BY <1>1, <1>3, <2>1, Elsewhere, Zenon DEF DebugInv, Shape
<1>4. ArenaInv(a)'
  <2>1. /\ allocations'[a] = <<>> /\ arena_checkpoints'[a] = Nil /\ phase'[a] = "dropped"
        /\ log'[a] = <<>> /\ DOMAIN log'[a] = {} /\ checkpoints'[a] = {}
        /\ current_checkpoint_id'[a] = 0 /\ tainted'[a] = {} /\ rewound'[a] = {}
    BY <1>1 DEF DebugInv, Shape
  <2>2. Range(allocations'[a]) = {}
    BY <2>1, EmptyRange, Zenon
  <2>3. PointersOK(a)'
    BY <2>1, <2>2, DebugAssumption DEF PointersOK
  <2>4. PresenceOK(a)' /\ IdsOK(a)' /\ LiveOK(a)' /\ RewoundOK(a)'
    BY <2>1, <2>2, Zenon DEF PresenceOK, IdsOK, LiveOK, RewoundOK
  <2> QED BY <2>3, <2>4, Zenon DEF ArenaInv
<1> QED BY <1>2, <1>3, <1>4 DEF DebugInv

-----------------------------------------------------------------------------
(* The theorems *)

\* The invariant holds before any allocation.
LEMMA DebugInitInv == DebugInit => DebugInv
<1> SUFFICES ASSUME DebugInit PROVE DebugInv
  BY Zenon
<1>1. Shape
  BY SMTT(30) DEF DebugInit, Shape
<1>2. ASSUME NEW a \in Arenas
      PROVE  ArenaInv(a)
  <2>1. /\ allocations[a] = <<>> /\ arena_checkpoints[a] = Nil /\ phase[a] = "idle"
        /\ log[a] = <<>> /\ DOMAIN log[a] = {} /\ checkpoints[a] = {}
        /\ current_checkpoint_id[a] = 0 /\ tainted[a] = {} /\ rewound[a] = {}
    BY DEF DebugInit
  <2>2. Range(allocations[a]) = {}
    BY <2>1, Zenon DEF Range
  <2> QED BY <2>1, <2>2, DebugAssumption DEF ArenaInv, PointersOK, PresenceOK, IdsOK, LiveOK, RewoundOK
<1> QED BY <1>1, <1>2 DEF DebugInv

\* The invariant, in every state of every behaviour.
THEOREM DebugInvariance == DebugSpec => []DebugInv
<1>1. DebugInv /\ [DebugNext]_debugVars => DebugInv'
  <2> SUFFICES ASSUME DebugInv, [DebugNext]_debugVars PROVE DebugInv'
    BY Zenon
  <2>1. CASE UNCHANGED debugVars
    <3>1. UNCHANGED <<allocations, arena_checkpoints, tainted, phase, log, serial,
                      current_checkpoint_id, checkpoints, crossed, overtaken, rewound>>
      BY <2>1, Zenon DEF debugVars, registry, arena, history
    <3>2. Shape'
      BY <3>1, Zenon DEF DebugInv, Shape
    <3>3. \A b \in Arenas : ArenaInv(b)'
      BY <3>1, Elsewhere, Zenon DEF DebugInv
    <3> QED BY <3>2, <3>3 DEF DebugInv
  <2>2. ASSUME NEW a \in Arenas, AllocateWithGuard(a, "registering") \/ AllocateWithGuard(a, "idle")
        PROVE  DebugInv'
    BY <2>2, AllocateKeeps, Zenon
  <2> QED BY <2>1, <2>2, RegisterAgainKeeps, CheckpointKeeps, RewindKeeps, ResetKeeps,
             DropKeeps DEF DebugNext
<1> QED BY <1>1, DebugInitInv, PTL DEF DebugSpec

\* The registry names every allocation of every arena that lives and nothing
\* of an arena that was dropped, however many arenas register, rewind and are
\* dropped in whatever order.
THEOREM RegistryFollows == DebugSpec => []RegistryFollowsArenas
<1>1. DebugInv => RegistryFollowsArenas
  <2> SUFFICES ASSUME DebugInv, NEW a \in Arenas
               PROVE  /\ Range(log[a]) \subseteq {e.ptr : e \in Range(allocations[a])}
                      /\ (arena_checkpoints[a] = Nil) = (allocations[a] = <<>>)
                      /\ phase[a] = "dropped" => allocations[a] = <<>>
    BY Zenon DEF RegistryFollowsArenas
  <2>1. PresenceOK(a)
    BY Zenon DEF DebugInv, ArenaInv
  <2>2. ASSUME NEW x \in Range(log[a])
        PROVE  x \in {e.ptr : e \in Range(allocations[a])}
    <3>1. PICK i \in DOMAIN log[a] : x = log[a][i]
      BY <2>2, Zenon DEF Range
    <3> QED BY <2>1, <3>1 DEF PresenceOK
  <2> QED BY <2>1, <2>2 DEF PresenceOK
<1> QED BY <1>1, DebugInvariance, PTL

\* Validation may answer "ok" for every live allocation of an arena that no
\* other arena's rewind has reached, whatever the arena itself has rewound.
THEOREM NoFalseAlarms == DebugSpec => []NoFalseAlarm
<1>1. DebugInv => NoFalseAlarm
  <2> SUFFICES ASSUME DebugInv, NEW a \in Arenas, ~crossed[a], NEW ptr \in Range(log[a])
               PROVE  "ok" \in ValidateAllocation(a, ptr)
    BY Zenon DEF NoFalseAlarm
  <2>1. PICK i \in DOMAIN log[a] : ptr = log[a][i]
    BY Zenon DEF Range
  <2>2. /\ UpTo(a, i, arena_checkpoints[a]) /\ ptr \notin tainted[a]
        /\ \E e \in Range(allocations[a]) : e.ptr = ptr
        /\ allocations[a] \in Seq(EntryRec)
        /\ arena_checkpoints[a] \in Nat \cup {Nil}
        /\ arena_checkpoints[a] = Nil <=> allocations[a] = <<>>
    BY <2>1, ZenonT(30) DEF DebugInv, Shape, ArenaInv, LiveOK, PresenceOK
  <2>3. arena_checkpoints[a] \in Nat
    BY <2>2, RangeFacts, Zenon
  <2>4. Found(a, ptr) \in Range(allocations[a]) /\ Found(a, ptr).ptr = ptr
    <3> DEFINE at == {j \in DOMAIN allocations[a] : allocations[a][j].ptr = ptr}
    <3>1. at \subseteq Nat /\ at # {}
      BY <2>2 DEF Range
    <3>2. \E j \in at : \A k \in at : j <= k
      <4> HIDE DEF at
      <4> QED BY <3>1, LeastElement, Zenon
    <3>3. PICK j \in at : Found(a, ptr) = allocations[a][j]
      BY <3>2, ZenonT(30) DEF Found
    <3> QED BY <3>3 DEF Range
  <2>5. Found(a, ptr).checkpoint_id <= arena_checkpoints[a]
    BY <2>1, <2>2, <2>4, Zenon DEF UpTo
  <2>6. Found(a, ptr).checkpoint_id \in Nat
    BY <2>2, <2>4, EntryFacts, Zenon
  <2>7. ~(Found(a, ptr).checkpoint_id > arena_checkpoints[a])
    BY <2>3, <2>5, <2>6
  <2> QED BY <2>2, <2>7 DEF ValidateAllocation
<1> QED BY <1>1, DebugInvariance, PTL

\* Validation never answers "ok" for an allocation that a rewind released, as
\* long as no checkpoint was rewound to whose id had been given back before.
THEOREM RewoundReported == DebugSpec => []RewoundIsReported
<1>1. DebugInv => RewoundIsReported
  <2> SUFFICES ASSUME DebugInv, NEW a \in Arenas, ~overtaken[a], NEW ptr \in rewound[a]
               PROVE  "ok" \notin ValidateAllocation(a, ptr)
    BY Zenon DEF RewoundIsReported
  <2>1. ptr \in tainted[a]
    BY Zenon DEF DebugInv, ArenaInv, RewoundOK
  <2> QED BY <2>1 DEF ValidateAllocation
<1> QED BY <1>1, DebugInvariance, PTL

=============================================================================

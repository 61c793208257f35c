------------------------- MODULE ArenaProofs -------------------------
(***************************************************************************)
(* The inductive invariant of Arena, for every value of its constants, in  *)
(* builds without the `debug` feature: with it a rewind sets               *)
(* current_checkpoint_id back and hands out ids again, so ids no longer    *)
(* tell two checkpoints apart.                                             *)
(*                                                                         *)
(* LiveBlocksInBounds is not inductive by itself: a rewind lowers `used`,  *)
(* so every checkpoint that can still be rewound to must protect the       *)
(* allocations it keeps.  That a rewind leaves no stack entry ahead of the *)
(* arena needs the order of the ids: an entry with a smaller id stands for *)
(* no more allocations.                                                    *)
(*                                                                         *)
(* The lemmas say that rewinding, allocating from a chunk and taking a     *)
(* checkpoint preserve the invariant.                                      *)
(***************************************************************************)
EXTENDS Arena, FiniteSetTheorems, SequenceTheorems, WellFoundedInduction, TLAPS

\* Every checkpoint that something may still rewind to.
Targets == held \cup Entries \cup OpenScopes

\* The ids on the stack increase, and order the targets by what they keep.
IdsOrderTargets ==
  /\ \A i, j \in DOMAIN checkpoints :
       i < j => checkpoints[i].checkpoint_id < checkpoints[j].checkpoint_id
  /\ \A c \in Targets : c.checkpoint_id < current_checkpoint_id
  /\ \A e \in Entries, c \in Targets :
       e.checkpoint_id < c.checkpoint_id => e.mark <= c.mark

\* The inductive invariant.
IInv ==
  /\ TypeOK
  /\ LiveBlocksInBounds
  /\ LiveBlocksDisjoint
  /\ RewindKeepsEarlierAllocations
  /\ IdsOrderTargets

-----------------------------------------------------------------------------
(* Sizes *)

\* Rounding up yields an offset, and never moves it down.
LEMMA AlignUpBounds ==
  ASSUME NEW n \in Nat, NEW a \in Nat \ {0}
  PROVE  AlignUp(n, a) \in Nat /\ AlignUp(n, a) >= n
BY DEF AlignUp

\* What truncating a sequence to its first m elements leaves of it.
LEMMA PrefixFacts ==
  ASSUME NEW S, NEW s \in Seq(S), NEW m \in Nat, m <= Len(s)
  PROVE  /\ SubSeq(s, 1, m) \in Seq(S) /\ Len(SubSeq(s, 1, m)) = m
         /\ DOMAIN SubSeq(s, 1, m) = 1..m
         /\ \A i \in 1..m : i \in DOMAIN s /\ SubSeq(s, 1, m)[i] = s[i]
OBVIOUS

\* A nonempty set of natural numbers has a least element, and Min is it: among
\* the intervals 1..n with n in the set, one is minimal for inclusion.
LEMMA MinOfNats ==
  ASSUME NEW S, S \subseteq Nat, S # {}
  PROVE  Min(S) \in S
<1> DEFINE T == {1..n : n \in S}
<1>1. T \subseteq FiniteSubsetsOf(Nat)
  <2>1. \A n \in S : IsFiniteSet(1..n)
    BY FS_Interval
  <2> QED
    BY <2>1 DEF FiniteSubsetsOf
<1>2. PICK t \in T : \A u \in T : ~(<<u, t>> \in StrictSubsetOrdering(Nat))
  <2>1. T # {}
    BY Zenon
  <2> HIDE DEF T
  <2> QED
    BY <1>1, <2>1, FS_StrictSubsetOrderingWellFounded, WFMin, Zenon
<1>3. PICK x \in S : t = 1..x
  BY Zenon
<1>4. ASSUME NEW y \in S, y < x
      PROVE  FALSE
  <2>1. x \in 1..x /\ x \notin 1..y
    BY <1>4
  <2>2. 1..y \subseteq 1..x /\ 1..y # 1..x
    BY <1>4, <2>1
  <2>3. <<1..y, t>> \in StrictSubsetOrdering(Nat)
    BY <1>3, <2>2 DEF StrictSubsetOrdering
  <2> QED
    BY <1>2, <2>3, Zenon
<1>5. \A y \in S : x =< y
  BY <1>4
<1> QED
  BY <1>5, Zenon DEF Min

\* next_chunk_capacity returns a positive size.
LEMMA NextChunkCapacityType ==
  ASSUME NEW size \in Nat
  PROVE  NextChunkCapacity(size) \in Nat \ {0}
<1> DEFINE S == {c \in Ladder : c >= size \/ c = MaxChunk}
<1>1. S \subseteq Nat \ {0} /\ MaxChunk \in S
  BY SizingAssumption DEF Ladder
<1>2. Min(S) \in S
  BY <1>1, MinOfNats, Zenon
<1> QED
  BY <1>1, <1>2, Zenon DEF NextChunkCapacity

-----------------------------------------------------------------------------
(* The checkpoint stack *)

\* The indices of a sequence of length m: as many as the sequence is long.
LEMMA IntervalFromOne ==
  ASSUME NEW m \in Nat
  PROVE  IsFiniteSet(1..m) /\ Cardinality(1..m) = m
<1>1. IsFiniteSet(1..m) /\ Cardinality(1..m) = IF 1 > m THEN 0 ELSE m - 1 + 1
  <2>1. 1 \in Int /\ m \in Int
    OBVIOUS
  <2> QED
    BY <2>1, FS_Interval, Zenon
<1> QED
  BY <1>1

\* What retain keeps of a stack whose ids increase: the first n entries for
\* some n, each with an id below the target's.
LEMMA RetainPrefix ==
  ASSUME NEW stack \in Seq(CheckpointRec), NEW id \in Nat,
         \A i, j \in DOMAIN stack : i < j => stack[i].checkpoint_id < stack[j].checkpoint_id
  PROVE  /\ Retain(stack, id) \in Seq(CheckpointRec)
         /\ Len(Retain(stack, id)) <= Len(stack)
         /\ \A i \in DOMAIN Retain(stack, id) :
              /\ i \in DOMAIN stack
              /\ Retain(stack, id)[i] = stack[i]
              /\ stack[i].checkpoint_id < id
<1> DEFINE S == {i \in DOMAIN stack : stack[i].checkpoint_id < id}
           n == Cardinality(S)
<1>1. DOMAIN stack = 1..Len(stack) /\ Len(stack) \in Nat
  OBVIOUS
<1>0. \A i \in DOMAIN stack : stack[i].checkpoint_id \in Nat
  <2>1. \A i \in DOMAIN stack : stack[i] \in CheckpointRec
    OBVIOUS
  <2> QED
    BY <2>1, Zenon DEF CheckpointRec
<1>2. /\ IsFiniteSet(1..Len(stack)) /\ IsFiniteSet(S)
      /\ n \in Nat /\ n <= Len(stack)
  <2>1. IsFiniteSet(1..Len(stack)) /\ Cardinality(1..Len(stack)) = Len(stack)
    BY <1>1, IntervalFromOne, Zenon
  <2>2. S \in SUBSET (1..Len(stack))
    BY <1>1, Zenon
  <2> HIDE DEF S
  <2> QED
    BY <2>1, <2>2, FS_Subset, FS_CardinalityType, ZenonT(30)
<1>3. ASSUME NEW i \in 1..n
      PROVE  i \in S
  <2>1. SUFFICES ASSUME i \notin S
                 PROVE  FALSE
    BY Zenon
  <2>2. i \in DOMAIN stack /\ stack[i].checkpoint_id >= id
    BY <1>0, <1>1, <1>2, <2>1
  <2>3. S \in SUBSET (1..(i - 1))
    <3>1. SUFFICES ASSUME NEW j \in S
                   PROVE  j < i
      BY <1>1
    <3>2. j # i
      BY <2>1, Zenon
    <3>3. ASSUME i < j
          PROVE  FALSE
      <4>1. stack[i].checkpoint_id < stack[j].checkpoint_id /\ stack[j].checkpoint_id < id
        BY <2>2, <3>3, Zenon
      <4>2. stack[i].checkpoint_id \in Nat /\ stack[j].checkpoint_id \in Nat
        BY <1>0, <2>2, Zenon
      <4> QED
        BY <2>2, <4>1, <4>2
    <3> QED
      BY <1>1, <3>2, <3>3, <2>2
  <2>4. IsFiniteSet(1..(i - 1)) /\ Cardinality(1..(i - 1)) = i - 1
    BY FS_Interval
  <2>5. n <= i - 1
    <3> HIDE DEF S
    <3> QED
      BY <2>3, <2>4, FS_Subset, ZenonT(30)
  <2> QED
    BY <1>2, <2>5
<1>4. Retain(stack, id) = SubSeq(stack, 1, n)
  BY Zenon DEF Retain
<1> HIDE DEF n
<1>5. /\ SubSeq(stack, 1, n) \in Seq(CheckpointRec)
      /\ Len(SubSeq(stack, 1, n)) = n
      /\ \A i \in 1..n : SubSeq(stack, 1, n)[i] = stack[i]
  BY <1>1, <1>2
<1> QED
  BY <1>1, <1>2, <1>3, <1>4, <1>5

-----------------------------------------------------------------------------
(* Rewinding *)

\* How a rewind to mark leaves the scopes: each one is closed, or stays open
\* and stands for no more than mark allocations.
ScopesLowered(mark) ==
  /\ scopes' \in [Guards -> CheckpointRec \cup {NoScope}]
  /\ \A g \in Guards :
       scopes'[g] # NoScope
         => scopes[g] # NoScope /\ scopes'[g] = LowerMark(scopes[g], mark)

\* LowerMark changes a checkpoint's mark only, to the smaller of the two.
LEMMA LowerMarkType ==
  ASSUME NEW c \in CheckpointRec, NEW mark \in Nat
  PROVE  /\ LowerMark(c, mark) \in CheckpointRec
         /\ LowerMark(c, mark).mark <= mark
         /\ LowerMark(c, mark).mark <= c.mark
         /\ LowerMark(c, mark).mark = mark \/ LowerMark(c, mark).mark = c.mark
         /\ LowerMark(c, mark).chunk_index = c.chunk_index
         /\ LowerMark(c, mark).chunk_offset = c.chunk_offset
         /\ LowerMark(c, mark).checkpoint_id = c.checkpoint_id
BY DEF LowerMark, CheckpointRec

\* LoweredScopes is such a change, with or without the dropped scope.
LEMMA LoweredScopesLowers ==
  ASSUME TypeOK, NEW mark \in Nat, NEW g \in Guards,
         \/ scopes' = LoweredScopes(mark)
         \/ scopes' = [LoweredScopes(mark) EXCEPT ![g] = NoScope]
         \/ UNCHANGED scopes /\ NoScopeOpen
  PROVE  ScopesLowered(mark)
<1>1. \A h \in Guards : scopes[h] # NoScope
                          => scopes[h] \in CheckpointRec
                             /\ LowerMark(scopes[h], mark) \in CheckpointRec
  BY LowerMarkType, Zenon DEF TypeOK
<1> QED
  BY <1>1, Zenon DEF ScopesLowered, LoweredScopes, NoScopeOpen, TypeOK

\* A target is a checkpoint that protects the allocations it keeps.
LEMMA TargetFacts ==
  ASSUME IInv
  PROVE  \A c \in Targets : c \in CheckpointRec /\ Protects(c)
<1>1. \A e \in Entries : e \in CheckpointRec
  <2>1. \A i \in DOMAIN checkpoints : checkpoints[i] \in CheckpointRec
    BY DEF IInv, TypeOK
  <2> QED
    BY <2>1, Zenon DEF Entries
<1>2. \A c \in OpenScopes : c \in CheckpointRec
  BY Zenon DEF OpenScopes, IInv, TypeOK
<1>3. \A c \in held : c \in CheckpointRec
  BY Zenon DEF IInv, TypeOK
<1> QED
  BY <1>1, <1>2, <1>3, Zenon DEF Targets, IInv, RewindKeepsEarlierAllocations

\* A rewind to any target, over the stack as it is or with its top popped,
\* preserves the invariant.
LEMMA RewindPreserves ==
  ASSUME ~Debug, IInv, NEW c \in Targets,
         NEW stack \in Seq(CheckpointRec),
         \A i \in DOMAIN stack : i \in DOMAIN checkpoints /\ stack[i] = checkpoints[i],
         Rewind(c, stack), ScopesLowered(c.mark), outOfOrder' \in BOOLEAN
  PROVE  IInv'
<1> DEFINE ci == c.chunk_index
           off == c.chunk_offset
<1>1. /\ c \in CheckpointRec /\ c.mark \in Nat /\ ci \in Nat /\ off \in Nat
      /\ c.checkpoint_id \in Nat /\ c.allocation_count \in Nat
      /\ c.mark <= Len(log)
      /\ \A i \in 1..c.mark : Below(log[i], c)
  BY TargetFacts, Zenon DEF CheckpointRec, Protects
<1>2. /\ ci \in DOMAIN chunks /\ off <= chunks[ci].capacity
      /\ chunks \in Seq(ChunkRec) /\ log \in Seq(BlockRec)
      /\ \A i \in DOMAIN chunks : chunks[i] \in ChunkRec
  BY DEF Rewind, InRange, IInv, TypeOK
<1>3. /\ chunks' \in Seq(ChunkRec) /\ Len(chunks') = Len(chunks)
      /\ DOMAIN chunks' = DOMAIN chunks
      /\ \A i \in DOMAIN chunks :
           /\ chunks'[i].capacity = chunks[i].capacity
           /\ chunks'[i].used = IF i < ci THEN chunks[i].used
                                ELSE IF i = ci THEN off ELSE 0
  <2>1. chunks' = RewoundChunks(c)
    BY Zenon DEF Rewind
  <2>2. \A i \in DOMAIN chunks : RewoundChunks(c)[i] \in ChunkRec
    BY <1>1, <1>2, Zenon DEF RewoundChunks, ChunkRec
  <2>3. DOMAIN chunks = 1..Len(chunks) /\ Len(chunks) \in Nat
    BY <1>2
  <2>4. RewoundChunks(c) \in Seq(ChunkRec) /\ Len(RewoundChunks(c)) = Len(chunks)
    <3>1. RewoundChunks(c) \in [1..Len(chunks) -> ChunkRec]
      BY <2>2, <2>3, Zenon DEF RewoundChunks
    <3> QED
      BY <2>3, <3>1, SeqDef, LenProperties
  <2>5. \A i \in DOMAIN chunks :
           /\ RewoundChunks(c)[i].capacity = chunks[i].capacity
           /\ RewoundChunks(c)[i].used = IF i < ci THEN chunks[i].used
                                         ELSE IF i = ci THEN off ELSE 0
    BY <1>2, Zenon DEF RewoundChunks, ChunkRec
  <2>6. DOMAIN RewoundChunks(c) = DOMAIN chunks
    BY Zenon DEF RewoundChunks
  <2> QED
    BY <2>1, <2>4, <2>5, <2>6, Zenon
<1>4. /\ log' \in Seq(BlockRec) /\ Len(log') = c.mark /\ DOMAIN log' = 1..c.mark
      /\ \A i \in 1..c.mark : i \in DOMAIN log /\ log'[i] = log[i]
  <2>1. log' = SubSeq(log, 1, c.mark)
    BY Zenon DEF Rewind
  <2>2. log \in Seq(BlockRec) /\ c.mark \in Nat /\ c.mark <= Len(log)
    BY <1>1, <1>2, Zenon
  <2> QED
    BY <2>1, <2>2, PrefixFacts
<1>5. /\ checkpoints' \in Seq(CheckpointRec)
      /\ \A i \in DOMAIN checkpoints' :
           /\ i \in DOMAIN checkpoints
           /\ checkpoints'[i] = checkpoints[i]
           /\ checkpoints[i].checkpoint_id < c.checkpoint_id
  <2>1. \A i, j \in DOMAIN stack : i < j => stack[i].checkpoint_id < stack[j].checkpoint_id
    BY Zenon DEF IInv, IdsOrderTargets
  <2>2. checkpoints' = Retain(stack, c.checkpoint_id)
    BY Zenon DEF Rewind
  <2> QED
    BY <1>1, <2>1, <2>2, RetainPrefix
<1>6. current_checkpoint_id' = current_checkpoint_id
  BY Zenon DEF Rewind
<1>7. \A e \in Entries' : e \in Entries /\ e.mark <= c.mark
  BY <1>5, Zenon DEF Entries, IInv, IdsOrderTargets
<1>8. \A d \in held' : d \in held /\ d.mark <= c.mark
  BY Zenon DEF Rewind
<1>9. \A d \in OpenScopes' : \E s \in OpenScopes : d = LowerMark(s, c.mark)
  BY Zenon DEF OpenScopes, ScopesLowered
\* Each target after the rewind comes from one before it.
<1>10. ASSUME NEW d \in Targets'
       PROVE  \E s \in Targets :
                /\ d.mark <= s.mark /\ d.mark <= c.mark
                /\ d.mark = s.mark \/ d.mark = c.mark
                /\ d.chunk_index = s.chunk_index /\ d.chunk_offset = s.chunk_offset
                /\ d.checkpoint_id = s.checkpoint_id
                /\ d.mark \in Nat
  <2>1. CASE d \in held' \cup Entries'
    <3>1. d \in Targets /\ d.mark <= c.mark
      BY <1>7, <1>8, <2>1, Zenon DEF Targets
    <3>2. d.mark \in Nat
      BY <3>1, TargetFacts, Zenon DEF CheckpointRec
    <3> QED
      BY <3>1, <3>2
  <2>2. CASE d \in OpenScopes'
    <3>1. PICK s \in OpenScopes : d = LowerMark(s, c.mark)
      BY <1>9, <2>2, Zenon
    <3>2. s \in Targets /\ s \in CheckpointRec
      BY TargetFacts, Zenon DEF Targets
    <3>3. d \in CheckpointRec /\ d.mark \in Nat
      BY <1>1, <3>1, <3>2, LowerMarkType, Zenon DEF CheckpointRec
    <3> QED
      BY <1>1, <3>1, <3>2, <3>3, LowerMarkType, ZenonT(30)
  <2> QED
    BY <2>1, <2>2, Zenon DEF Targets
<1>11. ASSUME NEW d \in Targets'
       PROVE  Protects(d)'
  <2>1. PICK s \in Targets :
           /\ d.mark <= s.mark /\ d.mark <= c.mark
           /\ d.chunk_index = s.chunk_index /\ d.chunk_offset = s.chunk_offset
           /\ d.mark \in Nat
    BY <1>10, Zenon
  <2>2. Protects(s) /\ s.mark \in Nat
    BY TargetFacts, Zenon DEF CheckpointRec
  <2>3. \A i \in 1..d.mark : Below(log'[i], d)
    <3> TAKE i \in 1..d.mark
    <3>1. i \in 1..s.mark /\ i \in 1..c.mark
      BY <1>1, <2>1, <2>2
    <3>2. Below(log[i], s) /\ log'[i] = log[i]
      BY <1>4, <2>2, <3>1, Zenon DEF Protects
    <3> QED
      BY <2>1, <3>2, Zenon DEF Below
  <2> QED
    BY <1>4, <2>1, <2>3, Zenon DEF Protects, Below
<1>12. TypeOK'
  <2>1. current_chunk' \in DOMAIN chunks' /\ chunks' # <<>>
    BY <1>2, <1>3 DEF Rewind
  <2>2. held' \subseteq CheckpointRec
    BY <1>8, Zenon DEF IInv, TypeOK
  <2>3. /\ current_checkpoint_id' \in Nat /\ bytes_allocated' \in Nat
        /\ allocation_count' \in Nat /\ outcome' \in {"ok", "panic", "abort"}
    BY <1>1, <1>6, Zenon DEF Rewind, IInv, TypeOK
  <2> QED
    BY <1>3, <1>4, <1>5, <2>1, <2>2, <2>3 DEF TypeOK, ScopesLowered
<1>13. LiveBlocksInBounds'
  <2>1. \A i \in DOMAIN chunks' : chunks'[i].used <= chunks'[i].capacity
    <3>1. \A i \in DOMAIN chunks :
            /\ chunks[i].used <= chunks[i].capacity
            /\ chunks[i].used \in Nat /\ chunks[i].capacity \in Nat
      BY <1>2, Zenon DEF IInv, LiveBlocksInBounds, ChunkRec
    <3> QED
      BY <1>1, <1>2, <1>3, <3>1
  <2>2. ASSUME NEW i \in DOMAIN log', log'[i].lo < log'[i].hi
        PROVE  /\ log'[i].chunk \in 1..current_chunk'
               /\ log'[i].hi <= chunks'[log'[i].chunk].used
    <3>1. /\ i \in 1..c.mark /\ i \in DOMAIN log /\ log'[i] = log[i]
          /\ Below(log[i], c) /\ log[i] \in BlockRec
      BY <1>1, <1>2, <1>4, <2>2
    <3>2. /\ log[i].chunk \in 1..current_chunk
          /\ log[i].hi <= chunks[log[i].chunk].used
      BY <2>2, <3>1, Zenon DEF IInv, LiveBlocksInBounds
    <3>3. current_chunk' = ci /\ current_chunk \in 1..Len(chunks)
      BY <1>2 DEF Rewind, IInv, TypeOK
    <3>4. log[i].chunk \in DOMAIN chunks
      BY <1>2, <3>2, <3>3
    <3> QED
      BY <1>1, <1>3, <2>2, <3>1, <3>2, <3>3, <3>4, SMTT(30) DEF Below, BlockRec
  <2> QED
    BY <2>1, <2>2, Zenon DEF LiveBlocksInBounds
<1>14. LiveBlocksDisjoint'
  BY <1>4 DEF IInv, LiveBlocksDisjoint
<1>15. RewindKeepsEarlierAllocations'
  <2>1. \A d \in held' \cup Entries' : InRange(d)'
    BY <1>3, <1>7, <1>8, Zenon DEF IInv, RewindKeepsEarlierAllocations, InRange
  <2> QED
    BY <1>11, <2>1, Zenon DEF RewindKeepsEarlierAllocations, Targets
<1>16. IdsOrderTargets'
  <2>1. \A i, j \in DOMAIN checkpoints' :
          i < j => checkpoints'[i].checkpoint_id < checkpoints'[j].checkpoint_id
    BY <1>5, Zenon DEF IInv, IdsOrderTargets
  <2>2. \A d \in Targets' : d.checkpoint_id < current_checkpoint_id'
    BY <1>6, <1>10, Zenon DEF IInv, IdsOrderTargets
  <2>3. \A e \in Entries', d \in Targets' : e.checkpoint_id < d.checkpoint_id => e.mark <= d.mark
    BY <1>7, <1>10, Zenon DEF IInv, IdsOrderTargets
  <2> QED
    BY <2>1, <2>2, <2>3, Zenon DEF IdsOrderTargets
<1> QED
  BY <1>12, <1>13, <1>14, <1>15, <1>16, Zenon DEF IInv

-----------------------------------------------------------------------------
(* Allocating *)

\* A bump allocation in chunk i of chs - the current chunk of the arena, or a
\* chunk just appended to it - preserves the invariant.
LEMMA AllocateInPreserves ==
  ASSUME IInv, NEW l \in Layouts, NEW chs \in Seq(ChunkRec), NEW i \in DOMAIN chs,
         \A j \in DOMAIN chunks : j \in DOMAIN chs /\ chs[j] = chunks[j],
         \A j \in DOMAIN chs : chs[j].used <= chs[j].capacity,
         \/ i = current_chunk
         \/ i \notin DOMAIN chunks /\ current_chunk < i,
         l.size > 0, AllocateIn(chs, i, l), current_chunk' = i,
         bytes_allocated' \in Nat, outcome' = "ok", UNCHANGED marks
  PROVE  IInv'
<1> DEFINE start == AlignUp(chs[i].used, l.align)
           b == [chunk |-> i, lo |-> start, hi |-> start + l.size, align |-> l.align]
<1>1. /\ chs[i] \in ChunkRec /\ chs[i].used \in Nat /\ chs[i].capacity \in Nat
      /\ l.size \in Nat /\ l.align \in Nat \ {0} /\ i \in Nat
      /\ \A j \in DOMAIN chs : chs[j] \in ChunkRec
      /\ Len(chs) \in Nat /\ DOMAIN chs = 1..Len(chs)
  <2>1. /\ \A j \in DOMAIN chs : chs[j] \in ChunkRec
        /\ Len(chs) \in Nat /\ DOMAIN chs = 1..Len(chs)
    OBVIOUS
  <2>2. chs[i] \in [base : Nat, capacity : Nat, used : Nat]
    BY <2>1, Zenon DEF ChunkRec
  <2> QED
    BY <2>1, <2>2, ArenaAssumption, ChunkAssumption
<1>2. start \in Nat /\ start >= chs[i].used
  BY <1>1, AlignUpBounds, Zenon
<1>3. start + l.size <= chs[i].capacity
  BY Zenon DEF AllocateIn, Fits
<1> HIDE DEF start
<1>4. b \in BlockRec
  BY <1>1, <1>2 DEF BlockRec
<1>5. /\ chunks' \in Seq(ChunkRec) /\ DOMAIN chunks' = DOMAIN chs
      /\ \A j \in DOMAIN chs : chunks'[j].capacity = chs[j].capacity
      /\ \A j \in DOMAIN chs : chunks'[j].used = IF j = i THEN start + l.size ELSE chs[j].used
  <2>1. chunks' = [chs EXCEPT ![i].used = start + l.size]
    BY Zenon DEF AllocateIn, start
  <2>2. [chs[i] EXCEPT !.used = start + l.size] \in ChunkRec
    <3>1. chs[i] \in [base : Nat, capacity : Nat, used : Nat]
      BY <1>1, Zenon DEF ChunkRec
    <3>2. start + l.size \in Nat
      BY <1>1, <1>2
    <3> QED
      BY <3>1, <3>2, ZenonT(30) DEF ChunkRec
  <2>3. /\ DOMAIN chunks' = DOMAIN chs
        /\ \A j \in DOMAIN chs : chunks'[j] = IF j = i THEN [chs[i] EXCEPT !.used = start + l.size]
                                              ELSE chs[j]
    BY <2>1, Zenon
  <2>4. chunks' \in [1..Len(chs) -> ChunkRec]
    BY <1>1, <2>1, <2>2, <2>3, Zenon
  <2> QED
    <3>1. chunks' \in Seq(ChunkRec)
      BY <1>1, <2>4, SeqDef, SMTT(30)
    <3>2. /\ [chs[i] EXCEPT !.used = start + l.size].used = start + l.size
          /\ [chs[i] EXCEPT !.used = start + l.size].capacity = chs[i].capacity
      BY <1>1, Zenon DEF ChunkRec
    <3> QED
      BY <2>3, <3>1, <3>2, Zenon
<1>6. /\ log \in Seq(BlockRec) /\ log' = Append(log, b)
      /\ Len(log) \in Nat /\ DOMAIN log = 1..Len(log)
  BY DEF AllocateIn, start, IInv, TypeOK
<1> HIDE DEF b
<1>7. /\ log' \in Seq(BlockRec) /\ Len(log') = Len(log) + 1
      /\ DOMAIN log' = 1..(Len(log) + 1)
      /\ \A j \in DOMAIN log : j \in DOMAIN log' /\ log'[j] = log[j]
      /\ log'[Len(log) + 1] = b
  BY <1>4, <1>6
<1>8. b.chunk = i /\ b.lo = start /\ b.hi = start + l.size
  BY Zenon DEF b
\* A live block in chunk i ends below the new one.
<1>9. ASSUME NEW j \in DOMAIN log, log[j].lo < log[j].hi
      PROVE  /\ log[j].chunk \in DOMAIN chunks /\ log[j].chunk <= i
             /\ log[j].chunk = i => log[j].hi <= start
             /\ log[j].hi <= chunks'[log[j].chunk].used
  <2>1. log[j] \in BlockRec /\ log[j].hi \in Nat /\ log[j].chunk \in Nat
    <3>1. log[j] \in BlockRec
      BY <1>6
    <3> QED
      BY <3>1, Zenon DEF BlockRec
  <2>2. /\ log[j].chunk \in 1..current_chunk
        /\ log[j].hi <= chunks[log[j].chunk].used
    BY <1>9, Zenon DEF IInv, LiveBlocksInBounds
  <2>3. current_chunk \in 1..Len(chunks) /\ DOMAIN chunks = 1..Len(chunks) /\ Len(chunks) \in Nat
    BY DEF IInv, TypeOK
  <2>4. log[j].chunk \in DOMAIN chunks /\ log[j].chunk <= i
    BY <1>1, <2>2, <2>3
  <2>5. log[j].hi <= chs[log[j].chunk].used /\ log[j].chunk \in DOMAIN chs
    BY <2>2, <2>4, Zenon
  <2>6. chs[log[j].chunk].used \in Nat
    BY <1>1, <2>5, Zenon DEF ChunkRec
  <2>7. log[j].chunk = i => log[j].hi <= start
    BY <1>1, <1>2, <2>1, <2>5
  <2>8. log[j].hi <= chunks'[log[j].chunk].used
    <3>1. CASE log[j].chunk = i
      BY <1>1, <1>2, <1>5, <2>1, <2>7, <3>1
    <3>2. CASE log[j].chunk # i
      BY <1>5, <2>5, <3>2, Zenon
    <3> QED
      BY <3>1, <3>2, Zenon
  <2> QED
    BY <2>4, <2>7, <2>8, Zenon
<1>10. TypeOK'
  <2>1. chunks' # <<>> /\ current_chunk' \in DOMAIN chunks'
    BY <1>1, <1>5
  <2>2. allocation_count' \in Nat
    BY DEF AllocateIn, IInv, TypeOK
  <2> QED
    BY <1>5, <1>7, <2>1, <2>2, Zenon DEF IInv, TypeOK, marks
<1>11. LiveBlocksInBounds'
  <2>1. \A j \in DOMAIN chunks' : chunks'[j].used <= chunks'[j].capacity
    BY <1>3, <1>5, Zenon
  <2>2. ASSUME NEW j \in DOMAIN log', log'[j].lo < log'[j].hi
        PROVE  /\ log'[j].chunk \in 1..current_chunk'
               /\ log'[j].hi <= chunks'[log'[j].chunk].used
    <3>1. CASE j \in DOMAIN log
      <4>1. log[j].chunk \in DOMAIN chunks /\ log[j].chunk <= i
            /\ log[j].hi <= chunks'[log[j].chunk].used
        BY <1>7, <1>9, <2>2, <3>1, Zenon
      <4>2. DOMAIN chunks = 1..Len(chunks) /\ Len(chunks) \in Nat
        BY DEF IInv, TypeOK
      <4> QED
        BY <1>1, <1>7, <3>1, <4>1, <4>2
    <3>2. CASE j = Len(log) + 1
      BY <1>1, <1>2, <1>5, <1>7, <1>8, <3>2
    <3> QED
      BY <1>6, <1>7, <3>1, <3>2
  <2> QED
    BY <2>1, <2>2, Zenon DEF LiveBlocksInBounds
<1>12. LiveBlocksDisjoint'
  <2>1. SUFFICES ASSUME NEW j \in DOMAIN log', NEW k \in DOMAIN log', j < k,
                        log'[j].lo < log'[j].hi, log'[k].lo < log'[k].hi
                 PROVE  \/ log'[j].chunk # log'[k].chunk
                        \/ log'[j].hi <= log'[k].lo
                        \/ log'[k].hi <= log'[j].lo
    BY <1>7 DEF LiveBlocksDisjoint
  <2>2. j \in DOMAIN log
    BY <1>6, <1>7, <2>1
  <2>3. CASE k \in DOMAIN log
    BY <1>7, <2>1, <2>2, <2>3, SMTT(30) DEF IInv, LiveBlocksDisjoint
  <2>4. CASE k = Len(log) + 1
    BY <1>7, <1>8, <1>9, <2>1, <2>2, <2>4
  <2> QED
    BY <1>6, <1>7, <2>3, <2>4
<1>13. Entries' = Entries /\ OpenScopes' = OpenScopes /\ held' = held
  BY Zenon DEF marks, Entries, OpenScopes
<1>14. RewindKeepsEarlierAllocations'
  <2>1. ASSUME NEW c \in Targets
        PROVE  Protects(c)'
    <3>1. Protects(c) /\ c.mark \in Nat
      BY TargetFacts, Zenon DEF CheckpointRec
    <3>2. \A j \in 1..c.mark : j \in DOMAIN log /\ log'[j] = log[j]
      BY <1>6, <1>7, <3>1 DEF Protects
    <3>3. \A j \in 1..c.mark : Below(log'[j], c)
      BY <3>1, <3>2, Zenon DEF Protects
    <3>4. c.mark <= Len(log')
      BY <1>6, <1>7, <3>1 DEF Protects
    <3> QED
      BY <3>3, <3>4, Zenon DEF Protects, Below
  <2>2. \A c \in held \cup Entries : InRange(c)'
    BY <1>5, Zenon DEF InRange, IInv, RewindKeepsEarlierAllocations
  <2> QED
    BY <1>13, <2>1, <2>2, Zenon DEF RewindKeepsEarlierAllocations, Targets
<1>15. IdsOrderTargets'
  BY <1>13, Zenon DEF IInv, IdsOrderTargets, Targets, marks
<1> QED
  BY <1>10, <1>11, <1>12, <1>14, <1>15, Zenon DEF IInv

-----------------------------------------------------------------------------
(* Taking a checkpoint *)

\* The clamp of the current index does nothing, and the checkpoint taken is a
\* target that protects every live allocation.
LEMMA TakenCheckpointFacts ==
  ASSUME IInv
  PROVE  /\ CurrentIndex = current_chunk
         /\ TakenCheckpoint \in CheckpointRec
         /\ TakenCheckpoint.mark = Len(log)
         /\ TakenCheckpoint.checkpoint_id = current_checkpoint_id
         /\ Protects(TakenCheckpoint) /\ InRange(TakenCheckpoint)
<1>1. /\ chunks \in Seq(ChunkRec) /\ current_chunk \in DOMAIN chunks
      /\ DOMAIN chunks = 1..Len(chunks) /\ Len(chunks) \in Nat
      /\ log \in Seq(BlockRec) /\ Len(log) \in Nat /\ DOMAIN log = 1..Len(log)
      /\ allocation_count \in Nat /\ current_checkpoint_id \in Nat
  BY DEF IInv, TypeOK
<1>2. CurrentIndex = current_chunk
  BY <1>1 DEF CurrentIndex
<1>3. chunks[current_chunk].used \in Nat
  <2>1. chunks[current_chunk] \in ChunkRec
    BY <1>1
  <2> QED
    BY <2>1, Zenon DEF ChunkRec
<1>4. TakenCheckpoint = [chunk_index |-> current_chunk,
                         chunk_offset |-> chunks[current_chunk].used,
                         checkpoint_id |-> current_checkpoint_id,
                         allocation_count |-> allocation_count, mark |-> Len(log)]
  BY <1>2, Zenon DEF TakenCheckpoint
<1>5. TakenCheckpoint \in CheckpointRec
  BY <1>1, <1>3, <1>4 DEF CheckpointRec
<1>6. \A i \in DOMAIN log : Below(log[i], TakenCheckpoint)
  BY <1>1, <1>4 DEF Below, IInv, LiveBlocksInBounds
<1>7. InRange(TakenCheckpoint)
  BY <1>1, <1>4, Zenon DEF InRange, IInv, LiveBlocksInBounds
<1> QED
  BY <1>1, <1>2, <1>4, <1>5, <1>6, <1>7 DEF Protects

\* Handing out a checkpoint - to the caller, onto the stack as well, or to a
\* new scope - preserves the invariant.
LEMMA CheckpointPreserves ==
  ASSUME IInv, UseCheckpointId,
         /\ held' \subseteq held \cup {TakenCheckpoint}
         /\ \/ UNCHANGED checkpoints
            \/ checkpoints' = Append(checkpoints, TakenCheckpoint)
         /\ scopes' \in [Guards -> CheckpointRec \cup {NoScope}]
         /\ \A g \in Guards : scopes'[g] = scopes[g] \/ scopes'[g] = TakenCheckpoint
  PROVE  IInv'
<1> DEFINE t == TakenCheckpoint
<1>1. /\ t \in CheckpointRec /\ t.mark = Len(log) /\ t.checkpoint_id = current_checkpoint_id
      /\ Protects(t) /\ InRange(t)
  BY TakenCheckpointFacts, Zenon
<1> HIDE DEF t
<1>2. /\ UNCHANGED <<chunks, current_chunk, log, bytes_allocated, allocation_count, outOfOrder>>
      /\ current_checkpoint_id' = current_checkpoint_id + 1 /\ outcome' = "ok"
      /\ current_checkpoint_id \in Nat
  BY Zenon DEF UseCheckpointId, memory, stats, IInv, TypeOK
<1>3. /\ checkpoints \in Seq(CheckpointRec) /\ Len(checkpoints) \in Nat
      /\ DOMAIN checkpoints = 1..Len(checkpoints)
      /\ UNCHANGED checkpoints \/ checkpoints' = Append(checkpoints, t)
  BY DEF IInv, TypeOK, t
<1>4. /\ checkpoints' \in Seq(CheckpointRec)
      /\ \A i \in DOMAIN checkpoints' : i \in 1..(Len(checkpoints) + 1)
      /\ \A i \in DOMAIN checkpoints' :
           \/ i \in DOMAIN checkpoints /\ checkpoints'[i] = checkpoints[i]
           \/ i = Len(checkpoints) + 1 /\ checkpoints'[i] = t
  <2>1. CASE UNCHANGED checkpoints
    BY <1>3, <2>1
  <2>2. CASE checkpoints' = Append(checkpoints, t)
    <3>1. /\ checkpoints' \in Seq(CheckpointRec)
          /\ DOMAIN checkpoints' = 1..(Len(checkpoints) + 1)
          /\ checkpoints'[Len(checkpoints) + 1] = t
          /\ \A i \in 1..Len(checkpoints) : checkpoints'[i] = checkpoints[i]
      <4>1. checkpoints \in Seq(CheckpointRec) /\ t \in CheckpointRec
        BY <1>1, <1>3, Zenon
      <4>2. /\ Append(checkpoints, t) \in Seq(CheckpointRec)
            /\ Len(Append(checkpoints, t)) = Len(checkpoints) + 1
            /\ \A i \in 1..Len(checkpoints) : Append(checkpoints, t)[i] = checkpoints[i]
            /\ Append(checkpoints, t)[Len(checkpoints) + 1] = t
        BY <4>1, AppendProperties
      <4>3. DOMAIN Append(checkpoints, t) = 1..(Len(checkpoints) + 1)
        BY <4>2, LenProperties, Zenon
      <4> QED
        BY <2>2, <4>2, <4>3, Zenon
    <3> QED
      BY <1>3, <3>1
  <2> QED
    BY <1>3, <2>1, <2>2, Zenon
<1>5. \A e \in Entries' : e \in Entries \cup {t}
  BY <1>4, Zenon DEF Entries
<1>6. \A d \in OpenScopes' : d \in OpenScopes \cup {t}
  BY Zenon DEF OpenScopes, t
<1>7. \A d \in held' : d \in held \cup {t}
  BY Zenon DEF t
<1>8. \A d \in Targets' : d \in Targets \cup {t}
  BY <1>5, <1>6, <1>7, Zenon DEF Targets
<1>9. TypeOK'
  <2>1. held' \subseteq CheckpointRec
    BY <1>1, <1>7, Zenon DEF IInv, TypeOK
  <2>2. current_checkpoint_id' \in Nat
    BY <1>2
  <2>3. /\ chunks' \in Seq(ChunkRec) /\ chunks' # <<>> /\ current_chunk' \in DOMAIN chunks'
        /\ bytes_allocated' \in Nat /\ allocation_count' \in Nat
        /\ log' \in Seq(BlockRec) /\ outOfOrder' \in BOOLEAN
    BY <1>2, Zenon DEF IInv, TypeOK
  <2> QED
    BY <1>2, <1>4, <2>1, <2>2, <2>3 DEF TypeOK
<1>10. LiveBlocksInBounds' /\ LiveBlocksDisjoint'
  BY <1>2, Zenon DEF IInv, LiveBlocksInBounds, LiveBlocksDisjoint
<1>11. RewindKeepsEarlierAllocations'
  <2>1. \A d \in Targets' : Protects(d)'
    BY <1>1, <1>2, <1>8, TargetFacts, ZenonT(30) DEF Protects, Below
  <2>2. \A d \in held' \cup Entries' : InRange(d)'
    BY <1>1, <1>2, <1>5, <1>7 DEF InRange, IInv, RewindKeepsEarlierAllocations
  <2> QED
    BY <2>1, <2>2, SMTT(30) DEF RewindKeepsEarlierAllocations, Targets
<1>12. IdsOrderTargets'
  <2>1. \A c \in Targets : /\ c.checkpoint_id \in Nat /\ c.mark \in Nat
                           /\ c.checkpoint_id < current_checkpoint_id /\ c.mark <= Len(log)
    BY TargetFacts, Zenon DEF CheckpointRec, Protects, IInv, IdsOrderTargets
  <2>2. \A i \in DOMAIN checkpoints : checkpoints[i] \in Targets
    BY Zenon DEF Targets, Entries
  <2>3. \A i, j \in DOMAIN checkpoints' :
          i < j => checkpoints'[i].checkpoint_id < checkpoints'[j].checkpoint_id
    <3> SUFFICES ASSUME NEW i \in DOMAIN checkpoints', NEW j \in DOMAIN checkpoints', i < j
                 PROVE  checkpoints'[i].checkpoint_id < checkpoints'[j].checkpoint_id
      BY Zenon
    <3>1. i \in 1..(Len(checkpoints) + 1) /\ j \in 1..(Len(checkpoints) + 1)
      BY <1>4, Zenon
    <3>4. i # Len(checkpoints) + 1
      BY <1>3, <3>1
    <3>5. i \in DOMAIN checkpoints /\ checkpoints'[i] = checkpoints[i]
      BY <1>4, <3>4, Zenon
    <3>2. CASE j \in DOMAIN checkpoints /\ checkpoints'[j] = checkpoints[j]
      BY <3>2, <3>5, Zenon DEF IInv, IdsOrderTargets
    <3>3. CASE checkpoints'[j] = t
      BY <1>1, <2>1, <2>2, <3>3, <3>5
    <3> QED
      BY <1>4, <3>2, <3>3, Zenon
  <2>4. \A d \in Targets' : d.checkpoint_id < current_checkpoint_id'
    BY <1>1, <1>2, <1>8, <2>1
  <2>5. \A e \in Entries : e \in Targets
    BY Zenon DEF Targets
  <2>6. \A e \in Entries', d \in Targets' : e.checkpoint_id < d.checkpoint_id => e.mark <= d.mark
    BY <1>1, <1>2, <1>5, <1>8, <2>1, <2>5 DEF IInv, IdsOrderTargets
  <2> QED
    BY <2>3, <2>4, <2>6, Zenon DEF IdsOrderTargets
<1> QED
  BY <1>9, <1>10, <1>11, <1>12, Zenon DEF IInv

-----------------------------------------------------------------------------
(***************************************************************************)
(* The safety theorems about Arena, from the inductive invariant above,    *)
(* and the refinement of the abstract region allocator.                    *)
(***************************************************************************)

(* Clearing the checkpoint stack, failing, and starting over *)

\* Steps that leave the memory alone and only forget targets.
LEMMA ForgettingPreserves ==
  ASSUME IInv, UNCHANGED <<chunks, current_chunk, log, current_checkpoint_id, held, outOfOrder>>,
         bytes_allocated' \in Nat, allocation_count' \in Nat,
         outcome' \in {"ok", "panic", "abort"},
         UNCHANGED checkpoints \/ checkpoints' = <<>>,
         scopes' \in [Guards -> CheckpointRec \cup {NoScope}],
         \A g \in Guards : scopes'[g] = scopes[g] \/ scopes'[g] = NoScope
  PROVE  IInv'
<1>1. Entries' \subseteq Entries /\ OpenScopes' \subseteq OpenScopes
  BY DEF Entries, OpenScopes
<1>2. Targets' \subseteq Targets
  BY <1>1, Zenon DEF Targets
<1>3. TypeOK'
  <2>1. checkpoints' \in Seq(CheckpointRec)
    BY EmptySeq, ZenonT(30) DEF IInv, TypeOK
  <2> QED
    BY <2>1, Zenon DEF IInv, TypeOK
<1>4. LiveBlocksInBounds' /\ LiveBlocksDisjoint'
  BY Zenon DEF IInv, LiveBlocksInBounds, LiveBlocksDisjoint
<1>5. RewindKeepsEarlierAllocations'
  BY <1>1, Zenon DEF IInv, RewindKeepsEarlierAllocations, Protects, Below, InRange
<1>6. IdsOrderTargets'
  BY <1>1, <1>2 DEF IInv, IdsOrderTargets
<1> QED
  BY <1>3, <1>4, <1>5, <1>6, Zenon DEF IInv

\* A state with nothing live, no stack and no held checkpoint, in which the
\* open scopes stand for no allocation, satisfies the invariant.
LEMMA EmptyArenaInv ==
  ASSUME TypeOK', log' = <<>>, held' = {}, checkpoints' = <<>>,
         \A i \in DOMAIN chunks' : chunks'[i].used = 0,
         \A c \in OpenScopes' : c.mark = 0 /\ c.checkpoint_id < current_checkpoint_id'
  PROVE  IInv'
<1>1. Entries' = {}
  BY DEF Entries
<1>2. LiveBlocksInBounds'
  <2>1. \A i \in DOMAIN chunks' : chunks'[i].capacity \in Nat
    <3>1. \A i \in DOMAIN chunks' : chunks'[i] \in ChunkRec
      BY DEF TypeOK
    <3> QED
      BY <3>1, Zenon DEF ChunkRec
  <2> QED
    BY <2>1 DEF LiveBlocksInBounds
<1>3. LiveBlocksDisjoint'
  BY DEF LiveBlocksDisjoint
<1>4. RewindKeepsEarlierAllocations'
  BY <1>1 DEF RewindKeepsEarlierAllocations, Protects
<1>5. IdsOrderTargets'
  BY <1>1 DEF IdsOrderTargets, Targets
<1> QED
  BY <1>2, <1>3, <1>4, <1>5, Zenon DEF IInv

\* Arena::reset preserves the invariant.
LEMMA ResetPreserves == IInv /\ Reset => IInv'
<1> SUFFICES ASSUME IInv, Reset
             PROVE  IInv'
  BY Zenon
<1>1. /\ chunks \in Seq(ChunkRec) /\ chunks # <<>>
      /\ DOMAIN chunks = 1..Len(chunks) /\ Len(chunks) \in Nat
      /\ \A i \in DOMAIN chunks : chunks[i] \in ChunkRec
  BY DEF IInv, TypeOK
<1>2. \A i \in DOMAIN chunks : /\ [chunks[i] EXCEPT !.used = 0] \in ChunkRec
                               /\ [chunks[i] EXCEPT !.used = 0].used = 0
  BY <1>1, Zenon DEF ChunkRec
<1>3. /\ chunks' \in Seq(ChunkRec) /\ DOMAIN chunks' = DOMAIN chunks
      /\ \A i \in DOMAIN chunks' : chunks'[i].used = 0
  <2>1. chunks' = [i \in DOMAIN chunks |-> [chunks[i] EXCEPT !.used = 0]]
    BY Zenon DEF Reset
  <2>2. chunks' \in [1..Len(chunks) -> ChunkRec]
    BY <1>1, <1>2, <2>1, Zenon
  <2> QED
    BY <1>1, <1>2, <2>1, <2>2, SeqDef, ZenonT(30)
<1>4. TypeOK'
  <2>1. 1 \in DOMAIN chunks
    BY <1>1
  <2>2. chunks' # <<>>
    BY <1>3, <2>1
  <2> QED
    BY <1>3, <2>2, <2>1, EmptySeq, Zenon DEF Reset, IInv, TypeOK
<1>5. OpenScopes' = {}
  BY Zenon DEF Reset, NoScopeOpen, OpenScopes
<1> QED
  BY <1>3, <1>4, <1>5, EmptyArenaInv, Zenon DEF Reset

\* reset_and_shrink_to_fit preserves the invariant, with scopes open or not.
LEMMA ShrinkPreserves == IInv /\ ResetAndShrinkToFit => IInv'
<1> SUFFICES ASSUME IInv, ResetAndShrinkToFit
             PROVE  IInv'
  BY Zenon
<1>1. chunks[1] \in ChunkRec
  BY DEF IInv, TypeOK
<1>2. /\ [chunks[1] EXCEPT !.used = 0] \in ChunkRec
      /\ [chunks[1] EXCEPT !.used = 0].used = 0
  BY <1>1, Zenon DEF ChunkRec
<1>3. /\ chunks' \in Seq(ChunkRec) /\ chunks' # <<>> /\ 1 \in DOMAIN chunks'
      /\ \A i \in DOMAIN chunks' : chunks'[i].used = 0
  <2> DEFINE x == [chunks[1] EXCEPT !.used = 0]
  <2>1. chunks' = <<x>> /\ x \in ChunkRec /\ x.used = 0
    BY <1>2, Zenon DEF ResetAndShrinkToFit
  <2> HIDE DEF x
  <2> QED
    BY <2>1
<1>4. ASSUME NEW g \in Guards
      PROVE  scopes'[g] = IF scopes[g] = NoScope THEN NoScope ELSE LowerMark(scopes[g], 0)
  BY Zenon DEF ResetAndShrinkToFit, LoweredScopes
<1>5. \A h \in Guards : scopes[h] # NoScope
                          => /\ scopes[h] \in CheckpointRec
                             /\ LowerMark(scopes[h], 0) \in CheckpointRec
                             /\ LowerMark(scopes[h], 0).mark = 0
                             /\ LowerMark(scopes[h], 0).checkpoint_id = scopes[h].checkpoint_id
  <2> TAKE h \in Guards
  <2> HAVE scopes[h] # NoScope
  <2>1. scopes[h] \in CheckpointRec
    BY Zenon DEF IInv, TypeOK
  <2>2. LowerMark(scopes[h], 0).mark \in Nat
    BY <2>1, LowerMarkType, Zenon DEF CheckpointRec
  <2> QED
    BY <2>1, <2>2, LowerMarkType
<1>6. scopes' \in [Guards -> CheckpointRec \cup {NoScope}]
  BY <1>5, Zenon DEF ResetAndShrinkToFit, LoweredScopes
<1>7. TypeOK'
  BY <1>3, <1>6, EmptySeq, Zenon DEF ResetAndShrinkToFit, IInv, TypeOK
<1>8. \A c \in OpenScopes' : c.mark = 0 /\ c.checkpoint_id < current_checkpoint_id'
  <2>1. \A s \in OpenScopes : s.checkpoint_id < current_checkpoint_id
    BY Zenon DEF IInv, IdsOrderTargets, Targets
  <2> QED
    BY <1>4, <1>5, <2>1 DEF OpenScopes, ResetAndShrinkToFit
<1> QED
  BY <1>3, <1>7, <1>8, EmptyArenaInv, Zenon DEF ResetAndShrinkToFit

-----------------------------------------------------------------------------
(* The invariant *)

\* A new arena satisfies the invariant.
LEMMA InitInv == Init => IInv
<1> SUFFICES ASSUME Init
             PROVE  IInv
  BY Zenon
<1>1. PICK requested \in Capacities, base \in Bases :
        LET capacity == IF requested = 0 THEN DefaultChunk ELSE requested IN
        /\ chunks = <<NewChunk(base, capacity)>>
        /\ bytes_allocated = capacity
  BY Zenon DEF Init, InitialCapacity
<1> DEFINE capacity == IF requested = 0 THEN DefaultChunk ELSE requested
           x == NewChunk(base, capacity)
<1>2. capacity \in Nat /\ base \in Nat
  BY ArenaAssumption, ChunkAssumption, Zenon
<1>3. x \in ChunkRec /\ x.used = 0 /\ x.capacity \in Nat
  <2>1. AlignUp(capacity, ChunkAlign) \in Nat
    BY <1>2, AlignUpBounds, ArenaAssumption, ChunkAssumption, Zenon
  <2> QED
    BY <1>2, <2>1, Zenon DEF NewChunk, ChunkRec
<1>4. chunks = <<x>> /\ bytes_allocated \in Nat
  BY <1>1, <1>2, Zenon
<1> HIDE DEF x
<1>5. /\ current_chunk = 1 /\ checkpoints = <<>> /\ current_checkpoint_id = 0
      /\ allocation_count = 0 /\ outcome = "ok" /\ log = <<>> /\ held = {}
      /\ outOfOrder = FALSE /\ scopes = [g \in Guards |-> NoScope]
  BY Zenon DEF Init
<1>6. TypeOK
  <2>1. chunks \in Seq(ChunkRec) /\ chunks # <<>> /\ 1 \in DOMAIN chunks
    BY <1>3, <1>4
  <2> QED
    BY <1>4, <1>5, <2>1, EmptySeq, ZenonT(30) DEF TypeOK
<1>7. Entries = {} /\ OpenScopes = {} /\ Targets = {}
  BY <1>5 DEF Entries, OpenScopes, Targets
<1>8. LiveBlocksInBounds
  BY <1>3, <1>4, <1>5 DEF LiveBlocksInBounds
<1> QED
  BY <1>5, <1>6, <1>7, <1>8
     DEF IInv, LiveBlocksDisjoint, RewindKeepsEarlierAllocations, IdsOrderTargets

\* Every way out of allocate_raw preserves the invariant.
LEMMA AllocateRawPreserves ==
  ASSUME IInv, NEW l \in Layouts, AllocateRaw(l)
  PROVE  IInv'
<1>1. /\ CurrentIndex = current_chunk /\ current_chunk \in DOMAIN chunks
      /\ chunks \in Seq(ChunkRec) /\ DOMAIN chunks = 1..Len(chunks) /\ Len(chunks) \in Nat
      /\ l.size \in Nat /\ l.align \in Nat \ {0}
      /\ \A j \in DOMAIN chunks : chunks[j].used <= chunks[j].capacity
      /\ log \in Seq(BlockRec) /\ allocation_count \in Nat /\ bytes_allocated \in Nat
  BY TakenCheckpointFacts, ArenaAssumption, ChunkAssumption DEF IInv, TypeOK, LiveBlocksInBounds
<1>2. CASE AllocZeroSized(l)
  <2> DEFINE b == [chunk |-> 0, lo |-> 0, hi |-> 0, align |-> l.align]
  <2>1. /\ b \in BlockRec /\ ~(b.lo < b.hi) /\ log' = Append(log, b)
        /\ UNCHANGED <<chunks, current_chunk, bytes_allocated, marks>>
        /\ allocation_count' = allocation_count + 1 /\ outcome' = "ok"
    BY <1>1, <1>2 DEF AllocZeroSized, BlockRec
  <2> HIDE DEF b
  <2>2. /\ log' \in Seq(BlockRec) /\ Len(log') = Len(log) + 1 /\ Len(log) \in Nat
        /\ DOMAIN log = 1..Len(log)
        /\ \A i \in DOMAIN log : i \in DOMAIN log' /\ log'[i] = log[i]
        /\ \A i \in DOMAIN log' : \/ i \in DOMAIN log /\ log'[i] = log[i]
                                  \/ ~(log'[i].lo < log'[i].hi)
    BY <1>1, <2>1
  <2>3. TypeOK'
    BY <1>1, <2>1, <2>2 DEF IInv, TypeOK, marks
  <2>4. LiveBlocksInBounds'
    BY <2>1, <2>2, Zenon DEF IInv, LiveBlocksInBounds
  <2>5. LiveBlocksDisjoint'
    BY <2>2, Zenon DEF IInv, LiveBlocksDisjoint
  <2>6. Entries' = Entries /\ OpenScopes' = OpenScopes /\ held' = held
    BY <2>1, Zenon DEF marks, Entries, OpenScopes
  <2>7. RewindKeepsEarlierAllocations'
    <3>1. ASSUME NEW c \in Targets
          PROVE  Protects(c)'
      <4>1. Protects(c) /\ c.mark \in Nat
        BY TargetFacts, Zenon DEF CheckpointRec
      <4>2. \A j \in 1..c.mark : j \in DOMAIN log /\ log'[j] = log[j]
        BY <2>2, <4>1 DEF Protects
      <4>3. \A j \in 1..c.mark : Below(log'[j], c)
        BY <4>1, <4>2, Zenon DEF Protects
      <4>4. c.mark <= Len(log')
        BY <2>2, <4>1 DEF Protects
      <4> QED
        BY <4>3, <4>4, Zenon DEF Protects, Below
    <3>2. \A c \in held \cup Entries : InRange(c)'
      BY <2>1, Zenon DEF InRange, IInv, RewindKeepsEarlierAllocations
    <3> QED
      BY <2>6, <3>1, <3>2, Zenon DEF RewindKeepsEarlierAllocations, Targets
  <2>8. IdsOrderTargets'
    BY <2>1, <2>6, Zenon DEF IInv, IdsOrderTargets, Targets, marks
  <2> QED
    BY <2>3, <2>4, <2>5, <2>7, <2>8, Zenon DEF IInv
<1>3. CASE AllocInCurrent(l)
  <2>1. /\ l.size > 0 /\ AllocateIn(chunks, current_chunk, l) /\ outcome' = "ok"
        /\ current_chunk' = current_chunk /\ bytes_allocated' \in Nat /\ UNCHANGED marks
    BY <1>1, <1>3, SMTT(30) DEF AllocInCurrent
  <2> QED
    BY <1>1, <2>1, AllocateInPreserves, ZenonT(30)
<1>4. CASE AllocInNewChunk(l)
  <2>1. NextChunkCapacity(l.size) \in Nat
    BY <1>1, NextChunkCapacityType, Zenon
  <2>2. PICK base \in Bases :
          AllocateIn(Append(chunks, NewChunk(base, NextChunkCapacity(l.size))),
                     Len(chunks) + 1, l)
    BY <1>4, Zenon DEF AllocInNewChunk, AddChunk
  <2> DEFINE x == NewChunk(base, NextChunkCapacity(l.size))
             chs == Append(chunks, x)
             i == Len(chunks) + 1
  <2>3. x \in ChunkRec /\ x.used <= x.capacity
    <3>1. AlignUp(NextChunkCapacity(l.size), ChunkAlign) \in Nat /\ base \in Nat
      BY <2>1, AlignUpBounds, ArenaAssumption, ChunkAssumption, SMTT(30)
    <3> QED
      BY <3>1 DEF NewChunk, ChunkRec
  <2>4. /\ l.size > 0 /\ AllocateIn(chs, i, l) /\ outcome' = "ok"
        /\ current_chunk' = i /\ bytes_allocated' \in Nat /\ UNCHANGED marks
    BY <1>1, <1>4, <2>1, <2>2 DEF AllocInNewChunk, AddChunk
  <2> HIDE DEF x
  <2>5. /\ chs \in Seq(ChunkRec) /\ i \in DOMAIN chs
        /\ \A j \in DOMAIN chunks : j \in DOMAIN chs /\ chs[j] = chunks[j]
        /\ \A j \in DOMAIN chs : chs[j].used <= chs[j].capacity
        /\ i \notin DOMAIN chunks /\ current_chunk < i
    <3>1. /\ chs \in Seq(ChunkRec) /\ DOMAIN chs = 1..i /\ chs[i] = x
          /\ \A j \in 1..Len(chunks) : chs[j] = chunks[j]
      BY <1>1, <2>3
    <3>2. /\ i \in 1..i /\ i \notin 1..Len(chunks) /\ current_chunk < i
          /\ \A j \in 1..i : j = i \/ j \in 1..Len(chunks)
          /\ \A j \in 1..Len(chunks) : j \in 1..i
      BY <1>1
    <3> HIDE DEF chs, i
    <3> QED
      BY <1>1, <2>3, <3>1, <3>2, ZenonT(30)
  <2> HIDE DEF chs, i
  <2> QED
    BY <2>4, <2>5, AllocateInPreserves, Zenon
<1>5. CASE AllocAbort(l)
  <2>1. outcome' = "abort" /\ UNCHANGED <<memory, stats, marks>>
    BY <1>5, Zenon DEF AllocAbort
  <2>2. scopes' \in [Guards -> CheckpointRec \cup {NoScope}]
    BY <2>1, Zenon DEF IInv, TypeOK, marks
  <2> QED
    BY <1>1, <2>1, <2>2, ForgettingPreserves, Zenon DEF memory, stats, marks
<1> QED
  BY <1>2, <1>3, <1>4, <1>5, SMTT(30) DEF AllocateRaw

\* Every step of the arena preserves the invariant.
LEMMA NextInv ==
  ASSUME ~Debug, IInv, [Next]_vars
  PROVE  IInv'
<1>1. ASSUME NEW l \in Layouts, AllocateRaw(l)
      PROVE  IInv'
  BY <1>1, AllocateRawPreserves, Zenon
<1>2. CASE TakeCheckpoint
  BY <1>2, CheckpointPreserves, Zenon DEF TakeCheckpoint, IInv, TypeOK
<1>3. CASE PushCheckpoint
  BY <1>3, CheckpointPreserves, Zenon DEF PushCheckpoint, IInv, TypeOK
<1>4. CASE ClearCheckpoints
  BY <1>4, ForgettingPreserves, Zenon
     DEF ClearCheckpoints, memory, stats, IInv, TypeOK
<1>5. ASSUME NEW c \in held, RewindToCheckpoint(c)
      PROVE  IInv'
  <2>1. c \in Targets /\ c.mark \in Nat
    BY TargetFacts DEF Targets, CheckpointRec
  <2>2. /\ Rewind(c, checkpoints) /\ scopes' = LoweredScopes(c.mark)
        /\ outOfOrder' \in BOOLEAN /\ checkpoints \in Seq(CheckpointRec)
    BY <1>5, Zenon DEF RewindToCheckpoint, IInv, TypeOK
  <2>3. ScopesLowered(c.mark)
    <3>1. \A g \in Guards : ScopesLowered(c.mark)
      BY <2>1, <2>2, LoweredScopesLowers, ZenonT(30) DEF IInv
    <3>2. CASE Guards = {}
      BY <2>2, <3>2, Zenon DEF ScopesLowered, LoweredScopes
    <3> QED
      BY <3>1, <3>2, Zenon
  <2> QED
    BY <2>1, <2>2, <2>3, RewindPreserves
<1>6. CASE PopAndRewind
  <2> DEFINE top == checkpoints[Len(checkpoints)]
             rest == SubSeq(checkpoints, 1, Len(checkpoints) - 1)
  <2>1. /\ checkpoints \in Seq(CheckpointRec) /\ Len(checkpoints) \in Nat \ {0}
        /\ DOMAIN checkpoints = 1..Len(checkpoints)
    BY <1>6, EmptySeq DEF PopAndRewind, IInv, TypeOK
  <2>2. top \in Targets
    BY <2>1 DEF Targets, Entries
  <2>3. /\ rest \in Seq(CheckpointRec)
        /\ \A i \in DOMAIN rest : i \in DOMAIN checkpoints /\ rest[i] = checkpoints[i]
    BY <2>1
  <2>4. /\ Rewind(top, rest) /\ UNCHANGED scopes /\ NoScopeOpen
        /\ outOfOrder' \in BOOLEAN
    BY <1>6, Zenon DEF PopAndRewind, IInv, TypeOK
  <2>5. ScopesLowered(top.mark)
    BY <2>4, Zenon DEF ScopesLowered, NoScopeOpen, IInv, TypeOK
  <2> HIDE DEF top, rest
  <2> QED
    BY <2>2, <2>3, <2>4, <2>5, RewindPreserves
<1>7. CASE PopEmpty
  BY <1>7, ForgettingPreserves, Zenon DEF PopEmpty, memory, stats, marks, IInv, TypeOK
<1>8. ASSUME NEW g \in Guards, OpenScope(g)
      PROVE  IInv'
  <2>1. TakenCheckpoint \in CheckpointRec
    BY TakenCheckpointFacts, Zenon
  <2>2. /\ UseCheckpointId /\ UNCHANGED <<checkpoints, held>>
        /\ scopes' = [scopes EXCEPT ![g] = TakenCheckpoint]
    BY <1>8, Zenon DEF OpenScope
  <2>3. /\ scopes' \in [Guards -> CheckpointRec \cup {NoScope}]
        /\ \A h \in Guards : scopes'[h] = scopes[h] \/ scopes'[h] = TakenCheckpoint
    <3>1. scopes \in [Guards -> CheckpointRec \cup {NoScope}]
      BY Zenon DEF IInv, TypeOK
    <3> DEFINE t == TakenCheckpoint
    <3>2. scopes' = [scopes EXCEPT ![g] = t] /\ t \in CheckpointRec
      BY <2>1, <2>2, Zenon
    <3> HIDE DEF t
    <3>3. /\ scopes' \in [Guards -> CheckpointRec \cup {NoScope}]
          /\ \A h \in Guards : scopes'[h] = scopes[h] \/ scopes'[h] = t
      BY <3>1, <3>2, Zenon
    <3> QED
      BY <3>3, Zenon DEF t
  <2> QED
    BY <2>2, <2>3, CheckpointPreserves, Zenon
<1>9. ASSUME NEW g \in Guards, ResetScope(g) \/ DropScope(g)
      PROVE  IInv'
  <2> DEFINE c == scopes[g]
  <2>1. /\ c # NoScope /\ Rewind(c, checkpoints)
        /\ \/ scopes' = LoweredScopes(c.mark)
           \/ scopes' = [LoweredScopes(c.mark) EXCEPT ![g] = NoScope]
        /\ outOfOrder' \in BOOLEAN
    BY <1>9, Zenon DEF ResetScope, DropScope
  <2>2. c \in Targets /\ c.mark \in Nat
    <3>1. c \in Targets
      BY <2>1, Zenon DEF Targets, OpenScopes
    <3> QED
      BY <3>1, TargetFacts, Zenon DEF CheckpointRec
  <2>3. checkpoints \in Seq(CheckpointRec)
    BY Zenon DEF IInv, TypeOK
  <2> HIDE DEF c
  <2>4. ScopesLowered(c.mark)
    BY <2>1, <2>2, LoweredScopesLowers DEF IInv
  <2> QED
    BY <2>1, <2>2, <2>3, <2>4, RewindPreserves, SMTT(30)
<1>10. ASSUME NEW g \in Guards, DropScopePanics(g)
       PROVE  IInv'
  <2>1. /\ scopes' = [scopes EXCEPT ![g] = NoScope] /\ outcome' = "panic"
        /\ UNCHANGED <<chunks, current_chunk, log, current_checkpoint_id, held, outOfOrder,
                       bytes_allocated, allocation_count, checkpoints>>
    BY <1>10, Zenon DEF DropScopePanics, memory, stats
  <2> QED
    BY <2>1, ForgettingPreserves, Zenon DEF IInv, TypeOK
<1>15. ASSUME NEW g \in Guards, ResetScopePanics(g)
       PROVE  IInv'
  BY <1>15, ForgettingPreserves, Zenon DEF ResetScopePanics, memory, stats, marks, IInv, TypeOK
<1>11. CASE Reset
  BY <1>11, ResetPreserves, Zenon
<1>12. CASE ResetAndShrinkToFit
  BY <1>12, ShrinkPreserves, Zenon
<1>13. CASE UNCHANGED vars
  BY <1>13, ForgettingPreserves, Zenon DEF vars, memory, stats, marks, IInv, TypeOK
<1>14. CASE Aborted
  BY <1>13, <1>14, Zenon DEF Aborted
<1> QED
  BY <1>1, <1>2, <1>3, <1>4, <1>5, <1>6, <1>7, <1>8, <1>9, <1>10, <1>11, <1>12, <1>13, <1>14, <1>15
     DEF Next

\* The invariant holds in every reachable state.
THEOREM Invariance ==
  ASSUME ~Debug
  PROVE  Spec => []IInv
<1>1. IInv /\ [Next]_vars => IInv'
  BY NextInv, Zenon
<1> QED
  BY <1>1, InitInv, PTL DEF Spec

\* Type correctness, in every reachable state of every instance.
THEOREM TypeCorrect ==
  ASSUME ~Debug
  PROVE  Spec => []TypeOK
<1>1. IInv => TypeOK
  BY Zenon DEF IInv
<1> QED
  BY <1>1, Invariance, PTL

\* Live allocations never overlap, for every set of layouts and capacities,
\* any number of chunks and any nesting or disorder of scopes.
THEOREM Disjointness ==
  ASSUME ~Debug
  PROVE  Spec => []LiveBlocksDisjoint
<1>1. IInv => LiveBlocksDisjoint
  BY Zenon DEF IInv
<1> QED
  BY <1>1, Invariance, PTL

\* Live allocations lie below `used` in chunks that exist, and `used` never
\* exceeds a chunk's capacity.
THEOREM Bounds ==
  ASSUME ~Debug
  PROVE  Spec => []LiveBlocksInBounds
<1>1. IInv => LiveBlocksInBounds
  BY Zenon DEF IInv
<1> QED
  BY <1>1, Invariance, PTL

\* Every checkpoint that may be rewound to keeps the allocations that were live
\* when it was taken, and passes the assertions of rewind_to_checkpoint.
THEOREM RewindSafety ==
  ASSUME ~Debug
  PROVE  Spec => []RewindKeepsEarlierAllocations
<1>1. IInv => RewindKeepsEarlierAllocations
  BY Zenon DEF IInv
<1> QED
  BY <1>1, Invariance, PTL


-----------------------------------------------------------------------------
(* Refinement of the region allocator *)

\* A step appends one allocation to the log or cuts the log back.
LEMMA LogStep ==
  ASSUME IInv, [Next]_vars
  PROVE  \/ \E b \in BlockRec : log' = Append(log, b)
         \/ \E n \in 0..Len(log) : log' = SubSeq(log, 1, n)
<1>1. /\ log \in Seq(BlockRec) /\ Len(log) \in Nat
      /\ 0 \in 0..Len(log) /\ Len(log) \in 0..Len(log)
      /\ SubSeq(log, 1, Len(log)) = log /\ SubSeq(log, 1, 0) = <<>>
  BY DEF IInv, TypeOK
<1>2. ASSUME UNCHANGED log \/ log' = <<>>
      PROVE  \E n \in 0..Len(log) : log' = SubSeq(log, 1, n)
  BY <1>1, <1>2, Zenon
<1>3. ASSUME NEW c \in Targets, NEW stack, Rewind(c, stack)
      PROVE  \E n \in 0..Len(log) : log' = SubSeq(log, 1, n)
  <2>1. c.mark \in Nat /\ c.mark <= Len(log)
    BY TargetFacts, Zenon DEF CheckpointRec, Protects
  <2>2. log' = SubSeq(log, 1, c.mark) /\ c.mark \in 0..Len(log)
    BY <1>1, <1>3, <2>1 DEF Rewind
  <2> QED
    BY <2>2, Zenon
<1>4. ASSUME NEW l \in Layouts, AllocateRaw(l)
      PROVE  UNCHANGED log \/ \E b \in BlockRec : log' = Append(log, b)
  <2>1. l.size \in Nat /\ l.align \in Nat \ {0}
    BY ArenaAssumption, ChunkAssumption, Zenon
  <2>2. CASE AllocZeroSized(l)
    <3> DEFINE b == [chunk |-> 0, lo |-> 0, hi |-> 0, align |-> l.align]
    <3>1. log' = Append(log, b) /\ b \in BlockRec
      BY <2>1, <2>2, Zenon DEF AllocZeroSized, BlockRec
    <3> QED
      BY <3>1, Zenon
  <2>3. ASSUME NEW chs \in Seq(ChunkRec), NEW i \in DOMAIN chs, AllocateIn(chs, i, l)
        PROVE  \E b \in BlockRec : log' = Append(log, b)
    <3> DEFINE start == AlignUp(chs[i].used, l.align)
               b == [chunk |-> i, lo |-> start, hi |-> start + l.size, align |-> l.align]
    <3>1. chs[i] \in ChunkRec /\ i \in Nat
      OBVIOUS
    <3>2. start \in Nat
      BY <2>1, <3>1, AlignUpBounds, Zenon DEF ChunkRec
    <3>3. log' = Append(log, b)
      BY <2>3, Zenon DEF AllocateIn
    <3> HIDE DEF start
    <3>4. b \in BlockRec
      BY <2>1, <3>1, <3>2 DEF BlockRec
    <3> QED
      BY <3>3, <3>4, Zenon
  <2>4. chunks \in Seq(ChunkRec) /\ current_chunk \in DOMAIN chunks /\ CurrentIndex = current_chunk
    BY TakenCheckpointFacts, Zenon DEF IInv, TypeOK
  <2>5. CASE AllocInCurrent(l)
    BY <2>3, <2>4, <2>5 DEF AllocInCurrent
  <2>6. CASE AllocInNewChunk(l)
    <3>1. PICK base \in Bases :
            AllocateIn(Append(chunks, NewChunk(base, NextChunkCapacity(l.size))),
                       Len(chunks) + 1, l)
      BY <2>6, Zenon DEF AllocInNewChunk, AddChunk
    <3> DEFINE x == NewChunk(base, NextChunkCapacity(l.size))
    <3>2. x \in ChunkRec
      <4>1. NextChunkCapacity(l.size) \in Nat
        BY <2>1, NextChunkCapacityType
      <4>2. AlignUp(NextChunkCapacity(l.size), ChunkAlign) \in Nat /\ base \in Nat
        BY <4>1, AlignUpBounds, ArenaAssumption, ChunkAssumption
      <4> QED
        BY <4>2, Zenon DEF NewChunk, ChunkRec
    <3>3. AllocateIn(Append(chunks, x), Len(chunks) + 1, l)
      BY <3>1, Zenon
    <3> HIDE DEF x
    <3>4. Append(chunks, x) \in Seq(ChunkRec) /\ Len(chunks) + 1 \in DOMAIN Append(chunks, x)
      BY <2>4, <3>2
    <3> QED
      BY <2>3, <3>3, <3>4, ZenonT(30)
  <2>7. CASE AllocAbort(l)
    BY <2>7, Zenon DEF AllocAbort, memory
  <2> QED
    BY <1>4, <2>2, <2>5, <2>6, <2>7 DEF AllocateRaw
<1>5. ASSUME NEW c \in held, RewindToCheckpoint(c)
      PROVE  \E n \in 0..Len(log) : log' = SubSeq(log, 1, n)
  BY <1>3, <1>5, Zenon DEF RewindToCheckpoint, Targets
<1>6. CASE PopAndRewind
  <2>1. Len(checkpoints) \in DOMAIN checkpoints
    BY <1>6, EmptySeq DEF PopAndRewind, IInv, TypeOK
  <2>2. checkpoints[Len(checkpoints)] \in Targets
    BY <2>1, SMTT(30) DEF Targets, Entries
  <2> QED
    BY <1>3, <1>6, <2>2 DEF PopAndRewind
<1>7. ASSUME NEW g \in Guards, ResetScope(g) \/ DropScope(g)
      PROVE  \E n \in 0..Len(log) : log' = SubSeq(log, 1, n)
  <2>1. scopes[g] \in Targets
    BY <1>7, Zenon DEF ResetScope, DropScope, Targets, OpenScopes
  <2> QED
    BY <1>3, <1>7, <2>1, SMTT(30) DEF ResetScope, DropScope
<1>8. ASSUME NEW g \in Guards, OpenScope(g) \/ DropScopePanics(g) \/ ResetScopePanics(g)
      PROVE  UNCHANGED log
  BY <1>8, Zenon DEF OpenScope, DropScopePanics, ResetScopePanics, UseCheckpointId, memory
<1>9. ASSUME TakeCheckpoint \/ PushCheckpoint \/ ClearCheckpoints \/ PopEmpty
             \/ Aborted \/ UNCHANGED vars
      PROVE  UNCHANGED log
  BY <1>9, Zenon DEF TakeCheckpoint, PushCheckpoint, ClearCheckpoints, PopEmpty, Aborted,
              UseCheckpointId, vars, memory
<1>10. ASSUME Reset \/ ResetAndShrinkToFit
       PROVE  log' = <<>>
  BY <1>10, Zenon DEF Reset, ResetAndShrinkToFit
<1> QED
  BY <1>2, <1>4, <1>5, <1>6, <1>7, <1>8, <1>9, <1>10, SMTT(30) DEF Next

\* The i-th allocation of the log, as the abstract allocator sees it.
Region(b, i) == [chunk |-> b.chunk, lo |-> b.lo, hi |-> b.hi, id |-> i]

\* Appending an allocation to the log grants its block.
LEMMA AppendGrants ==
  ASSUME IInv, IInv', NEW b \in BlockRec, log' = Append(log, b), b.lo < b.hi
  PROVE  Regions!Grant
<1>1. /\ log \in Seq(BlockRec) /\ Len(log) \in Nat /\ DOMAIN log = 1..Len(log)
      /\ DOMAIN log' = 1..(Len(log) + 1)
      /\ \A i \in 1..Len(log) : log'[i] = log[i]
      /\ log'[Len(log) + 1] = b
  BY DEF IInv, TypeOK
<1> DEFINE k == Len(log) + 1
<1>2. LiveBlocks' = LiveBlocks \cup {Region(b, k)}
  <2>1. ASSUME NEW x \in LiveBlocks'
        PROVE  x \in LiveBlocks \/ x = Region(b, k)
    <3>1. PICK i \in DOMAIN log' : log'[i].lo < log'[i].hi /\ x = Region(log'[i], i)
      BY Zenon DEF LiveBlocks, Region
    <3>2. ASSUME i \in 1..Len(log)
          PROVE  x \in LiveBlocks
      <4>1. i \in DOMAIN log /\ log[i].lo < log[i].hi /\ x = Region(log[i], i)
        BY <1>1, <3>1, <3>2, Zenon
      <4> QED
        BY <4>1, Zenon DEF LiveBlocks, Region
    <3>3. i \in 1..Len(log) \/ i = k
      BY <1>1
    <3> QED
      BY <1>1, <3>1, <3>2, <3>3, SMTT(30)
  <2>2. \A x \in LiveBlocks : x \in LiveBlocks'
    BY <1>1 DEF LiveBlocks
  <2>3. Region(b, k) \in LiveBlocks'
    <3>1. k \in DOMAIN log' /\ log'[k] = b
      BY <1>1
    <3> HIDE DEF k
    <3>2. k \in {j \in DOMAIN log' : log'[j].lo < log'[j].hi}
      BY <3>1, Zenon
    <3> QED
      BY <3>1, <3>2, Zenon DEF LiveBlocks, Region
  <2> QED
    BY <2>1, <2>2, <2>3
<1>3. \A c \in LiveBlocks : Regions!Disjoint(Region(b, k), c)
  <2> TAKE c \in LiveBlocks
  <2>1. PICK i \in DOMAIN log : log[i].lo < log[i].hi /\ c = Region(log[i], i)
    BY SMTT(30) DEF LiveBlocks, Region
  <2>2. \/ log[i].chunk # b.chunk \/ log[i].hi <= b.lo \/ b.hi <= log[i].lo
    BY <1>1, <2>1 DEF IInv, LiveBlocksDisjoint
  <2> QED
    BY <2>1, <2>2, Zenon DEF Region, Regions!Disjoint
<1>4. Region(b, k).lo < Region(b, k).hi
  BY Zenon DEF Region
<1> QED
  BY <1>2, <1>3, <1>4, SMTT(30) DEF Regions!Grant

\* The arena implements the abstract region allocator: allocate_raw grants a
\* block that overlaps no live one; rewinds, scope exits and resets only
\* release blocks.
THEOREM Refinement ==
  ASSUME ~Debug
  PROVE  Spec => ImplementsRegionAllocator
<1>1. Init => Regions!Init
  <2>1. Init => log = <<>>
    BY Zenon DEF Init
  <2>2. log = <<>> => DOMAIN log = {}
    OBVIOUS
  <2>3. DOMAIN log = {} => LiveBlocks = {}
    BY Zenon DEF LiveBlocks
  <2> QED
    BY <2>1, <2>2, <2>3, Zenon DEF Regions!Init
<1>2. ASSUME IInv, IInv', [Next]_vars
      PROVE  [Regions!Next]_LiveBlocks
  <2>1. log \in Seq(BlockRec) /\ Len(log) \in Nat /\ DOMAIN log = 1..Len(log)
    BY <1>2 DEF IInv, TypeOK
  <2>2. ASSUME NEW n \in 0..Len(log), log' = SubSeq(log, 1, n)
        PROVE  LiveBlocks' \subseteq LiveBlocks
    <3>1. n \in Nat /\ n <= Len(log)
      BY <2>1
    <3>2. DOMAIN SubSeq(log, 1, n) = 1..n
      BY <2>1, <3>1
    <3>3. \A i \in 1..n : i \in DOMAIN log /\ SubSeq(log, 1, n)[i] = log[i]
      BY <2>1, <3>1
    <3>4. DOMAIN log' = 1..n /\ \A i \in 1..n : i \in DOMAIN log /\ log'[i] = log[i]
      BY <2>2, <3>2, <3>3, ZenonT(30)
    <3> QED
      BY <3>4, Zenon DEF LiveBlocks
  <2>3. ASSUME NEW b \in BlockRec, log' = Append(log, b), ~(b.lo < b.hi)
        PROVE  LiveBlocks' \subseteq LiveBlocks
    <3>1. /\ DOMAIN log' = 1..(Len(log) + 1)
          /\ \A i \in 1..Len(log) : log'[i] = log[i]
          /\ log'[Len(log) + 1] = b
      BY <2>1, <2>3
    <3> QED
      BY <2>1, <2>3, <3>1 DEF LiveBlocks
  <2>4. ASSUME NEW b \in BlockRec, log' = Append(log, b), b.lo < b.hi
        PROVE  Regions!Grant
    BY <1>2, <2>4, AppendGrants, Zenon
  <2> QED
    BY <1>2, <2>2, <2>3, <2>4, LogStep DEF Regions!Next, Regions!Release
<1> QED
  BY <1>1, <1>2, Invariance, PTL DEF Spec, ImplementsRegionAllocator, Regions!Spec

-----------------------------------------------------------------------------
(***************************************************************************)
(* The shape of the chunks, from the same invariant: the chunks behind the *)
(* current one are empty, the addresses handed out are aligned,            *)
(* and only a request above MAX_CHUNK_SIZE makes allocate_raw give up.     *)
(***************************************************************************)

(* How a step changes the chunks *)

\* What add_chunk appends is a chunk, empty and at an aligned address.
LEMMA NewChunkFacts ==
  ASSUME NEW base \in Bases, NEW n \in Nat
  PROVE  /\ NewChunk(base, n) \in ChunkRec
         /\ NewChunk(base, n).base = base /\ NewChunk(base, n).used = 0
         /\ NewChunk(base, n).capacity >= n
<1>1. AlignUp(n, ChunkAlign) \in Nat /\ AlignUp(n, ChunkAlign) >= n /\ base \in Nat
  BY AlignUpBounds, ChunkAssumption, Zenon
<1> QED
  BY <1>1, Zenon DEF NewChunk, ChunkRec

\* The index of the current chunk, and the sequence of chunks, are what their
\* types say; the clamp of CurrentIndex does nothing.
LEMMA ChunksFacts ==
  ASSUME IInv
  PROVE  /\ chunks \in Seq(ChunkRec) /\ Len(chunks) \in Nat /\ DOMAIN chunks = 1..Len(chunks)
         /\ current_chunk \in DOMAIN chunks /\ CurrentIndex = current_chunk
         /\ \A i \in DOMAIN chunks : chunks[i] \in ChunkRec
BY TakenCheckpointFacts DEF IInv, TypeOK

\* An allocation fills one chunk and leaves the others alone; if it adds a
\* chunk, that is the last one and becomes the current one.
LEMMA AllocateRawChunks ==
  ASSUME IInv, NEW l \in Layouts, AllocateRaw(l)
  PROVE  /\ current_chunk' = current_chunk \/ current_chunk' = Len(chunks) + 1
         /\ current_chunk <= current_chunk'
         /\ DOMAIN chunks' = 1..(IF current_chunk' = current_chunk THEN Len(chunks)
                                 ELSE Len(chunks) + 1)
         /\ \A i \in DOMAIN chunks : chunks'[i].base = chunks[i].base
         /\ \A i \in DOMAIN chunks' \ DOMAIN chunks : chunks'[i].base \in Bases
         /\ \A i \in DOMAIN chunks \ {current_chunk'} : chunks'[i] = chunks[i]
<1>1. /\ chunks \in Seq(ChunkRec) /\ Len(chunks) \in Nat /\ DOMAIN chunks = 1..Len(chunks)
      /\ current_chunk \in DOMAIN chunks /\ CurrentIndex = current_chunk
      /\ current_chunk \in Nat
  BY ChunksFacts
<1>2. CASE AllocZeroSized(l) \/ AllocAbort(l)
  <2>1. chunks' = chunks /\ current_chunk' = current_chunk
    BY <1>2, Zenon DEF AllocZeroSized, AllocAbort, memory
  <2> QED
    BY <1>1, <2>1
<1>3. CASE AllocInCurrent(l)
  <2> DEFINE u == AlignUp(chunks[current_chunk].used, l.align) + l.size
  <2>1. current_chunk' = current_chunk /\ chunks' = [chunks EXCEPT ![current_chunk].used = u]
    BY <1>1, <1>3, Zenon DEF AllocInCurrent, AllocateIn
  <2> HIDE DEF u
  <2> QED
    BY <1>1, <2>1 DEF ChunkRec
<1>4. CASE AllocInNewChunk(l)
  <2>1. PICK base \in Bases :
          AllocateIn(Append(chunks, NewChunk(base, NextChunkCapacity(l.size))),
                     Len(chunks) + 1, l)
    BY <1>4, Zenon DEF AllocInNewChunk, AddChunk
  <2>2. NextChunkCapacity(l.size) \in Nat
    BY NextChunkCapacityType, ArenaAssumption, Zenon
  <2> DEFINE x == NewChunk(base, NextChunkCapacity(l.size))
             k == Len(chunks) + 1
             u == AlignUp(Append(chunks, x)[k].used, l.align) + l.size
  <2>3. chunks' = [Append(chunks, x) EXCEPT ![k].used = u] /\ current_chunk' = k
    BY <1>4, <2>1, Zenon DEF AllocInNewChunk, AllocateIn
  <2>4. x \in ChunkRec /\ x.base = base
    BY <2>2, NewChunkFacts, Zenon
  <2> HIDE DEF x, u
  <2>5. /\ Append(chunks, x) \in Seq(ChunkRec) /\ DOMAIN Append(chunks, x) = 1..k
        /\ Append(chunks, x)[k] = x
        /\ \A i \in 1..Len(chunks) : Append(chunks, x)[i] = chunks[i]
    BY <1>1, <2>4
  <2>6. /\ DOMAIN chunks' = 1..k /\ chunks'[k].base = base
        /\ \A i \in 1..Len(chunks) : chunks'[i] = chunks[i]
    <3> DEFINE chs == Append(chunks, x)
    <3>1. DOMAIN chs = 1..k /\ chs[k] = x /\ k \in 1..k
      BY <1>1, <2>5
    <3>2. chunks' = [chs EXCEPT ![k] = [x EXCEPT !.used = u]]
      BY <2>3, <3>1, Zenon
    <3>3. [x EXCEPT !.used = u].base = base
      BY <2>4, Zenon DEF ChunkRec
    <3>4. \A i \in 1..Len(chunks) : chs[i] = chunks[i] /\ i \in 1..k /\ i # k
      BY <1>1, <2>5
    <3> HIDE DEF chs, k
    <3> QED
      BY <3>1, <3>2, <3>3, <3>4, Zenon
  <2> QED
    BY <1>1, <2>3, <2>6
<1> QED
  BY <1>2, <1>3, <1>4, Zenon DEF AllocateRaw

\* A rewind, or a reset, empties the chunks behind the one it makes current
\* and moves none.
LEMMA ReleaseChunks ==
  ASSUME IInv,
         \/ \E c \in Targets : \E stack : Rewind(c, stack)
         \/ Reset \/ ResetAndShrinkToFit
  PROVE  /\ current_chunk' \in DOMAIN chunks'
         /\ DOMAIN chunks' \subseteq DOMAIN chunks
         /\ \A i \in DOMAIN chunks' : chunks'[i].base = chunks[i].base
         /\ \A i \in DOMAIN chunks' : i > current_chunk' => chunks'[i].used = 0
<1>1. /\ chunks \in Seq(ChunkRec) /\ Len(chunks) \in Nat /\ DOMAIN chunks = 1..Len(chunks)
      /\ 1 \in DOMAIN chunks /\ \A i \in DOMAIN chunks : chunks[i] \in ChunkRec
  BY ChunksFacts
<1>2. ASSUME NEW c \in Targets, NEW stack, Rewind(c, stack)
      PROVE  /\ current_chunk' \in DOMAIN chunks' /\ DOMAIN chunks' = DOMAIN chunks
             /\ \A i \in DOMAIN chunks : chunks'[i].base = chunks[i].base
             /\ \A i \in DOMAIN chunks : i > current_chunk' => chunks'[i].used = 0
  <2>1. /\ current_chunk' = c.chunk_index /\ c.chunk_index \in DOMAIN chunks
        /\ chunks' = RewoundChunks(c)
    BY <1>2, Zenon DEF Rewind, InRange
  <2> QED
    BY <1>1, <2>1, SMTT(30) DEF RewoundChunks, ChunkRec
<1>3. CASE Reset
  <2>1. chunks' = [i \in DOMAIN chunks |-> [chunks[i] EXCEPT !.used = 0]] /\ current_chunk' = 1
    BY <1>3, Zenon DEF Reset
  <2> QED
    BY <1>1, <2>1, SMTT(30) DEF ChunkRec
<1>4. CASE ResetAndShrinkToFit
  <2> DEFINE x == [chunks[1] EXCEPT !.used = 0]
  <2>1. chunks' = <<x>> /\ current_chunk' = 1
    BY <1>4, Zenon DEF ResetAndShrinkToFit
  <2>2. x.base = chunks[1].base
    BY <1>1, Zenon DEF ChunkRec
  <2> HIDE DEF x
  <2>3. DOMAIN chunks' = {1} /\ chunks'[1] = x
    BY <2>1
  <2> QED
    BY <1>1, <2>1, <2>2, <2>3
<1> QED
  BY <1>2, <1>3, <1>4, Zenon

\* Every step allocates, releases or leaves memory as it is.
LEMMA StepKinds ==
  ASSUME IInv, [Next]_vars
  PROVE  \/ \E l \in Layouts : AllocateRaw(l)
         \/ \E c \in Targets : \E stack : Rewind(c, stack)
         \/ Reset \/ ResetAndShrinkToFit
         \/ UNCHANGED memory
<1>1. ASSUME NEW c \in held, RewindToCheckpoint(c)
      PROVE  \E d \in Targets : \E stack : Rewind(d, stack)
  BY <1>1, Zenon DEF RewindToCheckpoint, Targets
<1>2. ASSUME PopAndRewind
      PROVE  \E d \in Targets : \E stack : Rewind(d, stack)
  <2>1. Len(checkpoints) \in DOMAIN checkpoints
    BY <1>2, EmptySeq DEF PopAndRewind, IInv, TypeOK
  <2>2. checkpoints[Len(checkpoints)] \in Targets
    BY <2>1, Zenon DEF Targets, Entries
  <2> QED
    BY <1>2, <2>2, Zenon DEF PopAndRewind
<1>3. ASSUME NEW g \in Guards, ResetScope(g) \/ DropScope(g)
      PROVE  \E d \in Targets : \E stack : Rewind(d, stack)
  <2>1. scopes[g] \in Targets
    BY <1>3, Zenon DEF ResetScope, DropScope, Targets, OpenScopes
  <2> QED
    BY <1>3, <2>1, Zenon DEF ResetScope, DropScope
<1>4. ASSUME NEW g \in Guards, OpenScope(g) \/ DropScopePanics(g) \/ ResetScopePanics(g)
      PROVE  UNCHANGED memory
  BY <1>4, Zenon DEF OpenScope, DropScopePanics, ResetScopePanics, UseCheckpointId
<1>5. ASSUME TakeCheckpoint \/ PushCheckpoint \/ ClearCheckpoints \/ PopEmpty
             \/ Aborted \/ UNCHANGED vars
      PROVE  UNCHANGED memory
  BY <1>5, Zenon DEF TakeCheckpoint, PushCheckpoint, ClearCheckpoints, PopEmpty, Aborted,
              UseCheckpointId, vars
<1> QED
  BY <1>1, <1>2, <1>3, <1>4, <1>5, Zenon DEF Next

-----------------------------------------------------------------------------
(* Nothing behind the current chunk *)

\* Rewinds in any order, across any number of chunk borders, leave nothing
\* behind the chunk they make current, and allocate_raw adds none there.
THEOREM NothingBehind ==
  ASSUME ~Debug
  PROVE  Spec => []NothingBehindCurrent
<1>1. Init => NothingBehindCurrent
  BY DEF Init, NothingBehindCurrent
<1>2. ASSUME IInv, NothingBehindCurrent, [Next]_vars
      PROVE  NothingBehindCurrent'
  <2>1. /\ Len(chunks) \in Nat /\ DOMAIN chunks = 1..Len(chunks)
        /\ current_chunk \in DOMAIN chunks
    BY <1>2, ChunksFacts, Zenon
  <2>2. ASSUME NEW l \in Layouts, AllocateRaw(l)
        PROVE  NothingBehindCurrent'
    <3> SUFFICES ASSUME NEW i \in DOMAIN chunks', i > current_chunk'
                 PROVE  chunks'[i].used = 0
      BY Zenon DEF NothingBehindCurrent
    <3>1. /\ current_chunk' = current_chunk \/ current_chunk' = Len(chunks) + 1
          /\ current_chunk <= current_chunk'
          /\ DOMAIN chunks' = 1..(IF current_chunk' = current_chunk THEN Len(chunks)
                                  ELSE Len(chunks) + 1)
          /\ \A j \in DOMAIN chunks \ {current_chunk'} : chunks'[j] = chunks[j]
      BY <1>2, <2>2, AllocateRawChunks, Zenon
    <3>2. i \in DOMAIN chunks \ {current_chunk'} /\ i > current_chunk
      BY <2>1, <3>1
    <3> QED
      BY <1>2, <3>1, <3>2, Zenon DEF NothingBehindCurrent
  <2>3. CASE \/ \E c \in Targets : \E stack : Rewind(c, stack)
             \/ Reset \/ ResetAndShrinkToFit
    BY <1>2, <2>3, ReleaseChunks DEF NothingBehindCurrent
  <2>4. CASE UNCHANGED memory
    BY <1>2, <2>4, Zenon DEF memory, NothingBehindCurrent
  <2> QED
    BY <1>2, <2>2, <2>3, <2>4, StepKinds, Zenon
<1> QED
  BY <1>1, <1>2, Invariance, PTL DEF Spec

-----------------------------------------------------------------------------
(* Alignment *)

\* A block starts at a multiple of the alignment that was asked for.
StartsAligned(b) == b.align \in Nat \ {0} /\ \E k \in Nat : b.lo = k * b.align

\* The invariant behind AlignedUpToChunkAlign: the address is the sum of two
\* multiples, and what the log keeps of a block is not enough to see it.
ShapeInv ==
  /\ \A i \in DOMAIN chunks : chunks[i].base \in Bases
  /\ \A i \in DOMAIN log : StartsAligned(log[i])

\* A multiple of a leaves no remainder.
LEMMA MultipleMod ==
  ASSUME NEW k \in Nat, NEW a \in Nat \ {0}
  PROVE  (k * a) % a = 0
OBVIOUS

\* The sum of a multiple of a multiple of a, and of a multiple of a.
LEMMA SumOfMultiples ==
  ASSUME NEW a \in Nat \ {0}, NEW m \in Nat, NEW k \in Nat, NEW c \in Nat,
         c % a = 0
  PROVE  (m * c + k * a) % a = 0
<1>1. PICK q \in Nat : c = q * a
  <2>1. c \div a \in Nat /\ c = (c \div a) * a
    OBVIOUS
  <2> QED
    BY <2>1, Zenon
<1>2. m * q + k \in Nat /\ m * c + k * a = (m * q + k) * a
  BY <1>1
<1> QED
  BY <1>2, MultipleMod, Zenon

\* What allocate_raw appends to the log starts aligned.
LEMMA AllocateRawAligns ==
  ASSUME IInv, NEW l \in Layouts, AllocateRaw(l)
  PROVE  UNCHANGED log \/ \E b \in BlockRec : log' = Append(log, b) /\ StartsAligned(b)
<1>1. l.size \in Nat /\ l.align \in Nat \ {0}
  BY ArenaAssumption, Zenon
<1>2. CASE AllocZeroSized(l)
  <2> DEFINE b == [chunk |-> 0, lo |-> 0, hi |-> 0, align |-> l.align]
  <2>1. log' = Append(log, b) /\ b \in BlockRec
    BY <1>1, <1>2, Zenon DEF AllocZeroSized, BlockRec
  <2>2. 0 \in Nat /\ b.lo = 0 * b.align
    BY <1>1
  <2>3. StartsAligned(b)
    BY <1>1, <2>2, Zenon DEF StartsAligned
  <2> QED
    BY <2>1, <2>3, Zenon
<1>3. ASSUME NEW chs, NEW i \in Nat, chs[i] \in ChunkRec, AllocateIn(chs, i, l)
      PROVE  \E b \in BlockRec : log' = Append(log, b) /\ StartsAligned(b)
  <2> DEFINE start == AlignUp(chs[i].used, l.align)
             b == [chunk |-> i, lo |-> start, hi |-> start + l.size, align |-> l.align]
  <2>1. chs[i].used \in Nat
    BY <1>3, Zenon DEF ChunkRec
  <2>2. start \in Nat
    BY <1>1, <2>1, AlignUpBounds, Zenon
  <2>3. PICK k \in Nat : start = k * l.align
    <3>1. (chs[i].used + l.align - 1) \div l.align \in Nat
      BY <1>1, <2>1
    <3> QED
      BY <3>1, Zenon DEF AlignUp
  <2>4. log' = Append(log, b)
    BY <1>3, Zenon DEF AllocateIn
  <2> HIDE DEF start
  <2>5. b \in BlockRec
    BY <1>1, <1>3, <2>2 DEF BlockRec
  <2>6. StartsAligned(b)
    BY <1>1, <2>3, Zenon DEF StartsAligned
  <2> QED
    BY <2>4, <2>5, <2>6, Zenon
<1>4. /\ chunks \in Seq(ChunkRec) /\ Len(chunks) \in Nat /\ CurrentIndex \in Nat
      /\ chunks[CurrentIndex] \in ChunkRec
  BY ChunksFacts
<1>5. CASE AllocInCurrent(l)
  BY <1>3, <1>4, <1>5, Zenon DEF AllocInCurrent
<1>6. CASE AllocInNewChunk(l)
  <2>1. PICK base \in Bases :
          AllocateIn(Append(chunks, NewChunk(base, NextChunkCapacity(l.size))),
                     Len(chunks) + 1, l)
    BY <1>6, Zenon DEF AllocInNewChunk, AddChunk
  <2> DEFINE x == NewChunk(base, NextChunkCapacity(l.size))
  <2>2. x \in ChunkRec
    BY <1>1, NextChunkCapacityType, NewChunkFacts, Zenon
  <2> HIDE DEF x
  <2>3. Append(chunks, x)[Len(chunks) + 1] = x /\ Len(chunks) + 1 \in Nat
    BY <1>4, <2>2
  <2> QED
    BY <1>3, <2>1, <2>2, <2>3, Zenon DEF x
<1>7. CASE AllocAbort(l)
  BY <1>7, Zenon DEF AllocAbort, memory
<1> QED
  BY <1>2, <1>5, <1>6, <1>7, Zenon DEF AllocateRaw

\* Every step keeps ShapeInv.
LEMMA ShapeStep ==
  ASSUME IInv, ShapeInv, [Next]_vars
  PROVE  ShapeInv'
<1>1. /\ log \in Seq(BlockRec) /\ Len(log) \in Nat /\ DOMAIN log = 1..Len(log)
      /\ DOMAIN chunks = 1..Len(chunks)
  BY ChunksFacts DEF IInv, TypeOK
<1>2. \A i \in DOMAIN chunks' : chunks'[i].base \in Bases
  <2>1. CASE \E l \in Layouts : AllocateRaw(l)
    BY <2>1, AllocateRawChunks, Zenon DEF ShapeInv
  <2>2. CASE \/ \E c \in Targets : \E stack : Rewind(c, stack)
             \/ Reset \/ ResetAndShrinkToFit
    BY <2>2, ReleaseChunks, Zenon DEF ShapeInv
  <2>3. CASE UNCHANGED memory
    BY <2>3, Zenon DEF memory, ShapeInv
  <2> QED
    BY <2>1, <2>2, <2>3, StepKinds, Zenon
<1>3. ASSUME NEW n \in 0..Len(log), log' = SubSeq(log, 1, n)
      PROVE  \A i \in DOMAIN log' : StartsAligned(log'[i])
  <2>1. n \in Nat /\ n <= Len(log)
    BY <1>1
  <2>2. DOMAIN SubSeq(log, 1, n) = 1..n
    BY <1>1, <2>1
  <2>3. \A i \in 1..n : i \in DOMAIN log /\ SubSeq(log, 1, n)[i] = log[i]
    BY <1>1, <2>1
  <2>4. DOMAIN log' = 1..n /\ \A i \in 1..n : i \in DOMAIN log /\ log'[i] = log[i]
    BY <1>3, <2>2, <2>3, Zenon
  <2> QED
    BY <2>4, Zenon DEF ShapeInv
<1>4. ASSUME NEW l \in Layouts, AllocateRaw(l)
      PROVE  \A i \in DOMAIN log' : StartsAligned(log'[i])
  <2>1. CASE UNCHANGED log
    BY <2>1, Zenon DEF ShapeInv
  <2>2. ASSUME NEW b \in BlockRec, log' = Append(log, b), StartsAligned(b)
        PROVE  \A i \in DOMAIN log' : StartsAligned(log'[i])
    <3>1. /\ DOMAIN log' = 1..(Len(log) + 1)
          /\ \A i \in 1..Len(log) : log'[i] = log[i]
          /\ log'[Len(log) + 1] = b
      BY <1>1, <2>2
    <3> QED
      BY <1>1, <2>2, <3>1 DEF ShapeInv
  <2> QED
    BY <1>4, <2>1, <2>2, AllocateRawAligns
<1>5. ASSUME UNCHANGED log
      PROVE  \A i \in DOMAIN log' : StartsAligned(log'[i])
  BY <1>5, Zenon DEF ShapeInv
<1>6. ASSUME log' = <<>>
      PROVE  \A i \in DOMAIN log' : StartsAligned(log'[i])
  BY <1>6
<1>7. ASSUME NEW c \in Targets, NEW stack, Rewind(c, stack)
      PROVE  \A i \in DOMAIN log' : StartsAligned(log'[i])
  <2>1. c.mark \in Nat /\ c.mark <= Len(log)
    BY TargetFacts, Zenon DEF CheckpointRec, Protects
  <2>2. log' = SubSeq(log, 1, c.mark) /\ c.mark \in 0..Len(log)
    BY <1>1, <1>7, <2>1 DEF Rewind
  <2> QED
    BY <1>3, <2>2, SMTT(30)
<1>8. \A i \in DOMAIN log' : StartsAligned(log'[i])
  BY <1>4, <1>5, <1>6, <1>7, StepKinds, Zenon DEF Reset, ResetAndShrinkToFit, memory
<1> QED
  BY <1>2, <1>8, Zenon DEF ShapeInv

\* Chunk::allocate aligns the offset in the chunk; the address is aligned too,
\* for every alignment that divides the one Chunk::new asks for, after any
\* sequence of allocations, rewinds, scope exits and resets.
THEOREM Alignment ==
  ASSUME ~Debug
  PROVE  Spec => []AlignedUpToChunkAlign
<1>1. Init => ShapeInv
  <2> SUFFICES ASSUME Init PROVE ShapeInv
    BY Zenon
  <2>1. log = <<>> /\ \E requested \in Capacities, base \in Bases :
          chunks = <<NewChunk(base, InitialCapacity(requested))>>
    BY Zenon DEF Init
  <2> QED
    BY <2>1 DEF ShapeInv, NewChunk
<1>2. IInv /\ ShapeInv => AlignedUpToChunkAlign
  <2> SUFFICES ASSUME IInv, ShapeInv, NEW i \in DOMAIN log,
                      log[i].lo < log[i].hi, ChunkAlign % log[i].align = 0
               PROVE  (chunks[log[i].chunk].base + log[i].lo) % log[i].align = 0
    BY Zenon DEF AlignedUpToChunkAlign, Aligned
  <2>1. log[i].chunk \in DOMAIN chunks
    <3>1. log[i].chunk \in 1..current_chunk
      BY Zenon DEF IInv, LiveBlocksInBounds
    <3> QED
      BY <3>1, ChunksFacts
  <2>2. PICK m \in Nat : chunks[log[i].chunk].base = m * ChunkAlign
    BY <2>1, ChunkAssumption DEF ShapeInv
  <2>3. log[i].align \in Nat \ {0}
    BY Zenon DEF ShapeInv, StartsAligned
  <2>4. PICK k \in Nat : log[i].lo = k * log[i].align
    BY Zenon DEF ShapeInv, StartsAligned
  <2>5. (m * ChunkAlign + k * log[i].align) % log[i].align = 0
    BY <2>3, SumOfMultiples, ChunkAssumption, ZenonT(30)
  <2> QED
    BY <2>2, <2>4, <2>5, Zenon
<1>3. IInv /\ ShapeInv /\ [Next]_vars => ShapeInv'
  BY ShapeStep, Zenon
<1> QED
  BY <1>1, <1>2, <1>3, Invariance, PTL DEF Spec

-----------------------------------------------------------------------------
(* When allocate_raw gives up *)

\* next_chunk_capacity covers every request up to MAX_CHUNK_SIZE.
LEMMA NextChunkHolds ==
  ASSUME NEW size \in Nat, size <= MaxChunk
  PROVE  NextChunkCapacity(size) >= size
<1> DEFINE S == {c \in Ladder : c >= size \/ c = MaxChunk}
<1>1. S \subseteq Nat /\ MaxChunk \in S
  BY SizingAssumption DEF Ladder
<1>2. Min(S) \in S
  BY <1>1, MinOfNats, Zenon
<1> QED
  BY <1>1, <1>2, Zenon DEF NextChunkCapacity

\* Whatever the fill of the current chunk, the retry of allocate_raw in the
\* chunk it adds fails only for a request above MAX_CHUNK_SIZE.  (The system
\* allocator has some address to give, as it had for the first chunk.)
THEOREM AbortBound ==
  ASSUME Bases # {}
  PROVE  Spec => AbortOnlyAboveMaxChunk
<1>1. ASSUME NEW l \in Layouts, AllocAbort(l)
      PROVE  l.size > MaxChunk
  <2> SUFFICES ASSUME l.size <= MaxChunk PROVE FALSE
    BY ArenaAssumption, SizingAssumption
  <2>1. l.size \in Nat /\ l.align \in Nat \ {0}
    BY ArenaAssumption, Zenon
  <2>2. PICK base \in Bases : ~Fits(NewChunk(base, NextChunkCapacity(l.size)), l)
    BY <1>1, Zenon DEF AllocAbort
  <2> DEFINE x == NewChunk(base, NextChunkCapacity(l.size))
  <2>3. NextChunkCapacity(l.size) \in Nat
    BY <2>1, NextChunkCapacityType, Zenon
  <2>4. x.used = 0 /\ x.capacity >= NextChunkCapacity(l.size) /\ x.capacity \in Nat
    BY <2>3, NewChunkFacts, Zenon DEF ChunkRec
  <2>5. NextChunkCapacity(l.size) >= l.size
    BY <2>1, NextChunkHolds, Zenon
  <2>6. AlignUp(0, l.align) = 0
    BY <2>1 DEF AlignUp
  <2> HIDE DEF x
  <2>7. Fits(x, l)
    BY <2>1, <2>3, <2>4, <2>5, <2>6 DEF Fits
  <2> QED
    BY <2>2, <2>7, Zenon DEF x
<1>2. [Next]_vars => [\A l \in Layouts : AllocAbort(l) => l.size > MaxChunk]_vars
  BY <1>1, Zenon
<1> QED
  BY <1>2, PTL DEF Spec, AbortOnlyAboveMaxChunk

=============================================================================

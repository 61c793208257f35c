------------------------- MODULE LockFreeBufferProofs -------------------------
(***************************************************************************)
(* The inductive invariant of LockFreeBuffer, and the proof that every     *)
(* step of every thread preserves it.                                      *)
(*                                                                         *)
(* A buffer shared as it is may be reset under its users, so nothing is    *)
(* claimed of its memory.  For the buffer of a LockFreeAllocator, whose    *)
(* reset runs alone, there are three kinds of claim on the memory below    *)
(* the offset: the slabs that match the buffer's address and generation,   *)
(* the ranges that a thread has reserved and not yet made its slab, and    *)
(* the blocks that callers own.  The invariant says that these are apart.  *)
(* It holds as long as no buffer is created at an address that another one *)
(* has had: a slab knows its buffer by address and generation only         *)
(* (NoReuse; the run LockFreeAddressReuse shows what happens otherwise).   *)
(*                                                                         *)
(* A step of try_alloc is classified by what it does to the claims: it     *)
(* Looks, it TakesFromSlab, it Reserves or it TakesRegion.  AllocStep is   *)
(* what the rest of the system sees of any of them.                        *)
(***************************************************************************)
EXTENDS LockFreeBuffer, FiniteSetTheorems, TLAPS

NoReuse == MaxEpoch = 1

-----------------------------------------------------------------------------
(* The inductive invariant *)

Labels == {"idle"} \cup Allocating \cup Resetting

StatsRec == [allocations : Nat, hits : Nat, misses : Nat, contention : Nat]
SlabRec == [owner : Buffers \cup {"null"}, base : {<<>>} \cup (Buffers \X Nat),
            offset : Nat, end : Nat, generation : Nat]
BlockRec == [chunk : {<<>>} \cup (Buffers \X Nat), lo : Nat, hi : Nat, id : Nat]

TypeOK ==
  /\ memory \in [Buffers -> {"none", "allocated", "null"}]
  /\ epoch \in [Buffers -> Nat]
  /\ offset \in [Buffers -> Nat] /\ generation \in [Buffers -> Nat]
  /\ stats \in [Buffers -> StatsRec]
  /\ slab \in [Threads -> SlabRec]
  /\ pc \in [Threads -> Labels]
  /\ target \in [Threads -> Buffers]
  /\ request \in [Threads -> [size : Nat, align : Nat \ {0}]]
  /\ current \in [Threads -> Nat]
  /\ live \in SUBSET BlockRec

\* A call that is under way is made of a buffer that exists, with a proper
\* request; what compare_exchange is about to store is within the capacity.
CallsOK ==
  \A t \in Threads :
    /\ pc[t] # "idle" => Exists(target[t])
    /\ pc[t] \in Allocating => request[t].size > 0
    /\ pc[t] = "cas" => RefillEnd(current[t], request[t]) <= Capacity

\* An address has had one buffer at most, and no offset passes the capacity.
BuffersOK ==
  \A b \in Buffers :
    /\ epoch[b] <= 1 /\ (Exists(b) => epoch[b] = 1)
    /\ offset[b] <= Capacity

\* A slab belongs to a buffer that was created, and is not ahead of it.
SlabsOK ==
  \A t \in Threads : \A b \in Buffers :
    slab[t].owner = b =>
      epoch[b] = 1 /\ slab[t].base = <<b, 1>> /\ slab[t].generation <= generation[b]

\* A reset of a LockFreeAllocator runs alone, with no block owned; once it has
\* moved the generation on, no slab is of the present one.
Resets(t, b) == pc[t] \in Resetting /\ target[t] = b
ResetsOK ==
  \A b \in Allocators : \A t \in Threads : Resets(t, b) =>
    /\ \A u \in Threads : pc[u] # "idle" /\ target[u] = b => u = t
    /\ \A k \in live : k.chunk # Memory(b)
    /\ pc[t] = "reset_rest" => \A u \in Threads : ~Matches(slab[u], b)

\* Every owned block of a LockFreeAllocator is in a buffer that exists.
LiveOK ==
  \A k \in live : k.chunk # <<>> /\
    (k.chunk[1] \in Allocators => Exists(k.chunk[1]) /\ k.chunk = Memory(k.chunk[1]))

Apart(lo1, hi1, lo2, hi2) == hi1 <= lo2 \/ hi2 <= lo1

\* The range a thread has reserved in b and not yet made its slab.
Reserved(t, b) == pc[t] = "region" /\ target[t] = b
First(t) == RefillStart(current[t])
Last(t) == RefillEnd(current[t], request[t])

\* The claims on the memory of b.
SlabClaims(b) ==
  \A t \in Threads : Matches(slab[t], b) =>
    /\ slab[t].end <= offset[b]
    /\ \A u \in Threads \ {t} : Matches(slab[u], b) =>
         Apart(slab[t].offset, slab[t].end, slab[u].offset, slab[u].end)
ReservedClaims(b) ==
  \A t \in Threads : Reserved(t, b) =>
    /\ Last(t) <= offset[b]
    /\ \A u \in Threads : Matches(slab[u], b) =>
         Apart(First(t), Last(t), slab[u].offset, slab[u].end)
    /\ \A u \in Threads \ {t} : Reserved(u, b) => Apart(First(t), Last(t), First(u), Last(u))
LiveClaim(k, b) ==
  /\ k.hi <= offset[b]
  /\ \A t \in Threads : Matches(slab[t], b) => Apart(k.lo, k.hi, slab[t].offset, slab[t].end)
  /\ \A t \in Threads : Reserved(t, b) => Apart(k.lo, k.hi, First(t), Last(t))
LiveClaims(b) == \A k \in live : k.chunk = Memory(b) => LiveClaim(k, b)

Claims(b) == SlabClaims(b) /\ ReservedClaims(b) /\ LiveClaims(b)

ClaimsOK ==
  \A b \in Allocators : Exists(b) /\ (\A t \in Threads : ~Resets(t, b)) => Claims(b)

\* The threads whose compare_exchange is bound to fail: each will count one
\* contention event, which a refill since their load has paid for.
Bound(b) == {t \in Threads : pc[t] = "cas" /\ target[t] = b /\ current[t] # offset[b]}
MinBlock == AlignUp(SlabMinBlock, Alignment)
PaidFor(b) ==
  stats[b].contention + Cardinality(Bound(b))
    <= (Cardinality(Threads) - 1) * (offset[b] \div MinBlock)
ContentionOK == \A b \in Allocators : BeingReset(b) \/ PaidFor(b)

IInv ==
  /\ TypeOK /\ CallsOK /\ BuffersOK /\ SlabsOK /\ ResetsOK /\ LiveOK /\ ClaimsOK

-----------------------------------------------------------------------------
(* Arithmetic of blocks *)

\* align_up returns a multiple of the alignment that is not below its argument.
LEMMA AlignUpFacts ==
  ASSUME NEW n \in Nat, NEW a \in Nat \ {0}
  PROVE  AlignUp(n, a) \in Nat /\ AlignUp(n, a) >= n
BY DEF AlignUp

\* align_up is monotone in the offset.
LEMMA AlignUpMonotone ==
  ASSUME NEW m \in Nat, NEW n \in Nat, m <= n, NEW a \in Nat \ {0}
  PROVE  AlignUp(m, a) <= AlignUp(n, a)
<1> DEFINE p == (m + a - 1) \div a
           q == (n + a - 1) \div a
<1>1. p \in Int /\ q \in Int /\ p <= q
  OBVIOUS
<1> HIDE DEF p, q
<1>2. p * a <= q * a
  BY <1>1
<1> QED
  BY <1>2, Zenon DEF AlignUp, p, q

\* What refill_thread_slab_and_alloc reserves starts at the offset it has read
\* or above, and holds the smallest slab at least.
LEMMA RefillFacts ==
  ASSUME NEW c \in Nat, NEW r \in [size : Nat, align : Nat \ {0}]
  PROVE  /\ RefillStart(c) \in Nat /\ RefillStart(c) >= c
         /\ RefillEnd(c, r) \in Nat /\ MinBlock \in Nat \ {0}
         /\ RefillEnd(c, r) >= RefillStart(c) + MinBlock
<1>1. Alignment \in Nat \ {0} /\ SlabMinBlock \in Nat \ {0}
  BY LockFreeBufferAssumption, Zenon
<1>2. RefillStart(c) \in Nat /\ RefillStart(c) >= c
  BY <1>1, AlignUpFacts, Zenon DEF RefillStart
<1>3. MinBlock \in Nat \ {0}
  BY <1>1, AlignUpFacts DEF MinBlock
<1> DEFINE n == IF r.size > SlabMinBlock THEN r.size ELSE SlabMinBlock
<1>4. n \in Nat /\ SlabMinBlock <= n
  BY <1>1
<1>5. BlockSize(r) \in Nat /\ MinBlock <= BlockSize(r)
  BY <1>1, <1>4, AlignUpFacts, AlignUpMonotone, Zenon DEF BlockSize, MinBlock
<1> QED
  BY <1>2, <1>3, <1>5 DEF RefillEnd

\* What a slab hands out lies in what is left of it.
LEMMA BlockFacts ==
  ASSUME NEW s \in SlabRec, NEW r \in [size : Nat, align : Nat \ {0}]
  PROVE  /\ Block(s, r).chunk = s.base
         /\ Block(s, r).lo \in Nat /\ Block(s, r).hi \in Nat
         /\ s.offset <= Block(s, r).lo /\ Block(s, r).hi = Block(s, r).lo + r.size
         /\ HasRoom(s, r) => Block(s, r).hi <= s.end
<1>1. s.offset \in Nat /\ r.align \in Nat \ {0} /\ r.size \in Nat
  BY Zenon DEF SlabRec
<1>2. AlignUp(s.offset, r.align) \in Nat /\ AlignUp(s.offset, r.align) >= s.offset
  BY <1>1, AlignUpFacts, Zenon
<1> QED
  BY <1>1, <1>2 DEF Block, HasRoom

-----------------------------------------------------------------------------
(* Types *)

\* Counting keeps the statistics natural numbers.
LEMMA CountType ==
  ASSUME stats \in [Buffers -> StatsRec], NEW b \in Buffers,
         NEW a \in Nat, NEW h \in Nat, NEW m \in Nat, NEW c \in Nat, Count(b, a, h, m, c)
  PROVE  /\ stats' \in [Buffers -> StatsRec]
         /\ stats'[b].contention = stats[b].contention + c
         /\ \A d \in Buffers \ {b} : stats'[d] = stats[d]
BY DEF Count, StatsRec

\* Going on inside a call or returning from it.
LEMMA ControlType ==
  ASSUME TypeOK, NEW t \in Threads, NEW l \in Labels, Continue(t, l) \/ Return(t)
  PROVE  /\ pc' \in [Threads -> Labels]
         /\ request' \in [Threads -> [size : Nat, align : Nat \ {0}]]
<1>1. NoRequest \in [size : Nat, align : Nat \ {0}] /\ "idle" \in Labels
  BY DEF NoRequest, Labels
<1>2. CASE Continue(t, l)
  BY <1>2, Zenon DEF TypeOK, Continue
<1>3. CASE Return(t)
  BY <1>1, <1>3, Zenon DEF TypeOK, Return
<1> QED
  BY <1>2, <1>3, Zenon

\* The block that a call grants.
Grants(t, k) == [chunk |-> k.chunk, lo |-> k.lo, hi |-> k.hi, id |-> stats[target[t]].hits]

\* A block handed out is the only one added to those owned, if it is.
LEMMA GrantedFacts ==
  ASSUME NEW t, NEW k
  PROVE  Granted(t, k) = live \/ Granted(t, k) = live \cup {Grants(t, k)}
BY Zenon DEF Granted, Grants

\* The values that stand for "nothing" have the types they should.
LEMMA EmptyTypes ==
  /\ NullSlab \in SlabRec /\ ZeroStats \in StatsRec
  /\ NoRequest \in [size : Nat, align : Nat \ {0}]
BY DEF NullSlab, SlabRec, ZeroStats, StatsRec, NoRequest

\* The places where a call can be, and that of a thread between calls.
LEMMA LabelTypes ==
  {"idle", "slab", "load", "cas", "region", "reset_generation", "reset_rest"} \subseteq Labels
BY Zenon DEF Labels, Allocating, Resetting

\* Creation, drop, enable and disable keep the types.
LEMMA OwnerType ==
  ASSUME TypeOK, NEW b \in Buffers, New(b) \/ Drop(b) \/ Enable(b) \/ Disable(b)
  PROVE  TypeOK'
<1>1. CASE New(b)
  BY <1>1, EmptyTypes DEF TypeOK, New, calls
<1>2. CASE Drop(b)
  BY <1>2, Zenon DEF TypeOK, Drop, calls
<1>3. CASE Enable(b) \/ Disable(b)
  BY <1>3, Zenon DEF TypeOK, Enable, Disable, SetEnabled, calls
<1> QED
  BY <1>1, <1>2, <1>3, Zenon

\* A call that is turned away, one that begins and a reset that begins keep
\* the types.
LEMMA EnterType ==
  ASSUME TypeOK, NEW t \in Threads, NEW b \in Buffers,
         Bypass(t, b) \/ Call(t, b) \/ ResetOffset(t, b)
  PROVE  TypeOK'
<1>1. CASE Bypass(t, b)
  <2>1. stats' \in [Buffers -> StatsRec]
    BY <1>1, CountType, Zenon DEF TypeOK, Bypass
  <2> QED
    BY <1>1, <2>1, Zenon DEF TypeOK, Bypass, calls, buffers
<1>2. CASE Call(t, b)
  <2>1. \A r \in Requests[b] : r \in [size : Nat, align : Nat \ {0}]
    BY LockFreeBufferAssumption, Zenon
  <2> QED
    BY <1>2, <2>1, LabelTypes, Zenon DEF TypeOK, Call, buffers
<1>3. CASE ResetOffset(t, b)
  BY <1>3, LabelTypes, Zenon DEF TypeOK, ResetOffset, buffers
<1> QED
  BY <1>1, <1>2, <1>3, Zenon

\* A block handed out of a slab, and what is left of the slab.
LEMMA GrantType ==
  ASSUME TypeOK, NEW t \in Threads, NEW s \in SlabRec, HasRoom(s, request[t]),
         live' = Granted(t, Block(s, request[t]))
  PROVE  /\ live' \in SUBSET BlockRec
         /\ [s EXCEPT !.offset = Block(s, request[t]).hi] \in SlabRec
<1>1. /\ Block(s, request[t]).chunk = s.base
      /\ Block(s, request[t]).lo \in Nat /\ Block(s, request[t]).hi \in Nat
  BY BlockFacts, Zenon DEF TypeOK
<1>2. Grants(t, Block(s, request[t])) \in BlockRec
  BY <1>1, Zenon DEF Grants, BlockRec, SlabRec, TypeOK, StatsRec
<1>3. live' \in SUBSET BlockRec
  BY <1>2, GrantedFacts DEF TypeOK
<1>4. [s EXCEPT !.offset = Block(s, request[t]).hi] \in SlabRec
  BY <1>1, Zenon DEF SlabRec
<1> QED
  BY <1>3, <1>4, Zenon

\* try_thread_slab keeps the types.
LEMMA TryThreadSlabType ==
  ASSUME TypeOK, NEW t \in Threads, TryThreadSlab(t)
  PROVE  TypeOK'
<1>1. slab[t] \in SlabRec /\ target[t] \in Buffers
  BY Zenon DEF TypeOK
<1>2. CASE Matches(slab[t], target[t]) /\ HasRoom(slab[t], request[t])
  <2>1. /\ slab' = [slab EXCEPT ![t] = [slab[t] EXCEPT !.offset = Block(slab[t], request[t]).hi]]
        /\ live' = Granted(t, Block(slab[t], request[t]))
        /\ Count(target[t], 1, 1, 0, 0) /\ Return(t)
        /\ UNCHANGED <<buffers, offset, target, current>>
    BY <1>2, Zenon DEF TryThreadSlab
  <2>2. /\ live' \in SUBSET BlockRec
        /\ [slab[t] EXCEPT !.offset = Block(slab[t], request[t]).hi] \in SlabRec
    BY <1>1, <1>2, <2>1, GrantType, Zenon
  <2>3. slab' \in [Threads -> SlabRec]
    BY <2>1, <2>2, Zenon DEF TypeOK
  <2>4. stats' \in [Buffers -> StatsRec]
    BY <1>1, <2>1, CountType, Zenon DEF TypeOK
  <2>5. /\ pc' \in [Threads -> Labels]
        /\ request' \in [Threads -> [size : Nat, align : Nat \ {0}]]
    BY <2>1, ControlType, LabelTypes, Zenon
  <2> QED
    BY <2>1, <2>2, <2>3, <2>4, <2>5, Zenon DEF TypeOK, buffers
<1>3. CASE ~(Matches(slab[t], target[t]) /\ HasRoom(slab[t], request[t]))
  <2>1. /\ slab' = [slab EXCEPT ![t] = IF Matches(@, target[t]) THEN @ ELSE NullSlab]
        /\ \/ Continue(t, "load") /\ UNCHANGED stats
           \/ Return(t) /\ Count(target[t], 0, 0, 1, 0)
        /\ UNCHANGED <<buffers, offset, target, current, live>>
    BY <1>3, Zenon DEF TryThreadSlab
  <2>2. slab' \in [Threads -> SlabRec]
    BY <1>1, <2>1, EmptyTypes, Zenon DEF TypeOK
  <2>3. stats' \in [Buffers -> StatsRec]
    BY <1>1, <2>1, CountType, Zenon DEF TypeOK
  <2>4. /\ pc' \in [Threads -> Labels]
        /\ request' \in [Threads -> [size : Nat, align : Nat \ {0}]]
    BY <2>1, ControlType, LabelTypes, Zenon
  <2> QED
    BY <2>1, <2>2, <2>3, <2>4, Zenon DEF TypeOK, buffers
<1> QED
  BY <1>2, <1>3, Zenon

\* The load of the offset and the compare_exchange keep the types.
LEMMA RefillType ==
  ASSUME TypeOK, NEW t \in Threads, LoadOffset(t) \/ CompareExchange(t)
  PROVE  TypeOK'
<1>1. target[t] \in Buffers /\ RefillEnd(current[t], request[t]) \in Nat
  BY RefillFacts, Zenon DEF TypeOK
<1>2. /\ UNCHANGED <<buffers, slab, target, live>>
      /\ \/ Count(target[t], 0, 0, 2, 0) \/ Count(target[t], 0, 0, 0, 1) \/ UNCHANGED stats
      /\ Return(t) \/ Continue(t, "cas") \/ Continue(t, "region") \/ Continue(t, "load")
  BY Zenon DEF LoadOffset, CompareExchange
<1>3. stats' \in [Buffers -> StatsRec]
  BY <1>1, <1>2, CountType, Zenon DEF TypeOK
<1>4. /\ pc' \in [Threads -> Labels]
      /\ request' \in [Threads -> [size : Nat, align : Nat \ {0}]]
  BY <1>2, ControlType, LabelTypes, Zenon
<1>5. current' \in [Threads -> Nat] /\ offset' \in [Buffers -> Nat]
  BY <1>1 DEF LoadOffset, CompareExchange, TypeOK
<1> QED
  BY <1>2, <1>3, <1>4, <1>5, Zenon DEF TypeOK, buffers

\* Making the reserved range the thread's slab keeps the types.
LEMMA SetRegionType ==
  ASSUME TypeOK, NEW t \in Threads, SetRegion(t)
  PROVE  TypeOK'
<1>1. target[t] \in Buffers
  BY Zenon DEF TypeOK
<1>2. PICK s \in SlabRec :
        /\ \/ /\ HasRoom(s, request[t])
              /\ slab' = [slab EXCEPT ![t] = [s EXCEPT !.offset = Block(s, request[t]).hi]]
              /\ live' = Granted(t, Block(s, request[t]))
              /\ Count(target[t], 2, 1, 0, 0)
           \/ slab' = [slab EXCEPT ![t] = s] /\ Count(target[t], 1, 0, 1, 0) /\ UNCHANGED live
        /\ current' = [current EXCEPT ![t] = 0] /\ Return(t)
        /\ UNCHANGED <<buffers, offset, target>>
  <2> DEFINE s == [owner |-> target[t], base |-> Memory(target[t]),
                   offset |-> RefillStart(current[t]),
                   end |-> RefillEnd(current[t], request[t]),
                   generation |-> generation[target[t]]]
  <2>1. RefillStart(current[t]) \in Nat /\ RefillEnd(current[t], request[t]) \in Nat
    BY RefillFacts, Zenon DEF TypeOK
  <2>2. s \in SlabRec
    BY <1>1, <2>1, Zenon DEF TypeOK, SlabRec, Memory
  <2> QED
    BY <2>2, Zenon DEF SetRegion
<1>3. stats' \in [Buffers -> StatsRec]
  <2>1. stats \in [Buffers -> StatsRec]
    BY Zenon DEF TypeOK
  <2>2. Count(target[t], 2, 1, 0, 0) \/ Count(target[t], 1, 0, 1, 0)
    BY <1>2, Zenon
  <2> QED
    BY <1>1, <2>1, <2>2, CountType, Zenon
<1>4. slab' \in [Threads -> SlabRec] /\ live' \in SUBSET BlockRec
  <2>1. CASE slab' = [slab EXCEPT ![t] = s] /\ UNCHANGED live
    BY <2>1, Zenon DEF TypeOK
  <2>2. CASE /\ HasRoom(s, request[t])
             /\ slab' = [slab EXCEPT ![t] = [s EXCEPT !.offset = Block(s, request[t]).hi]]
             /\ live' = Granted(t, Block(s, request[t]))
    <3>1. /\ live' \in SUBSET BlockRec
          /\ [s EXCEPT !.offset = Block(s, request[t]).hi] \in SlabRec
      BY <2>2, GrantType, Zenon
    <3> QED
      BY <2>2, <3>1, Zenon DEF TypeOK
  <2> QED
    BY <1>2, <2>1, <2>2, Zenon
<1>5. /\ pc' \in [Threads -> Labels]
      /\ request' \in [Threads -> [size : Nat, align : Nat \ {0}]]
  BY <1>2, ControlType, LabelTypes, Zenon
<1> QED
  BY <1>2, <1>3, <1>4, <1>5, Zenon DEF TypeOK, buffers

\* The later steps of reset keep the types.
LEMMA ResetType ==
  ASSUME TypeOK, NEW t \in Threads, ResetGeneration(t) \/ ResetRest(t)
  PROVE  TypeOK'
<1>1. /\ pc' \in [Threads -> Labels]
      /\ request' \in [Threads -> [size : Nat, align : Nat \ {0}]]
  BY ControlType, LabelTypes, Zenon DEF ResetGeneration, ResetRest
<1>2. CASE ResetGeneration(t)
  BY <1>1, <1>2 DEF TypeOK, ResetGeneration
<1>3. CASE ResetRest(t)
  BY <1>1, <1>3, EmptyTypes, Zenon DEF TypeOK, ResetRest, buffers
<1> QED
  BY <1>2, <1>3, Zenon

\* Every step keeps the types.
LEMMA TypeStep ==
  ASSUME TypeOK, Next
  PROVE  TypeOK'
BY OwnerType, EnterType, TryThreadSlabType, RefillType, SetRegionType, ResetType, Zenon
   DEF Next, Step

-----------------------------------------------------------------------------
(* Claims *)

\* The bounds of what a thread has reserved, before and after a step.
LEMMA ReservedType ==
  ASSUME TypeOK, NEW t \in Threads
  PROVE  /\ First(t) \in Nat /\ Last(t) \in Nat /\ current[t] <= First(t)
         /\ MinBlock \in Nat \ {0} /\ Last(t) >= First(t) + MinBlock
<1>1. current[t] \in Nat /\ request[t] \in [size : Nat, align : Nat \ {0}]
  BY Zenon DEF TypeOK
<1> QED
  BY <1>1, RefillFacts, Zenon DEF First, Last

\* The same after a step.
LEMMA ReservedTypeNext ==
  ASSUME TypeOK', NEW t \in Threads
  PROVE  First(t)' \in Nat /\ Last(t)' \in Nat /\ current'[t] <= First(t)'
<1>1. current'[t] \in Nat /\ request'[t] \in [size : Nat, align : Nat \ {0}]
  BY Zenon DEF TypeOK
<1> QED
  BY <1>1, RefillFacts, Zenon DEF First, Last

\* The bounds of slabs and owned blocks are natural numbers.
LEMMA RangeTypes ==
  ASSUME TypeOK
  PROVE  /\ \A t \in Threads : slab[t].offset \in Nat /\ slab[t].end \in Nat
         /\ \A b \in Buffers : offset[b] \in Nat
         /\ \A k \in live : k.lo \in Nat /\ k.hi \in Nat
BY Zenon DEF TypeOK, SlabRec, BlockRec

\* The same after a step.
LEMMA RangeTypesNext ==
  ASSUME TypeOK'
  PROVE  /\ \A t \in Threads : slab'[t].offset \in Nat /\ slab'[t].end \in Nat
         /\ \A b \in Buffers : offset'[b] \in Nat
         /\ \A k \in live' : k.lo \in Nat /\ k.hi \in Nat
BY Zenon DEF TypeOK, SlabRec, BlockRec

\* A step that only gives claims up keeps them apart.
LEMMA ClaimsShrink ==
  ASSUME TypeOK, TypeOK', NEW b \in Buffers, Claims(b),
         Memory(b)' = Memory(b), offset[b] <= offset'[b],
         \A u \in Threads : Matches(slab[u], b)' =>
           /\ Matches(slab[u], b)
           /\ slab'[u].end = slab[u].end /\ slab[u].offset <= slab'[u].offset,
         \A u \in Threads : Reserved(u, b)' =>
           Reserved(u, b) /\ First(u)' = First(u) /\ Last(u)' = Last(u),
         \A k \in live' : k.chunk = Memory(b) => k \in live \/ LiveClaim(k, b)'
  PROVE  Claims(b)'
<1>1. /\ \A u \in Threads : /\ slab[u].offset \in Nat /\ slab[u].end \in Nat
                            /\ slab'[u].offset \in Nat /\ slab'[u].end \in Nat
      /\ offset[b] \in Nat /\ offset'[b] \in Nat
  BY RangeTypes, RangeTypesNext, Zenon
<1>2. \A u \in Threads : First(u) \in Nat /\ Last(u) \in Nat
  BY ReservedType, Zenon
<1>3. SlabClaims(b)'
  BY <1>1 DEF Claims, SlabClaims, Apart
<1>4. ReservedClaims(b)'
  BY <1>1, <1>2 DEF Claims, ReservedClaims, Apart
<1>5. ASSUME NEW k \in live', k.chunk = Memory(b), k \in live
      PROVE  LiveClaim(k, b)'
  <2>1. LiveClaim(k, b) /\ k.lo \in Nat /\ k.hi \in Nat
    BY <1>5, RangeTypes, Zenon DEF Claims, LiveClaims
  <2> QED
    BY <1>1, <1>2, <2>1 DEF LiveClaim, Apart
<1>6. LiveClaims(b)'
  BY <1>5, Zenon DEF LiveClaims
<1> QED
  BY <1>3, <1>4, <1>6, Zenon DEF Claims

-----------------------------------------------------------------------------
(* A step of try_alloc *)

Others(t) ==
  \A u \in Threads \ {t} :
    /\ pc'[u] = pc[u] /\ target'[u] = target[u] /\ request'[u] = request[u]
    /\ current'[u] = current[u] /\ slab'[u] = slab[u]

\* What a step of thread t in a call of try_alloc on b0 may change, as far as
\* the rest of the system is concerned.
AllocStep(t, b0) ==
  /\ Others(t) /\ target'[t] = b0
  /\ pc'[t] \in Allocating \cup {"idle"}
  /\ memory' = memory /\ epoch' = epoch /\ generation' = generation
  /\ \A d \in Buffers \ {b0} : offset'[d] = offset[d]
  /\ offset'[b0] <= Capacity
  /\ pc'[t] \in Allocating => request'[t] = request[t]
  /\ pc'[t] = "cas" => RefillEnd(current'[t], request'[t]) <= Capacity
  /\ \/ slab'[t] = slab[t]
     \/ slab'[t] = NullSlab
     \/ /\ slab'[t].owner = b0 /\ slab'[t].base = <<b0, 1>>
        /\ slab'[t].generation <= generation[b0]
  /\ \A k \in live' : k \in live \/ k.chunk = <<b0, 1>>

\* While a thread allocates from a LockFreeAllocator nobody resets it.
LEMMA NotBeingReset ==
  ASSUME ResetsOK, NEW t \in Threads, pc[t] \in Allocating, target[t] \in Allocators,
         NEW u \in Threads
  PROVE  ~Resets(u, target[t])
BY Zenon DEF ResetsOK, Resets, Allocating, Resetting

Allocates(t, b0) == pc[t] \in Allocating /\ b0 = target[t] /\ AllocStep(t, b0)

\* What such a step leaves alone in the buffers other than its own.
LEMMA AllocFrame ==
  ASSUME IInv, NEW t \in Threads, NEW b0, Allocates(t, b0)
  PROVE  /\ b0 \in Buffers /\ Exists(b0) /\ epoch[b0] = 1
         /\ \A u \in Threads : \A b \in Buffers : Resets(u, b)' <=> Resets(u, b)
         /\ \A b \in Buffers : Memory(b)' = Memory(b) /\ (Exists(b)' <=> Exists(b))
         /\ \A b \in Buffers : b # b0 =>
              /\ \A u \in Threads :
                   Matches(slab[u], b)' => Matches(slab[u], b) /\ slab'[u] = slab[u]
              /\ \A k \in live' : k.chunk = Memory(b) => k \in live
<1>1. /\ b0 \in Buffers /\ Exists(b0) /\ epoch[b0] = 1
  BY Zenon DEF IInv, TypeOK, CallsOK, BuffersOK, Allocates, Allocating
<1>2. \A u \in Threads : \A b \in Buffers : Resets(u, b)' <=> Resets(u, b)
  BY Zenon DEF Resets, Allocates, Allocating, Resetting, AllocStep, Others
<1>3. \A b \in Buffers : Memory(b)' = Memory(b) /\ (Exists(b)' <=> Exists(b))
  BY Zenon DEF Memory, Exists, Allocates, AllocStep
<1>4. \A b \in Buffers : b # b0 => \A u \in Threads :
        Matches(slab[u], b)' => Matches(slab[u], b) /\ slab'[u] = slab[u]
  BY LockFreeBufferAssumption DEF Allocates, AllocStep, Others, Matches, NullSlab
<1>5. \A b \in Buffers : b # b0 => \A k \in live' : k.chunk = Memory(b) => k \in live
  BY DEF Allocates, AllocStep, Memory
<1> QED
  BY <1>1, <1>2, <1>3, <1>4, <1>5, Zenon

\* It keeps what the invariant says of calls and of buffers.
LEMMA AllocCalls ==
  ASSUME IInv, NEW t \in Threads, NEW b0, Allocates(t, b0)
  PROVE  CallsOK' /\ BuffersOK'
<1>1. /\ b0 \in Buffers /\ Exists(b0) /\ \A b \in Buffers : Exists(b)' <=> Exists(b)
  BY AllocFrame, Zenon
<1>2. CallsOK'
  BY <1>1, Zenon DEF IInv, TypeOK, CallsOK, Allocates, AllocStep, Others, Allocating
<1>3. BuffersOK'
  BY <1>1, Zenon DEF IInv, BuffersOK, Allocates, AllocStep
<1> QED
  BY <1>2, <1>3, Zenon

\* It keeps what the invariant says of slabs: one that it makes is of b0.
LEMMA AllocSlabs ==
  ASSUME IInv, NEW t \in Threads, NEW b0, Allocates(t, b0)
  PROVE  SlabsOK'
<1> SUFFICES ASSUME NEW u \in Threads, NEW b \in Buffers, slab'[u].owner = b
             PROVE  /\ epoch'[b] = 1 /\ slab'[u].base = <<b, 1>>
                    /\ slab'[u].generation <= generation'[b]
  BY Zenon DEF SlabsOK
<1>1. epoch' = epoch /\ generation' = generation
  BY Zenon DEF Allocates, AllocStep
<1>2. CASE slab'[u] = slab[u]
  BY <1>1, <1>2, Zenon DEF IInv, SlabsOK
<1>3. CASE u = t /\ slab'[t] = NullSlab
  BY <1>3, LockFreeBufferAssumption DEF NullSlab
<1>4. CASE u = t /\ slab'[t].owner = b0 /\ slab'[t].base = <<b0, 1>>
           /\ slab'[t].generation <= generation[b0]
  BY <1>1, <1>4, AllocFrame, Zenon
<1> QED
  BY <1>2, <1>3, <1>4, Zenon DEF Allocates, AllocStep, Others

\* It keeps what the invariant says of a reset under way.
LEMMA AllocResets ==
  ASSUME IInv, NEW t \in Threads, NEW b0, Allocates(t, b0)
  PROVE  ResetsOK'
<1> SUFFICES ASSUME NEW b \in Allocators, NEW u \in Threads, Resets(u, b)'
             PROVE  /\ \A v \in Threads : pc'[v] # "idle" /\ target'[v] = b => v = u
                    /\ \A k \in live' : k.chunk # Memory(b)'
                    /\ pc'[u] = "reset_rest" => \A v \in Threads : ~Matches(slab[v], b)'
  BY Zenon DEF ResetsOK
<1>1. Resets(u, b) /\ b \in Buffers
  BY AllocFrame, LockFreeBufferAssumption, Zenon
<1>2. b # b0 /\ u # t
  BY <1>1, NotBeingReset, Zenon DEF IInv, Allocates, Allocating, Resets, Resetting
<1>3. /\ \A v \in Threads : pc[v] # "idle" /\ target[v] = b => v = u
      /\ \A k \in live : k.chunk # Memory(b)
      /\ pc[u] = "reset_rest" => \A v \in Threads : ~Matches(slab[v], b)
  BY <1>1, Zenon DEF IInv, ResetsOK
<1>4. /\ pc'[u] = pc[u] /\ target'[t] # b
      /\ \A v \in Threads \ {t} : pc'[v] = pc[v] /\ target'[v] = target[v]
  BY <1>2, Zenon DEF Allocates, AllocStep, Others
<1>5. /\ Memory(b)' = Memory(b)
      /\ \A v \in Threads : Matches(slab[v], b)' => Matches(slab[v], b)
      /\ \A k \in live' : k.chunk = Memory(b) => k \in live
  BY <1>1, <1>2, AllocFrame, Zenon
<1> QED
  BY <1>3, <1>4, <1>5, Zenon

\* It keeps what the invariant says of owned blocks: one that it adds is of b0.
LEMMA AllocLive ==
  ASSUME IInv, NEW t \in Threads, NEW b0, Allocates(t, b0)
  PROVE  LiveOK'
<1> SUFFICES ASSUME NEW k \in live'
             PROVE  /\ k.chunk # <<>>
                    /\ k.chunk[1] \in Allocators =>
                         Exists(k.chunk[1])' /\ k.chunk = Memory(k.chunk[1])'
  BY Zenon DEF LiveOK
<1>1. \A b \in Allocators : Memory(b)' = Memory(b) /\ (Exists(b)' <=> Exists(b))
  BY AllocFrame, LockFreeBufferAssumption, Zenon
<1>2. CASE k \in live
  BY <1>1, <1>2, Zenon DEF IInv, LiveOK
<1>3. CASE k.chunk = <<b0, 1>>
  <2>1. Memory(b0) = <<b0, 1>> /\ Exists(b0)
    BY AllocFrame, Zenon DEF Memory
  <2> QED
    BY <1>1, <1>3, <2>1
<1> QED
  BY <1>2, <1>3, Zenon DEF Allocates, AllocStep

\* It keeps the claims on the other buffers.
LEMMA AllocClaims ==
  ASSUME IInv, TypeOK', NEW t \in Threads, NEW b0, Allocates(t, b0),
         NEW b \in Allocators, b # b0, Claims(b)
  PROVE  Claims(b)'
<1>1. b \in Buffers
  BY LockFreeBufferAssumption, Zenon
<1>2. \A u \in Threads : Reserved(u, b)' =>
        Reserved(u, b) /\ First(u)' = First(u) /\ Last(u)' = Last(u)
  BY Zenon DEF Allocates, AllocStep, Others, Reserved, First, Last
<1>3. offset'[b] = offset[b] /\ offset[b] \in Nat
  BY <1>1, RangeTypes, Zenon DEF Allocates, AllocStep, IInv
<1>4. /\ \A u \in Threads : Matches(slab[u], b)' => Matches(slab[u], b) /\ slab'[u] = slab[u]
      /\ Memory(b)' = Memory(b) /\ \A k \in live' : k.chunk = Memory(b) => k \in live
  BY <1>1, AllocFrame
<1>5. \A u \in Threads : Matches(slab[u], b)' =>
        /\ Matches(slab[u], b)
        /\ slab'[u].end = slab[u].end /\ slab[u].offset <= slab'[u].offset
  BY <1>4, RangeTypes DEF IInv
<1> QED
  BY <1>1, <1>2, <1>3, <1>4, <1>5, ClaimsShrink DEF IInv

\* Such a step preserves the invariant if it keeps the claims on b0 apart.
LEMMA AllocPreserves ==
  ASSUME IInv, TypeOK', NEW t \in Threads, NEW b0, Allocates(t, b0),
         b0 \in Allocators => Claims(b0)'
  PROVE  IInv'
<1>1. ClaimsOK'
  <2> SUFFICES ASSUME NEW b \in Allocators, Exists(b)', \A u \in Threads : ~Resets(u, b)',
                      b # b0
               PROVE  Claims(b)'
    BY Zenon DEF ClaimsOK
  <2>1. Exists(b) /\ \A u \in Threads : ~Resets(u, b)
    BY AllocFrame, LockFreeBufferAssumption, Zenon
  <2> QED
    BY <2>1, AllocClaims, Zenon DEF IInv, ClaimsOK
<1> QED
  BY <1>1, AllocCalls, AllocSlabs, AllocResets, AllocLive, Zenon DEF IInv

\* The claims on the buffer of a call, when it is that of a LockFreeAllocator.
LEMMA CallClaims ==
  ASSUME IInv, NEW t \in Threads, pc[t] \in Allocating, target[t] \in Allocators
  PROVE  target[t] \in Buffers /\ Claims(target[t])
<1>1. target[t] \in Buffers /\ Exists(target[t])
  BY Zenon DEF IInv, TypeOK, CallsOK, Allocating
<1>2. \A u \in Threads : ~Resets(u, target[t])
  BY NotBeingReset, Zenon DEF IInv
<1> QED
  BY <1>1, <1>2, Zenon DEF IInv, ClaimsOK

\* A step of thread t that reserves nothing and hands nothing out: it looks at
\* the slab or at the offset, and gives up a slab that does not match at most.
Looks(t, b0) ==
  /\ pc[t] \in {"slab", "load", "cas"} /\ b0 = target[t] /\ Others(t)
  /\ pc'[t] \in {"idle", "load", "cas"} /\ (pc'[t] # "idle" => request'[t] = request[t])
  /\ pc'[t] = "cas" => RefillEnd(current'[t], request'[t]) <= Capacity
  /\ slab'[t] = slab[t] \/ slab'[t] = NullSlab
  /\ target' = target /\ offset' = offset /\ live' = live
  /\ memory' = memory /\ epoch' = epoch /\ generation' = generation

\* Such a step only gives claims up.
LEMMA LooksClaims ==
  ASSUME IInv, TypeOK', NEW t \in Threads, NEW b0 \in Allocators, Looks(t, b0)
  PROVE  Claims(b0)'
<1>1. b0 \in Buffers /\ Claims(b0)
  BY CallClaims, Zenon DEF Looks, Allocating
<1>2. \A u \in Threads : slab[u].offset \in Nat
  BY RangeTypes, Zenon DEF IInv
<1>3. \A u \in Threads : slab'[u] = slab[u] \/ slab'[u] = NullSlab
  BY Zenon DEF Looks, Others
<1>4. \A u \in Threads : Matches(slab[u], b0)' =>
        /\ Matches(slab[u], b0)
        /\ slab'[u].end = slab[u].end /\ slab[u].offset <= slab'[u].offset
  BY <1>1, <1>2, <1>3, LockFreeBufferAssumption DEF Looks, Matches, NullSlab
<1>5. \A u \in Threads : Reserved(u, b0)' =>
        Reserved(u, b0) /\ First(u)' = First(u) /\ Last(u)' = Last(u)
  BY Zenon DEF Looks, Others, Reserved, First, Last
<1>6. Memory(b0)' = Memory(b0) /\ offset[b0] <= offset'[b0] /\ live' = live
  BY <1>1, RangeTypes DEF IInv, Looks, Memory
<1> QED
  BY <1>1, <1>4, <1>5, <1>6, ClaimsShrink, Zenon DEF IInv

\* It therefore preserves the invariant.
LEMMA LooksPreserves ==
  ASSUME IInv, TypeOK', NEW t \in Threads, NEW b0, Looks(t, b0)
  PROVE  IInv'
<1>1. offset[b0] <= Capacity
  BY Zenon DEF IInv, TypeOK, BuffersOK, Looks
<1>2. Allocates(t, b0)
  BY <1>1, Zenon DEF Looks, Allocates, AllocStep, Allocating
<1> QED
  BY <1>2, LooksClaims, AllocPreserves, Zenon

\* The slab does not serve: a slab of another buffer or generation is given up.
LEMMA SlabMissLooks ==
  ASSUME TypeOK, NEW t \in Threads, TryThreadSlab(t),
         ~(Matches(slab[t], target[t]) /\ HasRoom(slab[t], request[t])),
         NEW b0, b0 = target[t]
  PROVE  Looks(t, b0)
<1>1. /\ pc[t] = "slab" /\ UNCHANGED <<buffers, offset, target, current, live>>
      /\ slab' = [slab EXCEPT ![t] = IF Matches(@, target[t]) THEN @ ELSE NullSlab]
      /\ Continue(t, "load") \/ Return(t)
  BY Zenon DEF TryThreadSlab
<1>2. /\ slab \in [Threads -> SlabRec] /\ pc \in [Threads -> Labels]
      /\ request \in [Threads -> [size : Nat, align : Nat \ {0}]]
  BY Zenon DEF TypeOK
<1>3. /\ \A u \in Threads \ {t} : slab'[u] = slab[u]
      /\ slab'[t] = slab[t] \/ slab'[t] = NullSlab
  BY <1>1, <1>2, Zenon
<1>4. /\ pc'[t] \in {"idle", "load"} /\ (pc'[t] # "idle" => request'[t] = request[t])
      /\ \A u \in Threads \ {t} : pc'[u] = pc[u] /\ request'[u] = request[u]
  BY <1>1, <1>2, Zenon DEF Return, Continue
<1> QED
  BY <1>1, <1>3, <1>4, Zenon DEF Looks, Others, buffers

\* Loading the offset, and a compare_exchange that fails, change no claim.
LEMMA LoadLooks ==
  ASSUME TypeOK, NEW t \in Threads,
         LoadOffset(t) \/ (CompareExchange(t) /\ offset[target[t]] # current[t]),
         NEW b0, b0 = target[t]
  PROVE  Looks(t, b0)
<1>1. /\ pc \in [Threads -> Labels] /\ current \in [Threads -> Nat]
      /\ request \in [Threads -> [size : Nat, align : Nat \ {0}]] /\ b0 \in Buffers
  BY Zenon DEF TypeOK
<1>2. /\ pc[t] \in {"load", "cas"} /\ pc'[t] \in {"idle", "load", "cas"}
      /\ pc'[t] # "idle" => request'[t] = request[t]
      /\ pc'[t] = "cas" => RefillEnd(current'[t], request'[t]) <= Capacity
      /\ \A u \in Threads \ {t} :
           pc'[u] = pc[u] /\ request'[u] = request[u] /\ current'[u] = current[u]
  <2>1. CASE LoadOffset(t)
    BY <1>1, <2>1, Zenon DEF LoadOffset, Return, Continue
  <2>2. CASE CompareExchange(t) /\ offset[target[t]] # current[t]
    BY <1>1, <2>2, Zenon DEF CompareExchange, Continue
  <2> QED
    BY <2>1, <2>2, Zenon
<1>3. /\ target' = target /\ offset' = offset /\ live' = live /\ slab' = slab
      /\ memory' = memory /\ epoch' = epoch /\ generation' = generation
  BY Zenon DEF LoadOffset, CompareExchange, buffers
<1> QED
  BY <1>2, <1>3, Zenon DEF Looks, Others

\* A step of thread t that hands out block k, the first bytes of its slab of b0.
TakesFromSlab(t, b0, k) ==
  /\ pc[t] = "slab" /\ pc'[t] = "idle" /\ b0 = target[t] /\ Others(t)
  /\ Matches(slab[t], b0)
  /\ k.chunk = <<b0, 1>> /\ k.lo \in Nat /\ k.hi \in Nat
  /\ slab[t].offset <= k.lo /\ k.lo <= k.hi /\ k.hi <= slab[t].end
  /\ slab'[t].owner = b0 /\ slab'[t].base = <<b0, 1>>
  /\ slab'[t].generation = slab[t].generation
  /\ slab'[t].offset = k.hi /\ slab'[t].end = slab[t].end
  /\ target' = target /\ offset' = offset /\ \A j \in live' : j \in live \/ j = k
  /\ memory' = memory /\ epoch' = epoch /\ generation' = generation

\* The step keeps the claims apart: the block is taken off the slab's claim.
LEMMA TakesFromSlabClaims ==
  ASSUME IInv, TypeOK', NEW t \in Threads, NEW b0 \in Allocators, NEW k,
         TakesFromSlab(t, b0, k)
  PROVE  Claims(b0)'
<1>1. b0 \in Buffers /\ Claims(b0)
  BY CallClaims, Zenon DEF TakesFromSlab, Allocating
<1>2. /\ \A u \in Threads : slab[u].offset \in Nat /\ slab[u].end \in Nat
      /\ offset[b0] \in Nat /\ \A u \in Threads : First(u) \in Nat /\ Last(u) \in Nat
  BY <1>1, RangeTypes, ReservedType, Zenon DEF IInv
<1>3. \A u \in Threads : Matches(slab[u], b0)' =>
        /\ Matches(slab[u], b0)
        /\ slab'[u].end = slab[u].end /\ slab[u].offset <= slab'[u].offset
  BY <1>2 DEF TakesFromSlab, Others, Matches
<1>4. \A u \in Threads : Reserved(u, b0)' =>
        Reserved(u, b0) /\ First(u)' = First(u) /\ Last(u)' = Last(u)
  BY Zenon DEF TakesFromSlab, Others, Reserved, First, Last
<1>5. Memory(b0)' = Memory(b0) /\ offset'[b0] = offset[b0]
  BY Zenon DEF TakesFromSlab, Memory
<1>6. LiveClaim(k, b0)'
  <2>1. k.hi <= offset'[b0]
    BY <1>1, <1>2, <1>5 DEF TakesFromSlab, Claims, SlabClaims
  <2>2. ASSUME NEW u \in Threads, Matches(slab[u], b0)'
        PROVE  Apart(k.lo, k.hi, slab'[u].offset, slab'[u].end)
    <3>1. CASE u = t
      BY <1>2, <3>1 DEF TakesFromSlab, Apart
    <3>2. CASE u # t
      <4>1. slab'[u] = slab[u] /\ Apart(slab[t].offset, slab[t].end, slab[u].offset, slab[u].end)
        BY <1>1, <1>3, <2>2, <3>2, Zenon DEF TakesFromSlab, Others, Claims, SlabClaims
      <4> QED
        BY <1>2, <4>1 DEF TakesFromSlab, Apart
    <3> QED
      BY <3>1, <3>2, Zenon
  <2>3. ASSUME NEW u \in Threads, Reserved(u, b0)'
        PROVE  Apart(k.lo, k.hi, First(u)', Last(u)')
    BY <1>1, <1>2, <1>4, <2>3 DEF TakesFromSlab, Claims, ReservedClaims, Apart
  <2> QED
    BY <2>1, <2>2, <2>3, Zenon DEF LiveClaim
<1>7. \A j \in live' : j.chunk = Memory(b0) => j \in live \/ LiveClaim(j, b0)'
  BY <1>6, Zenon DEF TakesFromSlab
<1> QED
  BY <1>1, <1>2, <1>3, <1>4, <1>5, <1>7, ClaimsShrink DEF IInv

\* Allocating from the thread's slab is such a step.
LEMMA SlabHitTakes ==
  ASSUME IInv, NEW t \in Threads, TryThreadSlab(t),
         Matches(slab[t], target[t]), HasRoom(slab[t], request[t]),
         NEW b0, b0 = target[t]
  PROVE  \E k : TakesFromSlab(t, b0, k)
<1>1. /\ pc[t] = "slab" /\ Return(t) /\ UNCHANGED <<buffers, offset, target, current>>
      /\ slab' = [slab EXCEPT ![t].offset = Block(slab[t], request[t]).hi]
      /\ live' = Granted(t, Block(slab[t], request[t]))
  BY Zenon DEF TryThreadSlab
<1>2. /\ slab \in [Threads -> SlabRec] /\ pc \in [Threads -> Labels]
      /\ request \in [Threads -> [size : Nat, align : Nat \ {0}]] /\ target[t] \in Buffers
  BY Zenon DEF IInv, TypeOK
<1>3. slab[t].owner = b0 /\ slab[t].base = <<b0, 1>>
  BY <1>2, Zenon DEF Matches, IInv, SlabsOK
<1>4. PICK k : k = Grants(t, Block(slab[t], request[t]))
  BY Zenon
<1>5. /\ k.chunk = <<b0, 1>> /\ k.lo \in Nat /\ k.hi \in Nat
      /\ slab[t].offset <= k.lo /\ k.lo <= k.hi /\ k.hi <= slab[t].end
      /\ k.hi = Block(slab[t], request[t]).hi
  <2>1. request[t] \in [size : Nat, align : Nat \ {0}] /\ slab[t] \in SlabRec
    BY <1>2, Zenon
  <2>2. LET m == Block(slab[t], request[t])
        IN  /\ m.chunk = slab[t].base /\ m.lo \in Nat /\ m.hi \in Nat
            /\ slab[t].offset <= m.lo /\ m.hi = m.lo + request[t].size /\ m.hi <= slab[t].end
    BY <2>1, BlockFacts, Zenon
  <2> QED
    BY <1>3, <1>4, <2>1, <2>2 DEF Grants
<1>6. \A j \in live' : j \in live \/ j = k
  BY <1>1, <1>4, GrantedFacts
<1>7. /\ \A u \in Threads \ {t} : slab'[u] = slab[u]
      /\ slab'[t].offset = k.hi /\ slab'[t].end = slab[t].end
      /\ slab'[t].owner = b0 /\ slab'[t].base = <<b0, 1>>
      /\ slab'[t].generation = slab[t].generation
  BY <1>1, <1>2, <1>3, <1>5 DEF SlabRec
<1>8. pc'[t] = "idle" /\ \A u \in Threads \ {t} : pc'[u] = pc[u] /\ request'[u] = request[u]
  BY <1>1, <1>2, Zenon DEF Return
<1> QED
  BY <1>1, <1>5, <1>6, <1>7, <1>8 DEF TakesFromSlab, Others, buffers

\* It preserves the invariant.
LEMMA SlabHitPreserves ==
  ASSUME IInv, TypeOK', NEW t \in Threads, NEW b0, NEW k, TakesFromSlab(t, b0, k)
  PROVE  IInv'
<1>1. offset[b0] <= Capacity /\ slab[t].generation <= generation[b0]
  BY DEF IInv, TypeOK, BuffersOK, SlabsOK, TakesFromSlab, Matches
<1>2. Allocates(t, b0)
  BY <1>1, Zenon DEF TakesFromSlab, Allocates, AllocStep, Allocating
<1> QED
  BY <1>2, TakesFromSlabClaims, AllocPreserves, Zenon

\* A compare_exchange of thread t that succeeds: it claims the range above the
\* old offset.
Reserves(t, b0) ==
  /\ pc[t] = "cas" /\ pc'[t] = "region" /\ b0 = target[t]
  /\ current[t] = offset[b0] /\ offset'[b0] = Last(t)
  /\ \A u \in Threads \ {t} : pc'[u] = pc[u]
  /\ \A d \in Buffers \ {b0} : offset'[d] = offset[d]
  /\ request' = request /\ target' = target /\ current' = current
  /\ live' = live /\ slab' = slab
  /\ memory' = memory /\ epoch' = epoch /\ generation' = generation

\* What the step leaves as it was, and that the offset only grows.
LEMMA ReservesFrame ==
  ASSUME IInv, NEW t \in Threads, NEW b0, Reserves(t, b0)
  PROVE  /\ \A u \in Threads : /\ First(u) \in Nat /\ Last(u) \in Nat
                               /\ First(u)' = First(u) /\ Last(u)' = Last(u)
                               /\ Matches(slab[u], b0)' <=> Matches(slab[u], b0)
                               /\ Reserved(u, b0)' <=> Reserved(u, b0) \/ u = t
         /\ offset[b0] \in Nat /\ offset[b0] <= First(t) /\ First(t) <= Last(t)
         /\ offset[b0] <= offset'[b0]
<1>1. \A u \in Threads : First(u) \in Nat /\ Last(u) \in Nat
  BY ReservedType, Zenon DEF IInv
<1>2. \A u \in Threads : /\ First(u)' = First(u) /\ Last(u)' = Last(u)
                         /\ Matches(slab[u], b0)' <=> Matches(slab[u], b0)
                         /\ Reserved(u, b0)' <=> Reserved(u, b0) \/ u = t
  BY Zenon DEF Reserves, First, Last, Matches, Reserved
<1>3. offset[b0] \in Nat
  BY RangeTypes, Zenon DEF IInv, TypeOK, Reserves
<1>4. offset[b0] <= First(t) /\ First(t) <= Last(t) /\ offset[b0] <= offset'[b0]
  BY <1>1, <1>3, ReservedType DEF IInv, Reserves
<1> QED
  BY <1>1, <1>2, <1>3, <1>4, Zenon

\* The range it claims is above every claim there was.
LEMMA ReservesSlabClaims ==
  ASSUME IInv, NEW t \in Threads, NEW b0 \in Allocators, Reserves(t, b0), Claims(b0)
  PROVE  SlabClaims(b0)'
<1>1. \A u \in Threads : Matches(slab[u], b0) => slab[u].end <= offset'[b0]
  <2>1. offset[b0] \in Nat /\ offset'[b0] \in Nat /\ offset[b0] <= offset'[b0]
    BY ReservesFrame DEF Reserves
  <2>2. \A u \in Threads : slab[u].end \in Nat
    BY RangeTypes, Zenon DEF IInv
  <2> QED
    BY <2>1, <2>2 DEF Claims, SlabClaims
<1>2. /\ slab' = slab
      /\ \A u \in Threads : Matches(slab[u], b0)' <=> Matches(slab[u], b0)
  BY ReservesFrame, Zenon DEF Reserves
<1> QED
  BY <1>1, <1>2, Zenon DEF Claims, SlabClaims

\* So is it above every range that a thread has reserved and not yet made its slab,
LEMMA ReservesReservedClaims ==
  ASSUME IInv, NEW t \in Threads, NEW b0 \in Allocators, Reserves(t, b0), Claims(b0)
  PROVE  ReservedClaims(b0)'
<1>1. /\ \A u \in Threads : /\ First(u) \in Nat /\ Last(u) \in Nat
                            /\ First(u)' = First(u) /\ Last(u)' = Last(u)
                            /\ Matches(slab[u], b0)' <=> Matches(slab[u], b0)
                            /\ Reserved(u, b0)' <=> Reserved(u, b0) \/ u = t
      /\ offset[b0] \in Nat /\ offset[b0] <= First(t) /\ First(t) <= Last(t)
      /\ offset'[b0] = Last(t) /\ slab' = slab
  BY ReservesFrame DEF Reserves
<1>2. \A u \in Threads : slab[u].offset \in Nat /\ slab[u].end \in Nat
  BY RangeTypes, Zenon DEF IInv
<1>3. \A v \in Threads : Reserved(v, b0) => Last(v) <= offset[b0]
  BY Zenon DEF Claims, ReservedClaims
<1>4. \A v \in Threads : Matches(slab[v], b0) => slab[v].end <= offset[b0]
  BY Zenon DEF Claims, SlabClaims
<1> SUFFICES ASSUME NEW u \in Threads, Reserved(u, b0)'
             PROVE  /\ Last(u)' <= offset'[b0]
                    /\ \A v \in Threads : Matches(slab[v], b0)' =>
                         Apart(First(u)', Last(u)', slab'[v].offset, slab'[v].end)
                    /\ \A v \in Threads \ {u} : Reserved(v, b0)' =>
                         Apart(First(u)', Last(u)', First(v)', Last(v)')
  BY Zenon DEF ReservedClaims, Apart
<1>5. CASE u = t
  BY <1>1, <1>2, <1>3, <1>4, <1>5 DEF Apart
<1>6. CASE u # t
  BY <1>1, <1>2, <1>3, <1>6 DEF Claims, ReservedClaims, Apart
<1> QED
  BY <1>5, <1>6, Zenon

\* and above every block that is owned.
LEMMA ReservesLiveClaims ==
  ASSUME IInv, NEW t \in Threads, NEW b0 \in Allocators, Reserves(t, b0), Claims(b0)
  PROVE  LiveClaims(b0)'
<1>1. live' = live /\ slab' = slab /\ Memory(b0)' = Memory(b0)
  BY Zenon DEF Reserves, Memory
<1> SUFFICES ASSUME NEW k \in live, k.chunk = Memory(b0) PROVE LiveClaim(k, b0)'
  BY <1>1, Zenon DEF LiveClaims
<1>2. LiveClaim(k, b0) /\ k.lo \in Nat /\ k.hi \in Nat
  BY RangeTypes, Zenon DEF IInv, Claims, LiveClaims
<1>3. /\ \A u \in Threads : /\ First(u)' = First(u) /\ Last(u)' = Last(u)
                            /\ Matches(slab[u], b0)' <=> Matches(slab[u], b0)
                            /\ Reserved(u, b0)' <=> Reserved(u, b0) \/ u = t
      /\ offset[b0] \in Nat /\ offset'[b0] \in Nat /\ First(t) \in Nat
      /\ offset[b0] <= First(t) /\ offset[b0] <= offset'[b0]
  BY ReservesFrame DEF Reserves
<1> QED
  BY <1>1, <1>2, <1>3 DEF LiveClaim, Apart

\* A compare_exchange that succeeds is such a step, and preserves the invariant.
LEMMA ReservePreserves ==
  ASSUME IInv, TypeOK', NEW t \in Threads, CompareExchange(t), offset[target[t]] = current[t],
         NEW b0, b0 = target[t]
  PROVE  IInv'
<1>1. /\ pc[t] = "cas" /\ Continue(t, "region")
      /\ offset' = [offset EXCEPT ![b0] = Last(t)] /\ current[t] = offset[b0]
      /\ UNCHANGED <<buffers, slab, target, current, live>>
  BY Zenon DEF CompareExchange, Last
<1>2. /\ pc \in [Threads -> Labels] /\ b0 \in Buffers /\ offset \in [Buffers -> Nat]
  BY Zenon DEF IInv, TypeOK
<1>3. Reserves(t, b0)
  BY <1>1, <1>2, Zenon DEF Reserves, Continue, buffers
<1>4. Last(t) <= Capacity
  BY <1>1, Zenon DEF IInv, CallsOK, Last
<1>5. Allocates(t, b0)
  BY <1>3, <1>4, Zenon DEF Reserves, Allocates, AllocStep, Others, Allocating
<1>6. b0 \in Allocators => Claims(b0)
  BY <1>1, CallClaims, Zenon DEF Allocating
<1>7. b0 \in Allocators => Claims(b0)'
  BY <1>3, <1>6, ReservesSlabClaims, ReservesReservedClaims, ReservesLiveClaims, Zenon DEF Claims
<1> QED
  BY <1>5, <1>7, AllocPreserves, Zenon

-----------------------------------------------------------------------------
(* set_region *)

\* A step of thread t that makes the range it has reserved its slab, less the
\* block k that it hands out, if any.
TakesRegion(t, b0, k) ==
  /\ pc[t] = "region" /\ pc'[t] = "idle" /\ b0 = target[t] /\ Others(t)
  /\ slab'[t].owner = b0 /\ slab'[t].base = <<b0, 1>>
  /\ slab'[t].generation = generation[b0]
  /\ slab'[t].offset \in Nat /\ First(t) <= slab'[t].offset /\ slab'[t].end = Last(t)
  /\ k.chunk = <<b0, 1>> /\ k.lo \in Nat /\ k.hi \in Nat
  /\ \/ live' = live
     \/ /\ \A j \in live' : j \in live \/ j = k
        /\ First(t) <= k.lo /\ k.lo <= k.hi /\ k.hi <= Last(t) /\ slab'[t].offset = k.hi
  /\ target' = target /\ offset' = offset
  /\ memory' = memory /\ epoch' = epoch /\ generation' = generation

\* The claim of the reservation, and the other claims, before and after.
LEMMA TakesRegionFrame ==
  ASSUME IInv, NEW t \in Threads, NEW b0 \in Allocators, NEW k, TakesRegion(t, b0, k)
  PROVE  /\ Claims(b0) /\ b0 \in Buffers
         /\ Memory(b0) = <<b0, 1>> /\ Memory(b0)' = <<b0, 1>>
         /\ Last(t) <= offset[b0]
         /\ \A u \in Threads : Matches(slab[u], b0) =>
              Apart(First(t), Last(t), slab[u].offset, slab[u].end)
         /\ \A u \in Threads \ {t} : Reserved(u, b0) =>
              Apart(First(t), Last(t), First(u), Last(u))
         /\ ~Reserved(t, b0)'
         /\ \A u \in Threads \ {t} :
              /\ slab'[u] = slab[u] /\ (Matches(slab[u], b0)' <=> Matches(slab[u], b0))
              /\ Reserved(u, b0)' <=> Reserved(u, b0)
              /\ First(u)' = First(u) /\ Last(u)' = Last(u)
<1>1. Claims(b0) /\ b0 \in Buffers /\ Reserved(t, b0)
  BY CallClaims, Zenon DEF TakesRegion, Allocating, Reserved
<1>2. epoch[b0] = 1
  BY <1>1, Zenon DEF IInv, BuffersOK, CallsOK, Reserved
<1>3. Memory(b0) = <<b0, 1>> /\ Memory(b0)' = <<b0, 1>>
  BY <1>2, Zenon DEF TakesRegion, Memory
<1>4. /\ Last(t) <= offset[b0]
      /\ \A u \in Threads : Matches(slab[u], b0) =>
           Apart(First(t), Last(t), slab[u].offset, slab[u].end)
      /\ \A u \in Threads \ {t} : Reserved(u, b0) => Apart(First(t), Last(t), First(u), Last(u))
  BY <1>1, Zenon DEF Claims, ReservedClaims
<1>5. /\ ~Reserved(t, b0)'
      /\ \A u \in Threads \ {t} :
           /\ slab'[u] = slab[u] /\ (Matches(slab[u], b0)' <=> Matches(slab[u], b0))
           /\ Reserved(u, b0)' <=> Reserved(u, b0)
           /\ First(u)' = First(u) /\ Last(u)' = Last(u)
  BY Zenon DEF TakesRegion, Others, Matches, Reserved, First, Last
<1> QED
  BY <1>1, <1>3, <1>4, <1>5, Zenon

\* The slab it makes is apart from the other slabs,
LEMMA TakesRegionSlabClaims ==
  ASSUME IInv, NEW t \in Threads, NEW b0 \in Allocators, NEW k, TakesRegion(t, b0, k)
  PROVE  SlabClaims(b0)'
<1>1. /\ \A u \in Threads : slab[u].offset \in Nat /\ slab[u].end \in Nat
      /\ First(t) \in Nat /\ Last(t) \in Nat
  BY RangeTypes, ReservedType, Zenon DEF IInv
<1>2. /\ slab'[t].offset \in Nat /\ First(t) <= slab'[t].offset /\ slab'[t].end = Last(t)
      /\ offset' = offset
  BY Zenon DEF TakesRegion
<1>3. /\ Last(t) <= offset[b0]
      /\ \A u \in Threads : Matches(slab[u], b0) =>
           Apart(First(t), Last(t), slab[u].offset, slab[u].end)
      /\ \A u \in Threads \ {t} :
           slab'[u] = slab[u] /\ (Matches(slab[u], b0)' <=> Matches(slab[u], b0))
  BY TakesRegionFrame, Zenon
<1>4. SlabClaims(b0)
  BY TakesRegionFrame, Zenon DEF Claims
<1> SUFFICES ASSUME NEW u \in Threads, Matches(slab[u], b0)'
             PROVE  /\ slab'[u].end <= offset'[b0]
                    /\ \A v \in Threads \ {u} : Matches(slab[v], b0)' =>
                         Apart(slab'[u].offset, slab'[u].end, slab'[v].offset, slab'[v].end)
  BY Zenon DEF SlabClaims, Apart
<1>5. CASE u = t
  BY <1>1, <1>2, <1>3, <1>5 DEF Apart
<1>6. CASE u # t
  BY <1>1, <1>2, <1>3, <1>4, <1>6 DEF SlabClaims, Apart
<1> QED
  BY <1>5, <1>6, Zenon

\* from the ranges that others have reserved,
LEMMA TakesRegionReservedClaims ==
  ASSUME IInv, NEW t \in Threads, NEW b0 \in Allocators, NEW k, TakesRegion(t, b0, k)
  PROVE  ReservedClaims(b0)'
<1>1. \A u \in Threads : First(u) \in Nat /\ Last(u) \in Nat
  BY ReservedType, Zenon DEF IInv
<1>2. /\ slab'[t].offset \in Nat /\ First(t) <= slab'[t].offset /\ slab'[t].end = Last(t)
      /\ offset' = offset
  BY Zenon DEF TakesRegion
<1>3. /\ \A u \in Threads \ {t} : Reserved(u, b0) => Apart(First(t), Last(t), First(u), Last(u))
      /\ ~Reserved(t, b0)'
      /\ \A u \in Threads \ {t} :
           /\ slab'[u] = slab[u] /\ (Matches(slab[u], b0)' <=> Matches(slab[u], b0))
           /\ Reserved(u, b0)' <=> Reserved(u, b0)
           /\ First(u)' = First(u) /\ Last(u)' = Last(u)
  BY TakesRegionFrame, Zenon
<1> SUFFICES ASSUME NEW u \in Threads \ {t}, Reserved(u, b0)'
             PROVE  /\ Last(u)' <= offset'[b0]
                    /\ \A v \in Threads : Matches(slab[v], b0)' =>
                         Apart(First(u)', Last(u)', slab'[v].offset, slab'[v].end)
                    /\ \A v \in Threads \ {u} : Reserved(v, b0)' =>
                         Apart(First(u)', Last(u)', First(v)', Last(v)')
  BY <1>3, Zenon DEF ReservedClaims, Apart
<1>4. /\ Last(u) <= offset[b0]
      /\ \A v \in Threads : Matches(slab[v], b0) =>
           Apart(First(u), Last(u), slab[v].offset, slab[v].end)
      /\ \A v \in Threads \ {u} : Reserved(v, b0) => Apart(First(u), Last(u), First(v), Last(v))
  BY <1>3, TakesRegionFrame, Zenon DEF Claims, ReservedClaims
<1> QED
  BY <1>1, <1>2, <1>3, <1>4 DEF Apart

\* and from the blocks that are owned; so is the block handed out.
LEMMA TakesRegionLiveClaims ==
  ASSUME IInv, NEW t \in Threads, NEW b0 \in Allocators, NEW k, TakesRegion(t, b0, k)
  PROVE  LiveClaims(b0)'
<1>1. /\ \A u \in Threads : slab[u].offset \in Nat /\ slab[u].end \in Nat
      /\ \A u \in Threads : First(u) \in Nat /\ Last(u) \in Nat
      /\ offset[b0] \in Nat
  BY RangeTypes, ReservedType, TakesRegionFrame, Zenon DEF IInv
<1>2. /\ slab'[t].offset \in Nat /\ First(t) <= slab'[t].offset /\ slab'[t].end = Last(t)
      /\ offset' = offset
  BY Zenon DEF TakesRegion
<1>3. /\ Last(t) <= offset[b0]
      /\ \A u \in Threads : Matches(slab[u], b0) =>
           Apart(First(t), Last(t), slab[u].offset, slab[u].end)
      /\ \A u \in Threads \ {t} : Reserved(u, b0) => Apart(First(t), Last(t), First(u), Last(u))
      /\ ~Reserved(t, b0)'
      /\ \A u \in Threads \ {t} :
           /\ slab'[u] = slab[u] /\ (Matches(slab[u], b0)' <=> Matches(slab[u], b0))
           /\ Reserved(u, b0)' <=> Reserved(u, b0)
           /\ First(u)' = First(u) /\ Last(u)' = Last(u)
  BY TakesRegionFrame, Zenon
<1> SUFFICES ASSUME NEW j \in live', j.chunk = <<b0, 1>> PROVE LiveClaim(j, b0)'
  BY TakesRegionFrame, Zenon DEF LiveClaims
<1>4. CASE j \in live
  <2>1. LiveClaim(j, b0) /\ Reserved(t, b0)
    BY <1>4, TakesRegionFrame, Zenon DEF Claims, LiveClaims, TakesRegion, Reserved
  <2>2. j.lo \in Nat /\ j.hi \in Nat
    BY <1>4, RangeTypes, Zenon DEF IInv
  <2> QED
    BY <1>1, <1>2, <1>3, <2>1, <2>2 DEF LiveClaim, Apart
<1>5. CASE /\ j = k /\ First(t) <= k.lo /\ k.lo <= k.hi /\ k.hi <= Last(t)
           /\ slab'[t].offset = k.hi
  <2>0. k.lo \in Nat /\ k.hi \in Nat
    BY Zenon DEF TakesRegion
  <2>1. k.hi <= offset'[b0]
    BY <1>1, <1>2, <1>3, <1>5, <2>0
  <2>2. ASSUME NEW u \in Threads, Matches(slab[u], b0)'
        PROVE  Apart(k.lo, k.hi, slab'[u].offset, slab'[u].end)
    BY <1>1, <1>3, <1>5, <2>0, <2>2 DEF Apart
  <2>3. ASSUME NEW u \in Threads, Reserved(u, b0)'
        PROVE  Apart(k.lo, k.hi, First(u)', Last(u)')
    BY <1>1, <1>3, <1>5, <2>0, <2>3 DEF Apart
  <2> QED
    BY <1>5, <2>1, <2>2, <2>3, Zenon DEF LiveClaim
<1> QED
  BY <1>4, <1>5, Zenon DEF TakesRegion

\* set_region, and the allocation from the slab it makes, are such a step.
LEMMA SetRegionTakes ==
  ASSUME IInv, NEW t \in Threads, SetRegion(t), NEW b0, b0 = target[t]
  PROVE  \E k : TakesRegion(t, b0, k)
<1>1. PICK s : s = [owner |-> target[t], base |-> Memory(target[t]),
                    offset |-> RefillStart(current[t]),
                    end |-> RefillEnd(current[t], request[t]),
                    generation |-> generation[target[t]]]
  BY Zenon
<1>2. /\ pc[t] = "region"
      /\ \/ /\ HasRoom(s, request[t])
            /\ slab' = [slab EXCEPT ![t] = [s EXCEPT !.offset = Block(s, request[t]).hi]]
            /\ live' = Granted(t, Block(s, request[t]))
         \/ slab' = [slab EXCEPT ![t] = s] /\ live' = live
      /\ current' = [current EXCEPT ![t] = 0]
      /\ Return(t) /\ UNCHANGED <<buffers, offset, target>>
  BY <1>1, Zenon DEF SetRegion
<1>3. /\ slab \in [Threads -> SlabRec] /\ pc \in [Threads -> Labels] /\ b0 \in Buffers
      /\ request \in [Threads -> [size : Nat, align : Nat \ {0}]]
      /\ current \in [Threads -> Nat] /\ generation \in [Buffers -> Nat] /\ epoch[b0] = 1
  BY <1>2, Zenon DEF IInv, TypeOK, CallsOK, BuffersOK
<1>4. First(t) \in Nat /\ Last(t) \in Nat
  BY ReservedType, Zenon DEF IInv
<1>5. /\ s.owner = b0 /\ s.base = <<b0, 1>> /\ s.offset = First(t) /\ s.end = Last(t)
      /\ s.generation = generation[b0] /\ s \in SlabRec
  BY <1>1, <1>3, <1>4 DEF First, Last, Memory, SlabRec
<1>6. PICK k : k = Grants(t, Block(s, request[t]))
  BY Zenon
<1>7. /\ k.chunk = <<b0, 1>> /\ k.lo \in Nat /\ k.hi \in Nat
      /\ First(t) <= k.lo /\ k.lo <= k.hi
      /\ k.hi = Block(s, request[t]).hi
      /\ HasRoom(s, request[t]) => k.hi <= Last(t)
  <2>1. request[t] \in [size : Nat, align : Nat \ {0}]
    BY <1>3, Zenon
  <2>2. LET m == Block(s, request[t])
        IN  /\ m.chunk = s.base /\ m.lo \in Nat /\ m.hi \in Nat
            /\ s.offset <= m.lo /\ m.hi = m.lo + request[t].size
            /\ HasRoom(s, request[t]) => m.hi <= s.end
    BY <1>5, <2>1, BlockFacts, Zenon
  <2> QED
    BY <1>5, <1>6, <2>1, <2>2 DEF Grants
<1>8. \/ live' = live /\ slab'[t].offset = First(t)
      \/ /\ \A j \in live' : j \in live \/ j = k
         /\ slab'[t].offset = k.hi /\ k.hi <= Last(t)
  <2>1. CASE slab' = [slab EXCEPT ![t] = s] /\ live' = live
    BY <1>3, <1>5, <2>1, Zenon
  <2>2. CASE /\ HasRoom(s, request[t])
             /\ slab' = [slab EXCEPT ![t] = [s EXCEPT !.offset = Block(s, request[t]).hi]]
             /\ live' = Granted(t, Block(s, request[t]))
    <3>1. \A j \in live' : j \in live \/ j = k
      BY <1>6, <2>2, GrantedFacts
    <3>2. slab'[t].offset = k.hi /\ k.hi <= Last(t)
      BY <1>3, <1>5, <1>7, <2>2, Zenon DEF SlabRec
    <3> QED
      BY <3>1, <3>2, Zenon
  <2> QED
    BY <1>2, <2>1, <2>2, Zenon
<1>9. /\ \A u \in Threads \ {t} : slab'[u] = slab[u]
      /\ slab'[t].end = Last(t) /\ slab'[t].owner = b0
      /\ slab'[t].base = <<b0, 1>> /\ slab'[t].generation = generation[b0]
  <2>1. CASE slab' = [slab EXCEPT ![t] = s]
    BY <1>3, <1>5, <2>1, Zenon
  <2>2. CASE slab' = [slab EXCEPT ![t] = [s EXCEPT !.offset = Block(s, request[t]).hi]]
    BY <1>3, <1>5, <2>2, Zenon DEF SlabRec
  <2> QED
    BY <1>2, <2>1, <2>2, Zenon
<1>10. /\ pc'[t] = "idle"
       /\ \A u \in Threads \ {t} :
            pc'[u] = pc[u] /\ request'[u] = request[u] /\ current'[u] = current[u]
  BY <1>2, <1>3, Zenon DEF Return
<1>11. slab'[t].offset \in Nat /\ First(t) <= slab'[t].offset
  BY <1>4, <1>7, <1>8
<1> QED
  BY <1>2, <1>7, <1>8, <1>9, <1>10, <1>11, Zenon DEF TakesRegion, Others, buffers

\* It preserves the invariant.
LEMMA RegionPreserves ==
  ASSUME IInv, TypeOK', NEW t \in Threads, NEW b0, NEW k, TakesRegion(t, b0, k)
  PROVE  IInv'
<1>1. offset[b0] <= Capacity /\ generation[b0] \in Nat
  BY Zenon DEF IInv, TypeOK, BuffersOK, TakesRegion
<1>2. Allocates(t, b0)
  BY <1>1 DEF TakesRegion, Allocates, AllocStep, Allocating
<1>3. b0 \in Allocators => Claims(b0)'
  BY TakesRegionSlabClaims, TakesRegionReservedClaims, TakesRegionLiveClaims, Zenon DEF Claims
<1> QED
  BY <1>2, <1>3, AllocPreserves, Zenon

-----------------------------------------------------------------------------
(* The other steps *)

\* What a step that is about another buffer, or that reserves nothing, leaves
\* of the buffer at d.
Kept(d) ==
  /\ memory'[d] = memory[d] /\ epoch'[d] = epoch[d]
  /\ generation'[d] = generation[d] /\ offset'[d] = offset[d]
  /\ \A u \in Threads :
       /\ slab'[u] = slab[u] \/ slab'[u] = NullSlab
       /\ Resets(u, d)' <=> Resets(u, d)
       /\ Reserved(u, d)' =>
            Reserved(u, d) /\ current'[u] = current[u] /\ request'[u] = request[u]
  /\ live' \subseteq live

\* The claims on a buffer that is kept stay apart.
LEMMA KeptClaims ==
  ASSUME IInv, TypeOK', NEW d \in Allocators, Kept(d), Exists(d)',
         \A u \in Threads : ~Resets(u, d)'
  PROVE  Claims(d)'
<1>1. d \in Buffers /\ d # "null"
  BY LockFreeBufferAssumption, Zenon
<1>2. Claims(d)
  BY Zenon DEF Kept, Exists, IInv, ClaimsOK
<1>3. /\ \A u \in Threads : slab[u].offset \in Nat /\ offset[d] \in Nat
  BY <1>1, RangeTypes, Zenon DEF IInv
<1>4. \A u \in Threads : Matches(slab[u], d)' =>
        /\ Matches(slab[u], d)
        /\ slab'[u].end = slab[u].end /\ slab[u].offset <= slab'[u].offset
  BY <1>1, <1>3 DEF Matches, Kept, NullSlab
<1>5. \A u \in Threads : Reserved(u, d)' =>
        Reserved(u, d) /\ First(u)' = First(u) /\ Last(u)' = Last(u)
  BY Zenon DEF Kept, First, Last
<1>6. Memory(d)' = Memory(d) /\ offset[d] <= offset'[d]
  BY <1>1, RangeTypes DEF Kept, Memory, IInv
<1>7. \A k \in live' : k \in live
  BY Zenon DEF Kept
<1> QED
  BY <1>1, <1>2, <1>4, <1>5, <1>6, <1>7, ClaimsShrink, Zenon DEF IInv

\* A reset that goes on elsewhere is undisturbed.
LEMMA KeptResets ==
  ASSUME IInv, NEW d \in Allocators, Kept(d), NEW t \in Threads, Resets(t, d)',
         \A u \in Threads : pc'[u] # "idle" /\ target'[u] = d => pc[u] # "idle" /\ target[u] = d,
         pc'[t] = pc[t]
  PROVE  /\ \A u \in Threads : pc'[u] # "idle" /\ target'[u] = d => u = t
         /\ \A k \in live' : k.chunk # Memory(d)'
         /\ pc'[t] = "reset_rest" => \A u \in Threads : ~Matches(slab[u], d)'
<1>1. d \in Buffers /\ d # "null"
  BY LockFreeBufferAssumption, Zenon
<1>2. Resets(t, d)
  BY Zenon DEF Kept
<1>3. /\ \A u \in Threads : pc[u] # "idle" /\ target[u] = d => u = t
      /\ \A k \in live : k.chunk # Memory(d)
      /\ pc[t] = "reset_rest" => \A u \in Threads : ~Matches(slab[u], d)
  BY <1>2, Zenon DEF IInv, ResetsOK
<1>4. Memory(d)' = Memory(d) /\ \A k \in live' : k \in live
  BY Zenon DEF Kept, Memory
<1>5. \A u \in Threads : Matches(slab[u], d)' => Matches(slab[u], d)
  BY <1>1 DEF Matches, Kept, NullSlab
<1> QED
  BY <1>3, <1>4, <1>5, Zenon

\* A step that no buffer, slab, call or owned block shows.
LEMMA QuietPreserves ==
  ASSUME IInv, UNCHANGED <<memory, epoch, generation, offset, slab, pc, calls, current, live>>,
         TypeOK'
  PROVE  IInv'
<1>1. /\ memory' = memory /\ epoch' = epoch /\ generation' = generation /\ offset' = offset
      /\ slab' = slab /\ pc' = pc /\ target' = target /\ request' = request
      /\ current' = current /\ live' = live
  BY Zenon DEF calls
<1>2. CallsOK' /\ BuffersOK' /\ SlabsOK'
  BY <1>1, ZenonT(30) DEF IInv, CallsOK, BuffersOK, SlabsOK, Exists
<1>3. ResetsOK' /\ LiveOK'
  BY <1>1 DEF IInv, ResetsOK, LiveOK, Resets, Matches, Memory, Exists
<1>4. \A d \in Allocators : Kept(d)
  BY <1>1, Zenon DEF Kept, Resets, Reserved
<1>5. ClaimsOK'
  BY <1>4, KeptClaims, Zenon DEF ClaimsOK
<1> QED
  BY <1>2, <1>3, <1>5, Zenon DEF IInv

\* A call of try_alloc begins.
LEMMA CallPreserves ==
  ASSUME IInv, TypeOK', NEW t \in Threads, NEW b \in Buffers, Call(t, b)
  PROVE  IInv'
<1>1. PICK r \in Requests[b] : request' = [request EXCEPT ![t] = r]
  BY Zenon DEF Call
<1>2. /\ pc \in [Threads -> Labels] /\ target \in [Threads -> Buffers]
      /\ request \in [Threads -> [size : Nat, align : Nat \ {0}]]
  BY Zenon DEF IInv, TypeOK
<1>3. /\ pc[t] = "idle" /\ pc'[t] = "slab" /\ target'[t] = b /\ request'[t] = r
      /\ \A u \in Threads \ {t} :
           pc'[u] = pc[u] /\ target'[u] = target[u] /\ request'[u] = request[u]
      /\ memory' = memory /\ epoch' = epoch /\ generation' = generation /\ offset' = offset
      /\ slab' = slab /\ current' = current /\ live' = live
  BY <1>1, <1>2, Zenon DEF Call, buffers
<1>4. r.size > 0 /\ Exists(b)
  BY LockFreeBufferAssumption DEF Call, Borrows
<1>5. CallsOK'
  BY <1>3, <1>4, Zenon DEF IInv, CallsOK, Exists, Allocating
<1>6. BuffersOK' /\ SlabsOK' /\ LiveOK'
  BY <1>3, Zenon DEF IInv, BuffersOK, SlabsOK, LiveOK, Exists, Memory
<1>7. \A d \in Allocators : Kept(d)
  BY <1>3, Zenon DEF Kept, Resets, Reserved, Resetting
<1>8. ClaimsOK'
  BY <1>7, KeptClaims, Zenon DEF ClaimsOK
<1>9. ResetsOK'
  <2> SUFFICES ASSUME NEW d \in Allocators, NEW u \in Threads, Resets(u, d)'
               PROVE  /\ \A v \in Threads : pc'[v] # "idle" /\ target'[v] = d => v = u
                      /\ \A k \in live' : k.chunk # Memory(d)'
                      /\ pc'[u] = "reset_rest" => \A v \in Threads : ~Matches(slab[v], d)'
    BY Zenon DEF ResetsOK
  <2>1. Resets(u, d) /\ u # t /\ pc'[u] = pc[u]
    BY <1>3, <1>7 DEF Kept, Resets, Resetting
  <2>2. d # b
    BY <2>1, Zenon DEF Call, Borrows, BeingReset, Busy, Resets, Resetting
  <2>3. \A v \in Threads : pc'[v] # "idle" /\ target'[v] = d => pc[v] # "idle" /\ target[v] = d
    BY <1>3, <2>2, Zenon
  <2> QED
    BY <1>7, <2>1, <2>3, KeptResets, Zenon
<1> QED
  BY <1>5, <1>6, <1>8, <1>9, Zenon DEF IInv

\* LockFreeBuffer::new at an address that no buffer has had before.
LEMMA NewPreserves ==
  ASSUME NoReuse, IInv, TypeOK', NEW b \in Buffers, New(b)
  PROVE  IInv'
<1>1. /\ memory \in [Buffers -> {"none", "allocated", "null"}] /\ epoch \in [Buffers -> Nat]
      /\ offset \in [Buffers -> Nat] /\ generation \in [Buffers -> Nat]
  BY Zenon DEF IInv, TypeOK
<1>2. epoch[b] = 0 /\ ~Exists(b)
  BY <1>1 DEF New, NoReuse
<1>3. /\ memory'[b] # "none" /\ epoch'[b] = 1 /\ offset'[b] = 0 /\ generation'[b] = 0
      /\ \A d \in Buffers \ {b} :
           /\ memory'[d] = memory[d] /\ epoch'[d] = epoch[d]
           /\ offset'[d] = offset[d] /\ generation'[d] = generation[d]
      /\ slab' = slab /\ pc' = pc /\ target' = target /\ request' = request
      /\ current' = current /\ live' = live
  BY <1>1, <1>2 DEF New, calls
<1>4. Capacity \in Nat /\ Allocators \subseteq Buffers
  BY LockFreeBufferAssumption, Zenon
<1>5. \A u \in Threads : /\ slab[u].owner # b
                         /\ pc[u] # "idle" => target[u] # b
                         /\ target[u] \in Buffers
  <2>1. \A u \in Threads : slab[u].owner # b
    BY <1>2 DEF IInv, SlabsOK
  <2> QED
    BY <1>2, <2>1 DEF IInv, TypeOK, CallsOK
<1>6. CallsOK'
  BY <1>3, <1>5, ZenonT(30) DEF IInv, CallsOK, Exists
<1>7. BuffersOK'
  BY <1>3, <1>4 DEF IInv, BuffersOK, Exists
<1>8. SlabsOK'
  BY <1>3, <1>5 DEF IInv, SlabsOK
<1>9. \A k \in live : k.chunk[1] \in Allocators => k.chunk[1] # b
  BY <1>2, Zenon DEF IInv, LiveOK
<1>10. LiveOK'
  BY <1>3, <1>4, <1>9 DEF IInv, LiveOK, Exists, Memory
<1>11. \A d \in Buffers \ {b} : Kept(d)
  BY <1>3, Zenon DEF Kept, Resets, Reserved
<1>12. ResetsOK'
  <2> SUFFICES ASSUME NEW d \in Allocators, NEW u \in Threads, Resets(u, d)'
               PROVE  /\ \A v \in Threads : pc'[v] # "idle" /\ target'[v] = d => v = u
                      /\ \A k \in live' : k.chunk # Memory(d)'
                      /\ pc'[u] = "reset_rest" => \A v \in Threads : ~Matches(slab[v], d)'
    BY Zenon DEF ResetsOK
  <2>1. d # b
    BY <1>3, <1>5, Zenon DEF Resets, Resetting
  <2> QED
    BY <1>3, <1>4, <1>11, <2>1, KeptResets, Zenon
<1>13. ClaimsOK'
  <2> SUFFICES ASSUME NEW d \in Allocators, Exists(d)', \A u \in Threads : ~Resets(u, d)'
               PROVE  Claims(d)'
    BY Zenon DEF ClaimsOK
  <2>1. CASE d # b
    BY <1>4, <1>11, <2>1, KeptClaims, Zenon
  <2>2. CASE d = b
    <3>1. \A u \in Threads : ~Matches(slab[u], d)' /\ ~Reserved(u, d)'
      BY <1>3, <1>5, <2>2, ZenonT(30) DEF Matches, Reserved
    <3>2. \A k \in live' : k.chunk # Memory(d)'
      BY <1>3, <1>9, <2>2 DEF Memory
    <3> QED
      BY <3>1, <3>2, Zenon DEF Claims, SlabClaims, ReservedClaims, LiveClaims
  <2> QED
    BY <2>1, <2>2, Zenon
<1> QED
  BY <1>6, <1>7, <1>8, <1>10, <1>12, <1>13, Zenon DEF IInv

\* Drop takes the blocks of the buffer back.
LEMMA DropPreserves ==
  ASSUME IInv, TypeOK', NEW b \in Buffers, Drop(b)
  PROVE  IInv'
<1>1. memory \in [Buffers -> {"none", "allocated", "null"}]
  BY Zenon DEF IInv, TypeOK
<1>2. /\ memory'[b] = "none" /\ \A d \in Buffers \ {b} : memory'[d] = memory[d]
      /\ epoch' = epoch /\ generation' = generation /\ offset' = offset
      /\ slab' = slab /\ pc' = pc /\ target' = target /\ request' = request
      /\ current' = current /\ live' = {k \in live : k.chunk # Memory(b)}
  BY <1>1, Zenon DEF Drop, calls
<1>3. \A u \in Threads : (pc[u] # "idle" => target[u] # b) /\ target[u] \in Buffers
  BY Zenon DEF Drop, Busy, IInv, TypeOK
<1>4. Allocators \subseteq Buffers
  BY LockFreeBufferAssumption, Zenon
<1>5. CallsOK'
  BY <1>2, <1>3, Zenon DEF IInv, CallsOK, Exists
<1>6. BuffersOK' /\ SlabsOK'
  BY <1>2, Zenon DEF IInv, BuffersOK, SlabsOK, Exists
<1>7. LiveOK'
  BY <1>2, <1>4, Zenon DEF IInv, LiveOK, Exists, Memory
<1>8. \A d \in Buffers \ {b} : Kept(d)
  BY <1>2, Zenon DEF Kept, Resets, Reserved
<1>9. ResetsOK'
  <2> SUFFICES ASSUME NEW d \in Allocators, NEW u \in Threads, Resets(u, d)'
               PROVE  /\ \A v \in Threads : pc'[v] # "idle" /\ target'[v] = d => v = u
                      /\ \A k \in live' : k.chunk # Memory(d)'
                      /\ pc'[u] = "reset_rest" => \A v \in Threads : ~Matches(slab[v], d)'
    BY Zenon DEF ResetsOK
  <2>1. d # b
    BY <1>2, <1>3, Zenon DEF Resets, Resetting
  <2> QED
    BY <1>2, <1>4, <1>8, <2>1, KeptResets, Zenon
<1>10. ClaimsOK'
  BY <1>2, <1>4, <1>8, KeptClaims, Zenon DEF ClaimsOK, Exists
<1> QED
  BY <1>5, <1>6, <1>7, <1>9, <1>10, Zenon DEF IInv

\* reset begins: the offset goes back to 0 and every block is taken back.
LEMMA ResetOffsetPreserves ==
  ASSUME IInv, TypeOK', NEW t \in Threads, NEW b \in Buffers, ResetOffset(t, b)
  PROVE  IInv'
<1>1. /\ pc \in [Threads -> Labels] /\ target \in [Threads -> Buffers]
      /\ offset \in [Buffers -> Nat]
  BY Zenon DEF IInv, TypeOK
<1>2. /\ pc[t] = "idle" /\ pc'[t] = "reset_generation" /\ target'[t] = b /\ Exists(b)
      /\ \A u \in Threads \ {t} : pc'[u] = pc[u] /\ target'[u] = target[u]
      /\ offset'[b] = 0 /\ \A d \in Buffers \ {b} : offset'[d] = offset[d]
      /\ memory' = memory /\ epoch' = epoch /\ generation' = generation
      /\ slab' = slab /\ request' = request /\ current' = current
      /\ live' = {k \in live : k.chunk # Memory(b)}
  BY <1>1, Zenon DEF ResetOffset, buffers
<1>3. b \in Allocators => \A u \in Threads : pc[u] # "idle" => target[u] # b
  BY Zenon DEF ResetOffset, Busy
<1>4. Capacity \in Nat /\ Allocators \subseteq Buffers
  BY LockFreeBufferAssumption, Zenon
<1>5. CallsOK'
  BY <1>2, Zenon DEF IInv, CallsOK, Exists, Allocating
<1>6. BuffersOK' /\ SlabsOK'
  BY <1>2, <1>4 DEF IInv, BuffersOK, SlabsOK, Exists
<1>7. LiveOK'
  BY <1>2, <1>4, Zenon DEF IInv, LiveOK, Exists, Memory
<1>8. \A d \in Buffers \ {b} : Kept(d)
  <2>1. \A d \in Buffers \ {b} : \A u \in Threads :
          (Resets(u, d)' <=> Resets(u, d)) /\ (Reserved(u, d)' <=> Reserved(u, d))
    BY <1>2, Zenon DEF Resets, Reserved, Resetting
  <2> QED
    BY <1>2, <2>1, Zenon DEF Kept
<1>9. ResetsOK'
  <2> SUFFICES ASSUME NEW d \in Allocators, NEW u \in Threads, Resets(u, d)'
               PROVE  /\ \A v \in Threads : pc'[v] # "idle" /\ target'[v] = d => v = u
                      /\ \A k \in live' : k.chunk # Memory(d)'
                      /\ pc'[u] = "reset_rest" => \A v \in Threads : ~Matches(slab[v], d)'
    BY Zenon DEF ResetsOK
  <2>1. CASE d # b
    <3>1. pc'[u] = pc[u]
      BY <1>2, <2>1, Zenon DEF Resets
    <3>2. \A v \in Threads : pc'[v] # "idle" /\ target'[v] = d => pc[v] # "idle" /\ target[v] = d
      BY <1>2, <2>1, Zenon
    <3> QED
      BY <1>4, <1>8, <2>1, <3>1, <3>2, KeptResets, Zenon
  <2>2. CASE d = b
    <3>1. u = t /\ \A v \in Threads : pc'[v] # "idle" /\ target'[v] = d => v = t
      BY <1>2, <1>3, <2>2, Zenon DEF Resets, Resetting
    <3>2. \A k \in live' : k.chunk # Memory(d)'
      BY <1>2, <2>2, Zenon DEF Memory
    <3> QED
      BY <1>2, <3>1, <3>2, Zenon
  <2> QED
    BY <2>1, <2>2, Zenon
<1>10. Resets(t, b)'
  BY <1>2, Zenon DEF Resets, Resetting
<1>11. ClaimsOK'
  BY <1>4, <1>8, <1>10, KeptClaims, Zenon DEF ClaimsOK
<1> QED
  BY <1>5, <1>6, <1>7, <1>9, <1>11, Zenon DEF IInv

\* reset moves the generation on: no slab is of the new one.
LEMMA ResetGenerationPreserves ==
  ASSUME IInv, TypeOK', NEW t \in Threads, ResetGeneration(t)
  PROVE  IInv'
<1>1. PICK b : b = target[t]
  BY Zenon
<1>2. /\ pc \in [Threads -> Labels] /\ b \in Buffers
      /\ generation \in [Buffers -> Nat] /\ slab \in [Threads -> SlabRec]
  BY <1>1, Zenon DEF IInv, TypeOK
<1>3. /\ pc[t] = "reset_generation" /\ pc'[t] = "reset_rest"
      /\ \A u \in Threads \ {t} : pc'[u] = pc[u]
      /\ generation'[b] = generation[b] + 1
      /\ \A d \in Buffers \ {b} : generation'[d] = generation[d]
      /\ memory' = memory /\ epoch' = epoch /\ offset' = offset
      /\ slab' = slab /\ target' = target /\ request' = request
      /\ current' = current /\ live' = live
  BY <1>1, <1>2, Zenon DEF ResetGeneration, Continue
<1>4. Allocators \subseteq Buffers
  BY LockFreeBufferAssumption, Zenon
<1>5. CallsOK'
  BY <1>3, Zenon DEF IInv, CallsOK, Exists, Allocating
<1>6. BuffersOK' /\ LiveOK'
  BY <1>3, Zenon DEF IInv, BuffersOK, LiveOK, Exists, Memory
<1>7. \A u \in Threads : slab[u].generation \in Nat
  BY <1>2, Zenon DEF SlabRec
<1>8. \A u \in Threads : slab[u].owner = b => slab[u].generation < generation'[b]
  BY <1>2, <1>3, <1>7 DEF IInv, SlabsOK
<1>9. SlabsOK'
  BY <1>2, <1>3, <1>7, <1>8 DEF IInv, SlabsOK
<1>10. \A d \in Buffers \ {b} : Kept(d)
  BY <1>1, <1>3 DEF Kept, Resets, Reserved
<1>11. Resets(t, b) /\ Resets(t, b)'
  BY <1>1, <1>3, Zenon DEF Resets, Resetting
<1>12. ClaimsOK'
  BY <1>4, <1>10, <1>11, KeptClaims, Zenon DEF ClaimsOK
<1>13. ResetsOK'
  <2> SUFFICES ASSUME NEW d \in Allocators, NEW u \in Threads, Resets(u, d)'
               PROVE  /\ \A v \in Threads : pc'[v] # "idle" /\ target'[v] = d => v = u
                      /\ \A k \in live' : k.chunk # Memory(d)'
                      /\ pc'[u] = "reset_rest" => \A v \in Threads : ~Matches(slab[v], d)'
    BY Zenon DEF ResetsOK
  <2>1. CASE d # b
    <3>1. pc'[u] = pc[u]
      BY <1>1, <1>3, <2>1, Zenon DEF Resets
    <3>2. \A v \in Threads : pc'[v] # "idle" /\ target'[v] = d => pc[v] # "idle" /\ target[v] = d
      BY <1>1, <1>3, <2>1, Zenon
    <3> QED
      BY <1>4, <1>10, <2>1, <3>1, <3>2, KeptResets, Zenon
  <2>2. CASE d = b
    <3>1. /\ \A v \in Threads : pc[v] # "idle" /\ target[v] = b => v = t
          /\ \A k \in live : k.chunk # Memory(b)
      BY <1>11, <2>2, Zenon DEF IInv, ResetsOK
    <3>2. \A v \in Threads : pc'[v] # "idle" /\ target'[v] = d => v = t
      BY <1>3, <2>2, <3>1, Zenon
    <3>3. u = t
      BY <3>2, Zenon DEF Resets, Resetting
    <3>4. \A v \in Threads : ~Matches(slab[v], d)'
      BY <1>2, <1>3, <1>7, <1>8, <2>2 DEF Matches
    <3>5. \A k \in live' : k.chunk # Memory(d)'
      BY <1>3, <2>2, <3>1, Zenon DEF Memory
    <3> QED
      BY <3>2, <3>3, <3>4, <3>5, Zenon
  <2> QED
    BY <2>1, <2>2, Zenon
<1> QED
  BY <1>5, <1>6, <1>9, <1>12, <1>13, Zenon DEF IInv

\* reset ends: nobody claims anything of the buffer.
LEMMA ResetRestPreserves ==
  ASSUME IInv, TypeOK', NEW t \in Threads, ResetRest(t)
  PROVE  IInv'
<1>1. PICK b : b = target[t]
  BY Zenon
<1>2. /\ pc \in [Threads -> Labels] /\ b \in Buffers /\ slab \in [Threads -> SlabRec]
      /\ request \in [Threads -> [size : Nat, align : Nat \ {0}]]
  BY <1>1, Zenon DEF IInv, TypeOK
<1>3. /\ pc[t] = "reset_rest" /\ pc'[t] = "idle" /\ slab'[t] = NullSlab
      /\ \A u \in Threads \ {t} :
           pc'[u] = pc[u] /\ request'[u] = request[u] /\ slab'[u] = slab[u]
      /\ memory' = memory /\ epoch' = epoch /\ generation' = generation /\ offset' = offset
      /\ target' = target /\ current' = current /\ live' = live
  BY <1>2, Zenon DEF ResetRest, Return, buffers
<1>4. Allocators \subseteq Buffers /\ "null" \notin Buffers
  BY LockFreeBufferAssumption, Zenon
<1>5. CallsOK'
  BY <1>3, Zenon DEF IInv, CallsOK, Exists, Allocating
<1>6. BuffersOK' /\ LiveOK'
  BY <1>3, ZenonT(30) DEF IInv, BuffersOK, LiveOK, Exists, Memory
<1>7. SlabsOK'
  <2>1. NullSlab.owner \notin Buffers
    BY <1>4, Zenon DEF NullSlab
  <2> SUFFICES ASSUME NEW u \in Threads, NEW d \in Buffers, slab'[u].owner = d
               PROVE  /\ epoch'[d] = 1 /\ slab'[u].base = <<d, 1>>
                      /\ slab'[u].generation <= generation'[d]
    BY Zenon DEF SlabsOK
  <2>2. slab'[u] = slab[u]
    BY <1>3, <2>1, Zenon
  <2>3. /\ epoch[d] = 1 /\ slab[u].base = <<d, 1>> /\ slab[u].generation <= generation[d]
    BY <2>2, Zenon DEF IInv, SlabsOK
  <2> QED
    BY <1>3, <2>2, <2>3, Zenon
<1>8. \A d \in Buffers \ {b} : Kept(d)
  BY <1>1, <1>3, Zenon DEF Kept, Resets, Reserved
<1>9. Resets(t, b)
  BY <1>1, <1>3, Zenon DEF Resets, Resetting
<1>10. ASSUME b \in Allocators
       PROVE  /\ \A u \in Threads : pc'[u] # "idle" => target'[u] # b
              /\ \A u \in Threads : ~Matches(slab[u], b)'
              /\ \A k \in live' : k.chunk # Memory(b)'
  <2>1. /\ \A u \in Threads : pc[u] # "idle" /\ target[u] = b => u = t
        /\ \A k \in live : k.chunk # Memory(b)
        /\ \A u \in Threads : ~Matches(slab[u], b)
    BY <1>3, <1>9, <1>10, Zenon DEF IInv, ResetsOK
  <2>2. \A u \in Threads : pc'[u] # "idle" => target'[u] # b
    BY <1>3, <2>1, Zenon
  <2>3. \A u \in Threads : ~Matches(slab[u], b)'
    <3>1. NullSlab.owner # b
      BY <1>2, <1>4 DEF NullSlab
    <3> QED
      BY <1>3, <2>1, <3>1, Zenon DEF Matches
  <2>4. \A k \in live' : k.chunk # Memory(b)'
    BY <1>3, <2>1, Zenon DEF Memory
  <2> QED
    BY <2>2, <2>3, <2>4, Zenon
<1>11. ResetsOK'
  <2> SUFFICES ASSUME NEW d \in Allocators, NEW u \in Threads, Resets(u, d)'
               PROVE  /\ \A v \in Threads : pc'[v] # "idle" /\ target'[v] = d => v = u
                      /\ \A k \in live' : k.chunk # Memory(d)'
                      /\ pc'[u] = "reset_rest" => \A v \in Threads : ~Matches(slab[v], d)'
    BY Zenon DEF ResetsOK
  <2>1. d # b /\ pc'[u] = pc[u]
    BY <1>3, <1>10, Zenon DEF Resets, Resetting
  <2>2. \A v \in Threads : pc'[v] # "idle" /\ target'[v] = d => pc[v] # "idle" /\ target[v] = d
    BY <1>3, Zenon
  <2> QED
    BY <1>4, <1>8, <2>1, <2>2, KeptResets, Zenon
<1>12. ClaimsOK'
  <2> SUFFICES ASSUME NEW d \in Allocators, Exists(d)', \A u \in Threads : ~Resets(u, d)'
               PROVE  Claims(d)'
    BY Zenon DEF ClaimsOK
  <2>1. CASE d # b
    BY <1>4, <1>8, <2>1, KeptClaims, Zenon
  <2>2. CASE d = b
    BY <1>10, <2>2, Zenon DEF Claims, SlabClaims, ReservedClaims, LiveClaims, Reserved
  <2> QED
    BY <2>1, <2>2, Zenon
<1> QED
  BY <1>5, <1>6, <1>7, <1>11, <1>12, Zenon DEF IInv

-----------------------------------------------------------------------------
(* The invariant *)

\* The invariant holds before any buffer is created.
LEMMA InitInv ==
  ASSUME Init
  PROVE  IInv
<1>1. PICK b0 \in Buffers : TRUE
  BY LockFreeBufferAssumption, Zenon
<1>2. TypeOK
  <2>1. (CHOOSE b \in Buffers : TRUE) \in Buffers
    BY <1>1, ZenonT(30)
  <2>2. NullSlab \in SlabRec
    BY DEF NullSlab, SlabRec
  <2>3. ZeroStats \in StatsRec
    BY DEF ZeroStats, StatsRec
  <2>4. NoRequest \in [size : Nat, align : Nat \ {0}]
    BY DEF NoRequest
  <2>5. "idle" \in Labels
    BY Zenon DEF Labels
  <2> QED
    BY <2>1, <2>2, <2>3, <2>4, <2>5, Zenon DEF Init, TypeOK
<1>3. \A t \in Threads : pc[t] = "idle" /\ slab[t] = NullSlab
  BY Zenon DEF Init
<1>4. \A b \in Buffers : ~Exists(b) /\ epoch[b] = 0 /\ offset[b] = 0
  BY Zenon DEF Init, Exists
<1>5. Capacity \in Nat /\ Allocators \subseteq Buffers /\ "null" \notin Buffers
  BY LockFreeBufferAssumption, Zenon
<1>6. CallsOK /\ BuffersOK
  BY <1>3, <1>4, <1>5 DEF CallsOK, BuffersOK, Allocating
<1>7. SlabsOK
  BY <1>3, <1>5 DEF SlabsOK, NullSlab
<1>8. ResetsOK /\ LiveOK /\ ClaimsOK
  BY <1>3, <1>4, <1>5, Zenon DEF ResetsOK, LiveOK, ClaimsOK, Resets, Resetting, Init
<1> QED
  BY <1>2, <1>6, <1>7, <1>8, Zenon DEF IInv

\* Every step preserves it.
LEMMA NextInv ==
  ASSUME NoReuse, IInv, [Next]_vars
  PROVE  IInv'
<1>1. CASE UNCHANGED vars
  <2>1. UNCHANGED <<memory, epoch, generation, offset, stats, slab, pc, calls, current, live>>
    BY <1>1, Zenon DEF vars, buffers
  <2>2. TypeOK'
    BY <2>1, Zenon DEF IInv, TypeOK, calls
  <2> QED
    BY <2>1, <2>2, QuietPreserves, Zenon
<1>2. CASE Next
  <2>1. TypeOK'
    BY <1>2, TypeStep, Zenon DEF IInv
  <2>2. ASSUME NEW b \in Buffers, New(b) \/ Drop(b) PROVE IInv'
    BY <2>1, <2>2, NewPreserves, DropPreserves, Zenon
  <2>3. ASSUME NEW b \in Buffers, Enable(b) \/ Disable(b) PROVE IInv'
    BY <2>1, <2>3, QuietPreserves, Zenon DEF Enable, Disable, SetEnabled
  <2>4. ASSUME NEW t \in Threads, NEW b \in Buffers, Bypass(t, b) PROVE IInv'
    BY <2>1, <2>4, QuietPreserves, Zenon DEF Bypass, buffers
  <2>5. ASSUME NEW t \in Threads, NEW b \in Buffers, Call(t, b) \/ ResetOffset(t, b) PROVE IInv'
    BY <2>1, <2>5, CallPreserves, ResetOffsetPreserves, Zenon
  <2>6. ASSUME NEW t \in Threads, Step(t) PROVE IInv'
    <3>0. PICK b0 : b0 = target[t]
      BY Zenon
    <3>1. CASE TryThreadSlab(t)
      <4>1. \/ \E k : TakesFromSlab(t, b0, k)
            \/ Looks(t, b0)
        BY <3>0, <3>1, SlabHitTakes, SlabMissLooks, Zenon DEF IInv
      <4> QED
        BY <2>1, <4>1, SlabHitPreserves, LooksPreserves, Zenon
    <3>2. CASE LoadOffset(t) \/ CompareExchange(t)
      <4>1. \/ CompareExchange(t) /\ offset[target[t]] = current[t]
            \/ Looks(t, b0)
        BY <3>0, <3>2, LoadLooks, Zenon DEF IInv
      <4> QED
        BY <2>1, <3>0, <4>1, ReservePreserves, LooksPreserves, Zenon
    <3>3. CASE SetRegion(t) \/ ResetGeneration(t) \/ ResetRest(t)
      <4>1. SetRegion(t) => \E k : TakesRegion(t, b0, k)
        BY <3>0, SetRegionTakes, Zenon
      <4> QED
        BY <2>1, <3>3, <4>1, RegionPreserves, ResetGenerationPreserves, ResetRestPreserves, Zenon
    <3> QED
      BY <2>6, <3>1, <3>2, <3>3, Zenon DEF Step
  <2> QED
    BY <1>2, <2>2, <2>3, <2>4, <2>5, <2>6, Zenon DEF Next
<1> QED
  BY <1>1, <1>2, Zenon

-----------------------------------------------------------------------------
(***************************************************************************)
(* What the inductive invariant above shows of the                         *)
(* lock-free buffers, of any number of threads, capacity and alignment:    *)
(* slabs are private, owned blocks are in live memory, a LockFreeAllocator *)
(* implements RegionAllocator, and every contention event was paid for by  *)
(* a refill.                                                               *)
(***************************************************************************)

(* Slabs and owned blocks *)

\* However threads allocate from and reset the buffers, and whichever slabs
\* they keep meanwhile, the claims on a LockFreeAllocator's memory are apart
\* and no slab of an earlier generation is taken for a present one.
THEOREM BufferInvariance ==
  ASSUME NoReuse PROVE Spec => []IInv
<1>1. Init => IInv
  BY InitInv, Zenon
<1>2. IInv /\ [Next]_vars => IInv'
  BY NextInv, Zenon
<1> QED
  BY <1>1, <1>2, PTL DEF Spec

\* What is left of a usable slab of a LockFreeAllocator is its thread's alone:
\* no other usable slab and no block that a caller owns reaches into it.
THEOREM PrivateSlabs ==
  ASSUME NoReuse PROVE Spec => []SlabsArePrivate
<1>1. ASSUME IInv PROVE SlabsArePrivate
  <2> SUFFICES ASSUME NEW t \in Threads, NEW b \in Allocators,
                      Exists(b), ~BeingReset(b), Matches(slab[t], b)
               PROVE  /\ \A u \in Threads \ {t} : Matches(slab[u], b) =>
                           slab[u].end <= slab[t].offset \/ slab[t].end <= slab[u].offset
                      /\ \A k \in live : k.chunk = slab[t].base =>
                           k.hi <= slab[t].offset \/ slab[t].end <= k.lo
    BY Zenon DEF SlabsArePrivate
  <2>1. b \in Buffers
    BY LockFreeBufferAssumption, Zenon
  <2>2. \A u \in Threads : ~Resets(u, b)
    BY Zenon DEF BeingReset, Busy, Resets, Resetting
  <2>3. Claims(b)
    BY <1>1, <2>2, Zenon DEF IInv, ClaimsOK
  <2>4. slab[t].base = Memory(b)
    BY <1>1, <2>1, Zenon DEF IInv, SlabsOK, Matches, Memory
  <2> QED
    BY <2>3, <2>4, Zenon DEF Claims, SlabClaims, LiveClaims, LiveClaim, Apart
<1>2. Spec => []IInv
  BY BufferInvariance, Zenon
<1> QED
  BY <1>1, <1>2, PTL

\* No refill takes the offset past the capacity, and every block that a caller
\* of a LockFreeAllocator owns lies below the offset of a buffer that exists.
THEOREM LiveMemory ==
  ASSUME NoReuse PROVE Spec => []BlocksInLiveMemory
<1>1. ASSUME IInv PROVE BlocksInLiveMemory
  <2>1. \A b \in Buffers : offset[b] <= Capacity
    BY <1>1, Zenon DEF IInv, BuffersOK
  <2>2. ASSUME NEW k \in AllocatorLive
        PROVE  \E b \in Buffers : Exists(b) /\ k.chunk = Memory(b) /\ k.hi <= offset[b]
    <3>1. PICK b : b = k.chunk[1]
      BY Zenon
    <3>2. k \in live /\ b \in Allocators /\ b \in Buffers
      BY <2>2, <3>1, LockFreeBufferAssumption, Zenon DEF AllocatorLive
    <3>3. Exists(b) /\ k.chunk = Memory(b)
      BY <1>1, <3>1, <3>2, Zenon DEF IInv, LiveOK
    <3>4. \A t \in Threads : ~Resets(t, b)
      BY <1>1, <3>2, <3>3, Zenon DEF IInv, ResetsOK
    <3>5. k.hi <= offset[b]
      BY <1>1, <3>2, <3>3, <3>4, Zenon DEF IInv, ClaimsOK, Claims, LiveClaims, LiveClaim
    <3> QED
      BY <3>2, <3>3, <3>5, Zenon
  <2> QED
    BY <2>1, <2>2, Zenon DEF BlocksInLiveMemory
<1>2. Spec => []IInv
  BY BufferInvariance, Zenon
<1> QED
  BY <1>1, <1>2, PTL

-----------------------------------------------------------------------------
(* A LockFreeAllocator implements a region allocator *)

\* A block handed out of a range that no owned block reaches into is granted.
LEMMA BlockGranted ==
  ASSUME IInv, NEW t \in Threads, pc[t] \in Allocating, NEW b0, b0 = target[t],
         NEW s \in SlabRec, s.base = <<b0, 1>>, HasRoom(s, request[t]),
         live' = Granted(t, Block(s, request[t])),
         b0 \in Allocators =>
           \A j \in live : j.chunk = <<b0, 1>> => Apart(j.lo, j.hi, s.offset, s.end)
  PROVE  Regions!Next
<1>1. PICK k : k = Grants(t, Block(s, request[t]))
  BY Zenon
<1>2. /\ k.chunk = <<b0, 1>> /\ k.lo \in Nat /\ k.hi \in Nat
      /\ s.offset <= k.lo /\ k.lo < k.hi /\ k.hi <= s.end
  <2>1. /\ request[t] \in [size : Nat, align : Nat \ {0}]
        /\ request[t].size \in Nat /\ request[t].size > 0
    BY Zenon DEF IInv, TypeOK, CallsOK
  <2>2. LET m == Block(s, request[t])
        IN  /\ m.chunk = s.base /\ m.lo \in Nat /\ m.hi \in Nat
            /\ s.offset <= m.lo /\ m.hi = m.lo + request[t].size /\ m.hi <= s.end
    BY <2>1, BlockFacts, Zenon
  <2> QED
    BY <1>1, <2>1, <2>2 DEF Grants
<1>3. live' = live \/ live' = live \cup {k}
  BY <1>1, GrantedFacts, Zenon
<1>4. CASE live' = live \/ b0 \notin Allocators
  <2>1. AllocatorLive' = AllocatorLive
    BY <1>2, <1>3, <1>4 DEF AllocatorLive
  <2> QED
    BY <2>1, Zenon DEF Regions!Next, Regions!Release
<1>5. CASE live' = live \cup {k} /\ b0 \in Allocators
  <2>1. AllocatorLive' = AllocatorLive \cup {k} /\ k \in AllocatorLive'
    BY <1>2, <1>5 DEF AllocatorLive
  <2>2. ASSUME NEW c \in AllocatorLive PROVE Regions!Disjoint(k, c)
    <3>1. c \in live /\ c.lo \in Nat /\ c.hi \in Nat
      BY RangeTypes, Zenon DEF AllocatorLive, IInv
    <3>2. s.offset \in Nat /\ s.end \in Nat
      BY Zenon DEF SlabRec
    <3>3. CASE c.chunk = <<b0, 1>>
      BY <1>2, <1>5, <3>1, <3>2, <3>3 DEF Apart, Regions!Disjoint
    <3>4. CASE c.chunk # <<b0, 1>>
      BY <1>2, <3>4, Zenon DEF Regions!Disjoint
    <3> QED
      BY <3>3, <3>4, Zenon
  <2> QED
    BY <1>2, <2>1, <2>2, Zenon DEF Regions!Next, Regions!Grant
<1> QED
  BY <1>3, <1>4, <1>5, Zenon

\* Every step grants a region, takes regions back or leaves them alone.
LEMMA RegionStep ==
  ASSUME NoReuse, IInv, [Next]_vars
  PROVE  [Regions!Next]_AllocatorLive
<1>1. ASSUME live' \subseteq live PROVE Regions!Next
  <2>1. AllocatorLive' \subseteq AllocatorLive
    BY <1>1, Zenon DEF AllocatorLive
  <2> QED
    BY <2>1, Zenon DEF Regions!Next, Regions!Release
<1>2. ASSUME NEW b \in Buffers, New(b) \/ Drop(b) \/ Enable(b) \/ Disable(b)
      PROVE  live' \subseteq live
  BY <1>2, Zenon DEF New, Drop, Enable, Disable, SetEnabled
<1>3. ASSUME NEW t \in Threads, NEW b \in Buffers, Bypass(t, b) \/ Call(t, b) \/ ResetOffset(t, b)
      PROVE  live' \subseteq live
  BY <1>3, Zenon DEF Bypass, Call, ResetOffset
<1>4. ASSUME NEW t \in Threads, LoadOffset(t) \/ CompareExchange(t) \/ ResetGeneration(t) \/ ResetRest(t)
      PROVE  live' \subseteq live
  BY <1>4, Zenon DEF LoadOffset, CompareExchange, ResetGeneration, ResetRest
<1>5. ASSUME NEW t \in Threads, TryThreadSlab(t)
      PROVE  Regions!Next
  <2>1. CASE live' = live
    BY <1>1, <2>1, Zenon
  <2>2. CASE live' # live
    <3>1. PICK b0 : b0 = target[t]
      BY Zenon
    <3>2. /\ pc[t] = "slab" /\ Matches(slab[t], target[t]) /\ HasRoom(slab[t], request[t])
          /\ live' = Granted(t, Block(slab[t], request[t]))
      BY <1>5, <2>2, Zenon DEF TryThreadSlab
    <3>3. /\ slab[t] \in SlabRec /\ b0 \in Buffers /\ Matches(slab[t], b0)
      BY <3>1, <3>2, Zenon DEF IInv, TypeOK
    <3>4. slab[t].base = <<b0, 1>> /\ Memory(b0) = <<b0, 1>>
      BY <3>3, Zenon DEF Matches, IInv, SlabsOK, Memory
    <3>5. ASSUME b0 \in Allocators, NEW j \in live, j.chunk = <<b0, 1>>
          PROVE  Apart(j.lo, j.hi, slab[t].offset, slab[t].end)
      <4>1. Claims(b0)
        BY <3>1, <3>2, <3>5, CallClaims, Zenon DEF Allocating
      <4> QED
        BY <3>3, <3>4, <3>5, <4>1, Zenon DEF Claims, LiveClaims, LiveClaim
    <3>6. pc[t] \in Allocating
      BY <3>2, Zenon DEF Allocating
    <3>7. PICK s : s = slab[t]
      BY Zenon
    <3>8. /\ s \in SlabRec /\ s.base = <<b0, 1>> /\ HasRoom(s, request[t])
          /\ live' = Granted(t, Block(s, request[t]))
          /\ b0 \in Allocators =>
               \A j \in live : j.chunk = <<b0, 1>> => Apart(j.lo, j.hi, s.offset, s.end)
      BY <3>2, <3>3, <3>4, <3>5, <3>7, Zenon
    <3> QED
      BY <3>1, <3>6, <3>8, BlockGranted, Zenon
  <2> QED
    BY <2>1, <2>2, Zenon
<1>6. ASSUME NEW t \in Threads, SetRegion(t)
      PROVE  Regions!Next
  <2>1. CASE live' = live
    BY <1>1, <2>1, Zenon
  <2>2. CASE live' # live
    <3>1. PICK b0 : b0 = target[t]
      BY Zenon
    <3>2. PICK s : s = [owner |-> target[t], base |-> Memory(target[t]),
                        offset |-> RefillStart(current[t]),
                        end |-> RefillEnd(current[t], request[t]),
                        generation |-> generation[target[t]]]
      BY Zenon
    <3>3. /\ pc[t] = "region" /\ HasRoom(s, request[t])
          /\ live' = Granted(t, Block(s, request[t]))
      BY <1>6, <2>2, <3>2, Zenon DEF SetRegion
    <3>4. /\ b0 \in Buffers /\ generation \in [Buffers -> Nat]
          /\ Memory(b0) = <<b0, 1>> /\ First(t) \in Nat /\ Last(t) \in Nat
      BY <3>1, <3>3, ReservedType, ZenonT(30) DEF IInv, TypeOK, CallsOK, BuffersOK, Memory
    <3>5. /\ s \in SlabRec /\ s.base = <<b0, 1>> /\ s.offset = First(t) /\ s.end = Last(t)
      BY <3>1, <3>2, <3>4 DEF SlabRec, First, Last
    <3>6. ASSUME b0 \in Allocators, NEW j \in live, j.chunk = <<b0, 1>>
          PROVE  Apart(j.lo, j.hi, s.offset, s.end)
      <4>1. Claims(b0) /\ Reserved(t, b0)
        BY <3>1, <3>3, <3>6, CallClaims, ZenonT(30) DEF Allocating, Reserved
      <4> QED
        BY <3>4, <3>5, <3>6, <4>1, Zenon DEF Claims, LiveClaims, LiveClaim
    <3>7. pc[t] \in Allocating
      BY <3>3, Zenon DEF Allocating
    <3> QED
      BY <3>1, <3>3, <3>5, <3>6, <3>7, BlockGranted, ZenonT(30)
  <2> QED
    BY <2>1, <2>2, Zenon
<1>7. CASE UNCHANGED vars
  BY <1>7, Zenon DEF vars, AllocatorLive
<1> QED
  BY <1>1, <1>2, <1>3, <1>4, <1>5, <1>6, <1>7, Zenon DEF Next, Step

\* What the callers of a LockFreeAllocator see is a region allocator: a block
\* is granted apart from every block that is owned, or nothing is, whatever
\* the interleaving of refills; only reset and drop take blocks back.
THEOREM AllocatorGrantsRegions ==
  ASSUME NoReuse PROVE Spec => ImplementsRegionAllocator
<1>1. Init => Regions!Init
  BY Zenon DEF Init, Regions!Init, AllocatorLive
<1>2. IInv /\ [Next]_vars => [Regions!Next]_AllocatorLive
  BY RegionStep, Zenon
<1>3. Spec => []IInv
  BY BufferInvariance, Zenon
<1> QED
  BY <1>1, <1>2, <1>3, PTL DEF Spec, ImplementsRegionAllocator, Regions!Spec

-----------------------------------------------------------------------------
(* Contention *)

\* The smallest slab is not empty.
LEMMA MinBlockType == MinBlock \in Nat \ {0}
<1>1. Alignment \in Nat \ {0} /\ SlabMinBlock \in Nat \ {0}
  BY LockFreeBufferAssumption, Zenon
<1> QED
  BY <1>1, AlignUpFacts DEF MinBlock

\* A refill moves the offset by one smallest slab at least.
LEMMA DivGrows ==
  ASSUME NEW o \in Nat, NEW p \in Nat, NEW m \in Nat \ {0}, p >= o + m
  PROVE  /\ o \div m \in Nat /\ p \div m \in Nat
         /\ p \div m >= o \div m + 1
OBVIOUS

\* ... and pays for a contention event of every other thread.
LEMMA Pays ==
  ASSUME NEW n \in Nat, NEW q \in Nat, NEW r \in Nat, r >= q + 1
  PROVE  n * q \in Nat /\ n * r >= n * q + n
<1>1. PICK d \in Nat : r = q + 1 + d
  <2>1. r - (q + 1) \in Nat /\ r = q + 1 + (r - (q + 1))
    OBVIOUS
  <2> QED
    BY <2>1, Zenon
<1>2. n * r = n * q + n + n * d /\ n * d >= 0 /\ n * q \in Nat /\ n * d \in Nat
  BY <1>1
<1> QED
  BY <1>2

\* The threads bound to fail are finitely many.
LEMMA BoundFinite ==
  ASSUME NEW b
  PROVE  /\ IsFiniteSet(Threads) /\ Cardinality(Threads) \in Nat
         /\ IsFiniteSet(Bound(b)) /\ Cardinality(Bound(b)) \in Nat
         /\ IsFiniteSet(Bound(b)') /\ Cardinality(Bound(b)') \in Nat
<1>1. IsFiniteSet(Threads)
  BY LockFreeBufferAssumption, Zenon
<1>2. Bound(b) \subseteq Threads /\ Bound(b)' \subseteq Threads
  BY Zenon DEF Bound
<1> QED
  BY <1>1, <1>2, FS_Subset, FS_CardinalityType, Zenon

\* Nothing to pay for: no event is counted, the offset stays, nobody is newly
\* bound to fail.
LEMMA PaidKept ==
  ASSUME NEW b, PaidFor(b), stats[b].contention \in Nat, offset[b] \in Nat,
         stats'[b].contention = stats[b].contention, offset'[b] = offset[b],
         Bound(b)' \subseteq Bound(b)
  PROVE  PaidFor(b)'
<1>1. Cardinality(Bound(b)') <= Cardinality(Bound(b))
  BY BoundFinite, FS_Subset, Zenon
<1> DEFINE x == (Cardinality(Threads) - 1) * (offset[b] \div MinBlock)
<1>2. PaidFor(b)' <=> stats[b].contention + Cardinality(Bound(b)') <= x
  BY Zenon DEF PaidFor, MinBlock
<1>3. PaidFor(b) <=> stats[b].contention + Cardinality(Bound(b)) <= x
  BY Zenon DEF PaidFor
<1>4. x \in Int
  <2>1. MinBlock \in Nat \ {0} /\ Cardinality(Threads) \in Nat
    BY MinBlockType, BoundFinite, Zenon
  <2>2. offset[b] \div MinBlock \in Int
    BY <2>1
  <2> QED
    BY <2>1, <2>2
<1>5. Cardinality(Bound(b)) \in Nat /\ Cardinality(Bound(b)') \in Nat
  BY BoundFinite, Zenon
<1> HIDE DEF x
<1> QED
  BY <1>1, <1>2, <1>3, <1>4, <1>5

\* The same for a buffer that is being reset, or not, as before.
LEMMA ContentionKept ==
  ASSUME TypeOK, NEW d \in Buffers, BeingReset(d) \/ PaidFor(d),
         \A u \in Threads : Resets(u, d) => Resets(u, d)',
         stats'[d].contention = stats[d].contention, offset'[d] = offset[d],
         \A u \in Threads : pc'[u] = "cas" /\ target'[u] = d /\ current'[u] # offset'[d] =>
                            pc[u] = "cas" /\ target[u] = d /\ current[u] # offset[d]
  PROVE  BeingReset(d)' \/ PaidFor(d)'
<1>1. BeingReset(d) => BeingReset(d)'
  BY Zenon DEF BeingReset, Busy, Resets, Resetting
<1>2. Bound(d)' \subseteq Bound(d)
  BY Zenon DEF Bound
<1>3. stats[d].contention \in Nat /\ offset[d] \in Nat
  BY Zenon DEF TypeOK, StatsRec
<1> QED
  BY <1>1, <1>2, <1>3, PaidKept, Zenon

\* A compare_exchange that succeeds pays for the ones it makes fail.
LEMMA SuccessPays ==
  ASSUME IInv, NEW t \in Threads, CompareExchange(t), offset[target[t]] = current[t],
         NEW b, b = target[t], BeingReset(b) \/ PaidFor(b), b \in Allocators
  PROVE  PaidFor(b)'
<1>1. /\ b \in Buffers /\ offset \in [Buffers -> Nat] /\ stats[b].contention \in Nat
      /\ pc \in [Threads -> Labels] /\ current[t] \in Nat
  BY Zenon DEF IInv, TypeOK, StatsRec
<1>2. /\ pc[t] = "cas" /\ pc' = [pc EXCEPT ![t] = "region"] /\ stats' = stats
      /\ offset'[b] = Last(t) /\ offset[b] = current[t] /\ target' = target
  BY <1>1, Zenon DEF CompareExchange, Continue, Last
<1>3. PaidFor(b)
  <2>1. \A u \in Threads : ~Resets(u, b)
    BY <1>2, NotBeingReset, Zenon DEF IInv, Allocating
  <2> QED
    BY <2>1, Zenon DEF BeingReset, Busy, Resets, Resetting
<1>4. /\ First(t) \in Nat /\ Last(t) \in Nat /\ MinBlock \in Nat \ {0}
      /\ Last(t) >= offset[b] + MinBlock
  BY <1>1, <1>2, ReservedType DEF IInv
<1> DEFINE n == Cardinality(Threads) - 1
           q == offset[b] \div MinBlock
           r == Last(t) \div MinBlock
<1>5. q \in Nat /\ r \in Nat /\ r >= q + 1
  BY <1>1, <1>4, DivGrows, Zenon
<1>6. n \in Nat /\ Cardinality(Bound(b)') <= n
  <2>1. Bound(b)' \subseteq Threads \ {t}
    BY <1>1, <1>2, Zenon DEF Bound
  <2>2. IsFiniteSet(Threads \ {t}) /\ Cardinality(Threads \ {t}) = n
    BY BoundFinite, FS_RemoveElement, Zenon
  <2>3. Cardinality(Threads \ {t}) \in Nat
    BY <2>2, FS_CardinalityType, Zenon
  <2> QED
    BY <2>1, <2>2, <2>3, FS_Subset
<1>7. stats[b].contention + Cardinality(Bound(b)) <= n * q
  BY <1>3, Zenon DEF PaidFor
<1>8. PaidFor(b)' <=> stats[b].contention + Cardinality(Bound(b)') <= n * r
  BY <1>2, Zenon DEF PaidFor, MinBlock
<1> HIDE DEF n, q, r
<1>9. n * q \in Nat /\ n * r >= n * q + n /\ n * r \in Nat
  <2>1. n * r \in Nat
    BY <1>5, <1>6
  <2> QED
    BY <1>5, <1>6, <2>1, Pays, ZenonT(30)
<1>10. Cardinality(Bound(b)) \in Nat /\ Cardinality(Bound(b)') \in Nat
  BY BoundFinite, Zenon
<1> QED
  BY <1>1, <1>6, <1>7, <1>8, <1>9, <1>10

\* A compare_exchange that fails was bound to.
LEMMA FailurePaid ==
  ASSUME IInv, NEW t \in Threads, CompareExchange(t), offset[target[t]] # current[t],
         NEW b, b = target[t], BeingReset(b) \/ PaidFor(b), b \in Allocators
  PROVE  PaidFor(b)'
<1>1. /\ b \in Buffers /\ offset[b] \in Nat /\ stats[b].contention \in Nat
      /\ stats \in [Buffers -> StatsRec] /\ pc \in [Threads -> Labels]
  BY Zenon DEF IInv, TypeOK, StatsRec
<1>2. /\ pc[t] = "cas" /\ pc' = [pc EXCEPT ![t] = "load"] /\ Count(b, 0, 0, 0, 1)
      /\ offset' = offset /\ target' = target /\ current' = current
  BY Zenon DEF CompareExchange, Continue
<1>3. PaidFor(b)
  <2>1. \A u \in Threads : ~Resets(u, b)
    BY <1>2, NotBeingReset, Zenon DEF IInv, Allocating
  <2> QED
    BY <2>1, Zenon DEF BeingReset, Busy, Resets, Resetting
<1>4. stats'[b].contention = stats[b].contention + 1
  BY <1>1, <1>2 DEF Count
<1>5. t \in Bound(b) /\ Bound(b)' = Bound(b) \ {t}
  BY <1>1, <1>2, Zenon DEF Bound
<1>6. Cardinality(Bound(b)') = Cardinality(Bound(b)) - 1 /\ Cardinality(Bound(b)) \in Nat
  <2>1. IsFiniteSet(Bound(b)) /\ Cardinality(Bound(b)) \in Nat
    BY BoundFinite, Zenon
  <2>2. Cardinality(Bound(b) \ {t}) =
          IF t \in Bound(b) THEN Cardinality(Bound(b)) - 1 ELSE Cardinality(Bound(b))
    BY <2>1, FS_RemoveElement, Zenon
  <2> QED
    BY <1>5, <2>1, <2>2, Zenon
<1> DEFINE x == (Cardinality(Threads) - 1) * (offset[b] \div MinBlock)
<1>7. PaidFor(b)' <=> stats[b].contention + 1 + Cardinality(Bound(b)') <= x
  BY <1>2, <1>4, Zenon DEF PaidFor, MinBlock
<1>8. stats[b].contention + Cardinality(Bound(b)) <= x
  BY <1>3, Zenon DEF PaidFor
<1>9. stats[b].contention + 1 + Cardinality(Bound(b)') = stats[b].contention + Cardinality(Bound(b))
  BY <1>1, <1>6
<1> QED
  BY <1>7, <1>8, <1>9, Zenon

\* Every step keeps contention paid for.
LEMMA ContentionStep ==
  ASSUME NoReuse, IInv, ContentionOK, [Next]_vars
  PROVE  ContentionOK'
<1> SUFFICES ASSUME NEW d \in Allocators
             PROVE  BeingReset(d)' \/ PaidFor(d)'
  BY Zenon DEF ContentionOK
<1>0. /\ d \in Buffers /\ (BeingReset(d) \/ PaidFor(d))
      /\ TypeOK /\ stats \in [Buffers -> StatsRec] /\ offset \in [Buffers -> Nat]
      /\ pc \in [Threads -> Labels] /\ target \in [Threads -> Buffers]
      /\ current \in [Threads -> Nat]
  BY LockFreeBufferAssumption, Zenon DEF ContentionOK, IInv, TypeOK
<1>1. ASSUME pc' = pc, target' = target, current' = current, offset'[d] = offset[d],
             stats'[d].contention = stats[d].contention
      PROVE  BeingReset(d)' \/ PaidFor(d)'
  BY <1>0, <1>1, ContentionKept, ZenonT(30) DEF Resets
<1>2. ASSUME NEW b \in Buffers, New(b) PROVE BeingReset(d)' \/ PaidFor(d)'
  <2>1. /\ pc' = pc /\ target' = target /\ current' = current
    BY <1>2, Zenon DEF New, calls
  <2>2. CASE d # b
    BY <1>0, <1>1, <1>2, <2>1, <2>2, ZenonT(30) DEF New
  <2>3. CASE d = b
    <3>1. stats'[d].contention = 0 /\ offset'[d] = 0
      BY <1>0, <1>2, <2>3, Zenon DEF New, ZeroStats
    <3>2. Bound(d)' = {}
      BY <1>2, <2>1, <2>3, Zenon DEF New, Bound, IInv, CallsOK
    <3>3. Cardinality(Bound(d)') = 0
      BY <3>2, FS_EmptySet, Zenon
    <3>4. MinBlock \in Nat \ {0} /\ Cardinality(Threads) \in Nat
      BY MinBlockType, BoundFinite, Zenon
    <3>5. 0 \div MinBlock = 0
      BY <3>4
    <3>6. (Cardinality(Threads) - 1) * (0 \div MinBlock) = 0
      BY <3>4, <3>5
    <3>7. 0 + 0 <= (Cardinality(Threads) - 1) * (0 \div MinBlock)
      BY <3>6
    <3> QED
      BY <3>1, <3>3, <3>7, Zenon DEF PaidFor, MinBlock
  <2> QED
    BY <2>2, <2>3, Zenon
<1>3. ASSUME NEW b \in Buffers, Drop(b) \/ Enable(b) \/ Disable(b)
      PROVE  BeingReset(d)' \/ PaidFor(d)'
  BY <1>1, <1>3, Zenon DEF Drop, Enable, Disable, SetEnabled, calls
<1>4. ASSUME NEW t \in Threads, NEW b \in Buffers, Bypass(t, b)
      PROVE  BeingReset(d)' \/ PaidFor(d)'
  <2>1. b \in Buffers /\ b # d /\ Count(b, 1, 0, 1, 0)
    BY <1>4, Zenon DEF Bypass
  <2>2. stats'[d].contention = stats[d].contention
    BY <1>0, <2>1, CountType, Zenon
  <2> QED
    BY <1>1, <1>4, <2>2, Zenon DEF Bypass, calls
<1>5. ASSUME NEW t \in Threads, NEW b \in Buffers, Call(t, b)
      PROVE  BeingReset(d)' \/ PaidFor(d)'
  <2>1. /\ pc[t] = "idle" /\ pc'[t] = "slab"
        /\ \A u \in Threads \ {t} : pc'[u] = pc[u] /\ target'[u] = target[u]
        /\ current' = current /\ offset' = offset /\ stats' = stats
    BY <1>0, <1>5, Zenon DEF Call
  <2>2. \A u \in Threads : Resets(u, d) => Resets(u, d)'
    BY <2>1, Zenon DEF Resets, Resetting
  <2> QED
    BY <1>0, <2>1, <2>2, ContentionKept, Zenon
<1>6. ASSUME NEW t \in Threads, NEW b \in Buffers, ResetOffset(t, b)
      PROVE  BeingReset(d)' \/ PaidFor(d)'
  <2>1. /\ pc[t] = "idle" /\ pc'[t] = "reset_generation" /\ target'[t] = b
        /\ \A u \in Threads \ {t} : pc'[u] = pc[u] /\ target'[u] = target[u]
        /\ current' = current /\ stats' = stats
        /\ \A c \in Buffers \ {b} : offset'[c] = offset[c]
    BY <1>0, <1>6, Zenon DEF ResetOffset
  <2>2. CASE d = b
    BY <2>1, <2>2, Zenon DEF BeingReset, Busy, Resetting
  <2>3. CASE d # b
    <3>1. \A u \in Threads : Resets(u, d) => Resets(u, d)'
      BY <2>1, Zenon DEF Resets, Resetting
    <3> QED
      BY <1>0, <2>1, <2>3, <3>1, ContentionKept, Zenon
  <2> QED
    BY <2>2, <2>3, Zenon
<1>7. ASSUME NEW t \in Threads, pc[t] \in Allocating, target' = target, offset' = offset,
             pc' = [pc EXCEPT ![t] = "idle"] \/ pc' = [pc EXCEPT ![t] = "load"],
             \A u \in Threads \ {t} : current'[u] = current[u],
             stats'[d].contention = stats[d].contention
      PROVE  BeingReset(d)' \/ PaidFor(d)'
  <2>1. /\ \A u \in Threads \ {t} : pc'[u] = pc[u] /\ current'[u] = current[u]
        /\ pc'[t] # "cas" /\ pc[t] \notin Resetting
    BY <1>0, <1>7, Zenon DEF Allocating, Resetting
  <2>2. \A u \in Threads : Resets(u, d) => Resets(u, d)'
    BY <1>7, <2>1, Zenon DEF Resets
  <2> QED
    BY <1>0, <1>7, <2>1, <2>2, ContentionKept, ZenonT(30)
<1>8. ASSUME NEW c \in Buffers, NEW a \in Nat, NEW h \in Nat, NEW m \in Nat, Count(c, a, h, m, 0)
      PROVE  stats'[d].contention = stats[d].contention
  <2>0. 0 \in Nat /\ stats[c].contention \in Nat
    BY <1>0, Zenon DEF StatsRec
  <2>1. /\ stats'[c].contention = stats[c].contention + 0 /\ stats[c].contention \in Nat
        /\ \A e \in Buffers \ {c} : stats'[e] = stats[e]
    BY <1>0, <1>8, <2>0, Zenon DEF Count, StatsRec
  <2> QED
    BY <1>0, <2>1
<1>9. ASSUME NEW t \in Threads, TryThreadSlab(t) PROVE BeingReset(d)' \/ PaidFor(d)'
  <2>1. /\ pc[t] = "slab" /\ target' = target /\ offset' = offset /\ current' = current
        /\ (Return(t) \/ Continue(t, "load")) /\ target[t] \in Buffers
        /\ \/ UNCHANGED stats
           \/ Count(target[t], 1, 1, 0, 0)
           \/ Count(target[t], 0, 0, 1, 0)
    BY <1>0, <1>9, Zenon DEF TryThreadSlab
  <2>2. stats'[d].contention = stats[d].contention
    BY <1>0, <1>8, <2>1, Zenon
  <2> QED
    BY <1>7, <2>1, <2>2, Zenon DEF Return, Continue, Allocating
<1>10. ASSUME NEW t \in Threads, LoadOffset(t) PROVE BeingReset(d)' \/ PaidFor(d)'
  <2>1. target[t] \in Buffers /\ (UNCHANGED stats \/ Count(target[t], 0, 0, 2, 0))
    BY <1>0, <1>10, Zenon DEF LoadOffset
  <2>2. stats'[d].contention = stats[d].contention
    BY <1>0, <1>8, <2>1, Zenon
  <2>3. /\ pc[t] = "load" /\ target' = target /\ offset' = offset
        /\ pc'[t] = "cas" => current'[t] = offset[target[t]]
        /\ \A u \in Threads \ {t} : pc'[u] = pc[u] /\ current'[u] = current[u]
    BY <1>0, <1>10, Zenon DEF LoadOffset, Return, Continue
  <2>4. \A u \in Threads : Resets(u, d) => Resets(u, d)'
    BY <2>3, Zenon DEF Resets, Resetting
  <2> QED
    BY <1>0, <2>2, <2>3, <2>4, ContentionKept
<1>11. ASSUME NEW t \in Threads, CompareExchange(t) PROVE BeingReset(d)' \/ PaidFor(d)'
  <2>1. CASE d = target[t]
    BY <1>0, <1>11, <2>1, SuccessPays, FailurePaid
  <2>2. CASE d # target[t]
    <3>1. target[t] \in Buffers /\ (UNCHANGED stats \/ Count(target[t], 0, 0, 0, 1))
      BY <1>0, <1>11, Zenon DEF CompareExchange
    <3>2. stats'[d] = stats[d]
      BY <1>0, <2>2, <3>1, CountType, ZenonT(30)
    <3>3. /\ pc[t] = "cas" /\ target' = target /\ current' = current /\ offset'[d] = offset[d]
          /\ \A u \in Threads \ {t} : pc'[u] = pc[u]
      BY <1>0, <1>11, <2>2, ZenonT(30) DEF CompareExchange, Continue
    <3>4. \A u \in Threads : Resets(u, d) => Resets(u, d)'
      BY <3>3, Zenon DEF Resets, Resetting
    <3> QED
      BY <1>0, <2>2, <3>2, <3>3, <3>4, ContentionKept
  <2> QED
    BY <2>1, <2>2, Zenon
<1>12. ASSUME NEW t \in Threads, SetRegion(t) PROVE BeingReset(d)' \/ PaidFor(d)'
  <2>1. /\ pc[t] = "region" /\ target' = target /\ offset' = offset /\ target[t] \in Buffers
        /\ Return(t) /\ current' = [current EXCEPT ![t] = 0]
        /\ Count(target[t], 2, 1, 0, 0) \/ Count(target[t], 1, 0, 1, 0)
    BY <1>0, <1>12, Zenon DEF SetRegion
  <2>2. stats'[d].contention = stats[d].contention
    BY <1>0, <1>8, <2>1, ZenonT(30)
  <2>3. \A u \in Threads \ {t} : current'[u] = current[u]
    BY <1>0, <2>1, Zenon
  <2>4. pc[t] \in Allocating /\ pc' = [pc EXCEPT ![t] = "idle"]
    BY <2>1, Zenon DEF Return, Allocating
  <2> QED
    BY <1>7, <2>1, <2>2, <2>3, <2>4, ZenonT(30)
<1>13. ASSUME NEW t \in Threads, ResetGeneration(t) PROVE BeingReset(d)' \/ PaidFor(d)'
  <2>1. /\ pc[t] = "reset_generation" /\ pc'[t] = "reset_rest" /\ target' = target
        /\ \A u \in Threads \ {t} : pc'[u] = pc[u]
        /\ current' = current /\ stats' = stats /\ offset' = offset
    BY <1>0, <1>13, Zenon DEF ResetGeneration, Continue
  <2>2. \A u \in Threads : Resets(u, d) => Resets(u, d)'
    BY <2>1, Zenon DEF Resets, Resetting
  <2> QED
    BY <1>0, <2>1, <2>2, ContentionKept, ZenonT(30)
<1>14. ASSUME NEW t \in Threads, ResetRest(t) PROVE BeingReset(d)' \/ PaidFor(d)'
  <2>1. /\ pc[t] = "reset_rest" /\ pc'[t] = "idle" /\ target' = target
        /\ \A u \in Threads \ {t} : pc'[u] = pc[u]
        /\ current' = current /\ offset' = offset /\ target[t] \in Buffers
        /\ \A c \in Buffers \ {target[t]} : stats'[c] = stats[c]
        /\ stats'[target[t]].contention = 0
    BY <1>0, <1>14, Zenon DEF ResetRest, Return, ZeroStats
  <2>2. CASE d # target[t]
    <3>1. \A u \in Threads : Resets(u, d) => Resets(u, d)'
      BY <2>1, <2>2, Zenon DEF Resets, Resetting
    <3> QED
      BY <1>0, <2>1, <2>2, <3>1, ContentionKept, ZenonT(30)
  <2>3. CASE d = target[t]
    <3>1. \A u \in Threads : pc[u] # "idle" /\ target[u] = d => u = t
      BY <2>1, <2>3, Zenon DEF IInv, ResetsOK, Resets, Resetting
    <3>2. Bound(d)' = {}
      BY <2>1, <3>1, Zenon DEF Bound
    <3>3. Cardinality(Bound(d)') = 0
      BY <3>2, FS_EmptySet, Zenon
    <3>4. Cardinality(Threads) - 1 \in Nat
      <4>1. IsFiniteSet(Threads \ {t}) /\ Cardinality(Threads \ {t}) = Cardinality(Threads) - 1
        BY BoundFinite, FS_RemoveElement, Zenon
      <4> QED
        BY <4>1, FS_CardinalityType, Zenon
    <3>5. offset[d] \div MinBlock \in Nat
      BY <1>0, MinBlockType
    <3>6. (Cardinality(Threads) - 1) * (offset[d] \div MinBlock) >= 0
      BY <3>4, <3>5
    <3>7. 0 + 0 <= (Cardinality(Threads) - 1) * (offset[d] \div MinBlock)
      BY <3>4, <3>5, <3>6
    <3> QED
      BY <2>1, <2>3, <3>3, <3>7, ZenonT(30) DEF PaidFor, MinBlock
  <2> QED
    BY <2>2, <2>3, Zenon
<1>15. CASE UNCHANGED vars
  BY <1>1, <1>15, Zenon DEF vars, calls
<1> QED
  BY <1>2, <1>3, <1>4, <1>5, <1>6, <1>9, <1>10, <1>11, <1>12, <1>13, <1>14, <1>15, ZenonT(30)
     DEF Next, Step

\* Lock-freedom, in the counters: every contention event is paid for by a
\* refill that another thread completed, |Threads| - 1 events a refill at most.
THEOREM Contention ==
  ASSUME NoReuse PROVE Spec => []ContentionIsPaidFor
<1>1. Init => ContentionOK
  <2> SUFFICES ASSUME Init, NEW b \in Allocators PROVE PaidFor(b)
    BY Zenon DEF ContentionOK
  <2>1. b \in Buffers
    BY LockFreeBufferAssumption, Zenon
  <2>2. stats[b].contention = 0 /\ offset[b] = 0 /\ Bound(b) = {}
    BY <2>1, Zenon DEF Init, ZeroStats, Bound
  <2>3. MinBlock \in Nat \ {0} /\ Cardinality(Threads) \in Nat
    BY MinBlockType, BoundFinite, Zenon
  <2>4. 0 \div MinBlock = 0
    BY <2>3
  <2>5. 0 + 0 <= (Cardinality(Threads) - 1) * (0 \div MinBlock)
    BY <2>3, <2>4
  <2> QED
    BY <2>2, <2>5, FS_EmptySet, Zenon DEF PaidFor
<1>2. IInv /\ ContentionOK /\ [Next]_vars => ContentionOK'
  BY ContentionStep, Zenon
<1>3. IInv /\ ContentionOK => ContentionIsPaidFor
  <2> SUFFICES ASSUME IInv, ContentionOK, NEW b \in Allocators, ~BeingReset(b)
               PROVE  stats[b].contention <= (Cardinality(Threads) - 1)
                        * (offset[b] \div AlignUp(SlabMinBlock, Alignment))
    BY Zenon DEF ContentionIsPaidFor
  <2> DEFINE x == (Cardinality(Threads) - 1) * (offset[b] \div MinBlock)
  <2>1. b \in Buffers
    BY LockFreeBufferAssumption, Zenon
  <2>2. stats[b].contention \in Nat /\ offset[b] \in Nat
    BY <2>1, Zenon DEF IInv, TypeOK, StatsRec
  <2>3. stats[b].contention + Cardinality(Bound(b)) <= x
    BY Zenon DEF ContentionOK, PaidFor
  <2>4. Cardinality(Bound(b)) \in Nat /\ Cardinality(Threads) \in Nat
    BY BoundFinite, Zenon
  <2>5. offset[b] \div MinBlock \in Int
    BY <2>2, MinBlockType
  <2>6. x \in Int
    BY <2>4, <2>5
  <2>7. stats[b].contention <= x
    <3> HIDE DEF x
    <3> QED
      BY <2>2, <2>3, <2>4, <2>6
  <2> QED
    BY <2>7, Zenon DEF MinBlock
<1>4. Spec => []IInv
  BY BufferInvariance, Zenon
<1> QED
  BY <1>1, <1>2, <1>3, <1>4, PTL DEF Spec

=============================================================================

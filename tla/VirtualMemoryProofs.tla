------------------------ MODULE VirtualMemoryProofs ------------------------
(***************************************************************************)
(* Proofs about VirtualMemory, for every page size, reservation limit,     *)
(* request and failure of the operating system.                            *)
(***************************************************************************)
EXTENDS VirtualMemory, TLAPS

-----------------------------------------------------------------------------
(* Rounding to pages *)

IsPages(n) == \E k \in Nat : n = k * PageSize

\* What \div gives, without its definition.
LEMMA DivBounds ==
  ASSUME NEW m \in Nat, NEW p \in Nat \ {0}
  PROVE  /\ m \div p \in Nat
         /\ (m \div p) * p \in Nat
         /\ (m \div p) * p <= m /\ m < (m \div p) * p + p
OBVIOUS

\* A number below the modulus is its own remainder.
LEMMA ModSmall ==
  ASSUME NEW m \in Nat, NEW u \in Nat, m < u
  PROVE  m % u = m
OBVIOUS

\* Only one multiple of p lies in a window of length p.
LEMMA MultipleUnique ==
  ASSUME NEW p \in Nat \ {0}, NEW j \in Nat, NEW k \in Nat,
         j * p <= k * p + p - 1, k * p + p - 1 < j * p + p
  PROVE  j = k
OBVIOUS

\* Max and Min of two numbers.
LEMMA MaxOfTwo ==
  ASSUME NEW a \in Int, NEW b \in Int
  PROVE  Max({a, b}) = IF a >= b THEN a ELSE b
<1> DEFINE P(x) == x \in {a, b} /\ \A y \in {a, b} : x >= y
<1>1. \E x : P(x)
  <2>1. CASE a >= b
    BY <2>1
  <2>2. CASE ~(a >= b)
    BY <2>2
  <2> QED BY <2>1, <2>2
<1>2. P(Max({a, b}))
  BY <1>1, Zenon DEF Max
<1> QED BY <1>2

\* Min of two numbers is the smaller one.
LEMMA MinOfTwo ==
  ASSUME NEW a \in Int, NEW b \in Int
  PROVE  Min({a, b}) = IF a <= b THEN a ELSE b
<1> DEFINE P(x) == x \in {a, b} /\ \A y \in {a, b} : x <= y
<1>1. \E x : P(x)
  <2>1. CASE a <= b
    BY <2>1
  <2>2. CASE ~(a <= b)
    BY <2>2
  <2> QED BY <2>1, <2>2
<1>2. P(Min({a, b}))
  BY <1>1, Zenon DEF Min
<1> QED BY <1>2

\* PageUp always gives a whole number of pages, also when its sum wraps.
LEMMA PageUpIsPages ==
  ASSUME NEW n \in Nat
  PROVE  PageUp(n) \in Nat /\ IsPages(PageUp(n))
<1> DEFINE m == (n + PageSize - 1) % Usize
<1>1. m \in Nat
  BY VirtualMemoryAssumption
<1> HIDE DEF m
<1>2. m \div PageSize \in Nat /\ (m \div PageSize) * PageSize \in Nat
  BY <1>1, DivBounds, VirtualMemoryAssumption, Zenon
<1>3. PageUp(n) = (m \div PageSize) * PageSize
  BY Zenon DEF PageUp, m
<1> QED BY <1>2, <1>3 DEF IsPages

\* Below the overflow it is the least whole number of pages that holds n.
LEMMA PageUpBounds ==
  ASSUME NEW n \in Nat, n + PageSize <= Usize
  PROVE  n <= PageUp(n) /\ PageUp(n) < n + PageSize
<1> DEFINE m == n + PageSize - 1
<1>1. m \in Nat /\ m < Usize
  BY VirtualMemoryAssumption
<1>2. PageUp(n) = (m \div PageSize) * PageSize
  BY <1>1, ModSmall, VirtualMemoryAssumption, Zenon DEF PageUp
<1>3. (m \div PageSize) * PageSize <= m /\ m < (m \div PageSize) * PageSize + PageSize
       /\ (m \div PageSize) * PageSize \in Nat
  BY <1>1, DivBounds, VirtualMemoryAssumption, Zenon
<1> QED BY <1>2, <1>3, VirtualMemoryAssumption

\* A whole number of pages is not rounded further.
LEMMA PageUpFixed ==
  ASSUME NEW n \in Nat, IsPages(n), n + PageSize <= Usize
  PROVE  PageUp(n) = n
<1>1. PICK k \in Nat : n = k * PageSize
  BY Zenon DEF IsPages
<1>2. PICK j \in Nat : PageUp(n) = j * PageSize
  BY PageUpIsPages, Zenon DEF IsPages
<1>3. n <= PageUp(n) /\ PageUp(n) < n + PageSize /\ PageUp(n) \in Nat
  BY PageUpBounds, PageUpIsPages, Zenon
<1>4. j * PageSize <= k * PageSize + PageSize - 1
  BY <1>1, <1>2, <1>3, VirtualMemoryAssumption
<1>5. k * PageSize + PageSize - 1 < j * PageSize + PageSize
  BY <1>1, <1>2, <1>3, VirtualMemoryAssumption
<1>6. j = k
  BY <1>4, <1>5, MultipleUnique, VirtualMemoryAssumption, Zenon
<1> QED BY <1>1, <1>2, <1>6

\* Two whole numbers of pages add up to one.
LEMMA PagesAdd ==
  ASSUME NEW m \in Nat, NEW n \in Nat, IsPages(m), IsPages(n)
  PROVE  IsPages(m + n)
<1>1. PICK j \in Nat : m = j * PageSize
  BY Zenon DEF IsPages
<1>2. PICK k \in Nat : n = k * PageSize
  BY Zenon DEF IsPages
<1>3. m + n = (j + k) * PageSize
  BY <1>1, <1>2, VirtualMemoryAssumption
<1>4. j + k \in Nat
  OBVIOUS
<1> QED BY <1>3, <1>4 DEF IsPages

\* A reservation leaves room for rounding at the top of the address space.
LEMMA ReservedSizeBound ==
  ASSUME NEW size \in Nat
  PROVE  ReservedSize(size) \in Nat /\ ReservedSize(size) + PageSize <= Usize
<1> DEFINE n == Min({Max({size, PageSize}), MaxReserve})
<1>1. n \in Nat /\ n <= MaxReserve
  BY MaxOfTwo, MinOfTwo, VirtualMemoryAssumption
<1> HIDE DEF n
<1>2. n + PageSize <= Usize
  BY <1>1, VirtualMemoryAssumption
<1>3. PageUp(n) \in Nat /\ PageUp(n) < n + PageSize
  BY <1>1, <1>2, PageUpIsPages, PageUpBounds, Zenon
<1>4. PageUp(n) + PageSize <= Usize
  BY <1>1, <1>3, VirtualMemoryAssumption
<1> QED BY <1>3, <1>4 DEF ReservedSize, n

-----------------------------------------------------------------------------
(* The invariant *)

Block == [chunk : {1}, lo : Nat, hi : Nat, id : {1}]

\* A chunk has committed everything below committed_size, in whole pages, and
\* has used no more than that.
ChunkInv ==
  /\ IsPages(committed_size)
  /\ Bytes(0, committed_size) \subseteq accessible
  /\ used <= committed_size
  /\ \A b \in live : b \in Block /\ b.lo < b.hi /\ b.hi <= used

VMInv ==
  /\ VMTypeOK
  /\ reserved_size + PageSize <= Usize
  /\ AccessibleIsAccountedFor
  /\ owner = "chunk" => ChunkInv
  /\ owner # "chunk" => live = {} /\ capacity = 0 /\ used = 0

\* What each change of a region keeps, whoever owns it.
RegionInv ==
  /\ reserved_size \in Nat /\ committed_size \in 0..reserved_size
  /\ accessible \subseteq Bytes(0, reserved_size)
  /\ stray \subseteq Bytes(0, reserved_size)
  /\ reserved_size + PageSize <= Usize
  /\ AccessibleIsAccountedFor

\* A commit that succeeds records at least the pages it made accessible.
LEMMA CommitOkKeepsRegion ==
  ASSUME NEW offset \in Nat, NEW size \in Nat, RegionInv, CommitOk(offset, size)
  PROVE  RegionInv'
<1> DEFINE lo == PageUp(offset)
           hi == lo + PageUp(size)
<1>1. lo \in Nat /\ hi \in Nat /\ lo <= hi
  BY PageUpIsPages
<1>2. /\ hi <= reserved_size
      /\ accessible' = accessible \cup Bytes(lo, hi)
      /\ stray' = stray \ Bytes(lo, hi)
      /\ committed_size' = Max({committed_size, hi})
      /\ reserved_size' = reserved_size
  BY Zenon DEF CommitOk
<1> HIDE DEF lo, hi
<1>3. committed_size' = IF committed_size >= hi THEN committed_size ELSE hi
  BY <1>1, <1>2, MaxOfTwo DEF RegionInv
<1> QED BY <1>1, <1>2, <1>3 DEF RegionInv, Bytes, AccessibleIsAccountedFor

\* A commit that fails takes no page away and records none; the pages a partial
\* mprotect opened are accounted for as stray.
LEMMA CommitErrKeepsRegion ==
  ASSUME NEW offset \in Nat, NEW size \in Nat, RegionInv, CommitErr(offset, size)
  PROVE  RegionInv' /\ accessible \subseteq accessible' /\ committed_size' = committed_size
<1> DEFINE lo == PageUp(offset)
           hi == lo + PageUp(size)
<1>1. lo \in Nat /\ hi \in Nat /\ lo <= hi
  BY PageUpIsPages
<1>2. CASE UNCHANGED region
  BY <1>2, Zenon DEF RegionInv, region, AccessibleIsAccountedFor
<1>3. ASSUME hi <= reserved_size, NEW m \in Cuts(lo, hi),
             accessible' = accessible \cup Bytes(lo, m),
             stray' = stray \cup Bytes(lo, m),
             UNCHANGED <<reserved_size, committed_size>>
      PROVE  RegionInv' /\ accessible \subseteq accessible' /\ committed_size' = committed_size
  <2> HIDE DEF lo, hi
  <2> QED BY <1>1, <1>3 DEF RegionInv, Bytes, AccessibleIsAccountedFor, Cuts
<1> QED BY <1>2, <1>3 DEF CommitErr

\* A decommit that succeeds lowers the record no further than the pages it closed.
LEMMA DecommitOkKeepsRegion ==
  ASSUME NEW offset \in Nat, NEW size \in Nat, RegionInv, DecommitOk(offset, size)
  PROVE  RegionInv'
<1> DEFINE lo == PageUp(offset)
           hi == lo + PageUp(size)
<1>1. lo \in Nat /\ hi \in Nat /\ lo <= hi
  BY PageUpIsPages
<1>2. /\ hi <= committed_size
      /\ accessible' = accessible \ Bytes(lo, hi)
      /\ stray' = stray \ Bytes(lo, hi)
      /\ committed_size' = IF hi = committed_size THEN lo ELSE committed_size
      /\ reserved_size' = reserved_size
  BY Zenon DEF DecommitOk
<1> HIDE DEF lo, hi
<1> QED BY <1>1, <1>2 DEF RegionInv, Bytes, AccessibleIsAccountedFor

\* A decommit that fails, having closed some of the pages or none, adds no page.
LEMMA DecommitErrKeepsRegion ==
  ASSUME NEW offset \in Nat, NEW size \in Nat, RegionInv, DecommitErr(offset, size)
  PROVE  RegionInv'
<1>1. CASE UNCHANGED region
  BY <1>1, Zenon DEF RegionInv, region, AccessibleIsAccountedFor
<1>2. ASSUME NEW m, accessible' = accessible \ Bytes(PageUp(offset), m),
             UNCHANGED <<reserved_size, committed_size, stray>>
      PROVE  RegionInv'
  BY <1>2, Zenon DEF RegionInv, AccessibleIsAccountedFor, Bytes
<1> QED BY <1>1, <1>2 DEF DecommitErr

\* VirtualMemoryRegion::reset forgets the record whether or not the decommit it
\* ignores succeeded; the pages it could not close become stray.
LEMMA ResetKeepsRegion ==
  ASSUME RegionInv, RegionReset
  PROVE  RegionInv' /\ committed_size' = 0
<1>1. PICK m \in Cuts(0, committed_size) :
        /\ accessible' = accessible \ Bytes(0, m)
        /\ stray' = (stray \cup Bytes(m, committed_size)) \ Bytes(0, m)
  BY Zenon DEF RegionReset
<1>2. m \in Nat /\ m <= committed_size
  BY DEF Cuts, RegionInv
<1> QED BY <1>1, <1>2 DEF RegionInv, RegionReset, AccessibleIsAccountedFor, Bytes

\* The invariant holds before any region exists.
LEMMA VMInitInv == VMInit => VMInv
BY VirtualMemoryAssumption DEF VMInit, VMInv, VMTypeOK, Bytes, AccessibleIsAccountedFor

\* Where an allocation of l starts in a chunk.
LEMMA StartBounds ==
  ASSUME NEW l \in Requests, used \in Nat
  PROVE  Start(l) \in Nat /\ used <= Start(l) /\ Start(l) < used + l.align
<1>1. l.align \in Nat \ {0} /\ used + l.align - 1 \in Nat
  BY VirtualMemoryAssumption
<1> DEFINE q == ((used + l.align - 1) \div l.align) * l.align
<1>2. Start(l) = q
  BY Zenon DEF Start, AlignUp
<1>3. q \in Nat /\ q <= used + l.align - 1 /\ used + l.align - 1 < q + l.align
  BY <1>1, DivBounds, Zenon
<1> HIDE DEF q
<1> QED BY <1>1, <1>2, <1>3

\* Where committing ahead of an allocation of l leaves a chunk.
LEMMA AllocCommitsEnough ==
  ASSUME NEW l \in Requests, VMInv, MustCommit(l),
         CommitOk(committed_size, End(l) - committed_size)
  PROVE  /\ RegionInv'
         /\ committed_size' \in Nat /\ IsPages(committed_size')
         /\ End(l) <= committed_size'
         /\ Bytes(0, committed_size') \subseteq accessible'
<1>0. l.size \in Nat /\ l.align \in Nat \ {0} /\ l.size + l.align + PageSize <= Usize
  BY VirtualMemoryAssumption, Zenon
<1>1. /\ committed_size \in Nat /\ committed_size + PageSize <= Usize
      /\ IsPages(committed_size) /\ used \in Nat /\ used <= committed_size
      /\ Bytes(0, committed_size) \subseteq accessible
      /\ RegionInv
  BY VirtualMemoryAssumption DEF VMInv, MustCommit, ChunkInv, VMTypeOK, RegionInv
<1>2. Start(l) \in Nat /\ used <= Start(l) /\ Start(l) < used + l.align
  BY <1>1, StartBounds, Zenon
<1> DEFINE size == End(l) - committed_size
<1>3. End(l) \in Nat /\ size \in Nat /\ size + PageSize <= Usize
  BY <1>0, <1>1, <1>2, VirtualMemoryAssumption DEF End, MustCommit
<1>4. End(l) = committed_size + size
  BY <1>1, <1>3
<1> HIDE DEF size
<1>5. PageUp(committed_size) = committed_size
  BY <1>1, PageUpFixed, Zenon
<1>6. PageUp(size) \in Nat /\ IsPages(PageUp(size)) /\ size <= PageUp(size)
  BY <1>3, PageUpIsPages, PageUpBounds, Zenon
<1> DEFINE hi == committed_size + PageUp(size)
<1>7. CommitOk(committed_size, size)
  BY Zenon DEF size
<1>8. /\ accessible' = accessible \cup Bytes(committed_size, hi)
      /\ committed_size' = Max({committed_size, hi})
  BY <1>5, <1>7, Zenon DEF CommitOk
<1>9. committed_size' = hi
  BY <1>1, <1>6, <1>8, MaxOfTwo
<1>10. hi \in Nat /\ IsPages(hi) /\ End(l) <= hi
  BY <1>1, <1>3, <1>4, <1>6, PagesAdd
<1>11. RegionInv'
  BY <1>1, <1>3, <1>7, CommitOkKeepsRegion, Zenon
<1> HIDE DEF hi
<1>12. Bytes(0, committed_size') \subseteq accessible'
  BY <1>1, <1>8, <1>9, <1>10 DEF Bytes
<1> QED BY <1>9, <1>10, <1>11, <1>12

\* Granting a block that ends below what is committed keeps the chunk's part.
LEMMA ExchangeKeepsChunk ==
  ASSUME NEW l \in Requests, VMInv, owner = "chunk",
         End(l) <= capacity, End(l) <= committed_size', committed_size <= committed_size',
         committed_size' \in Nat, IsPages(committed_size'),
         Bytes(0, committed_size') \subseteq accessible',
         Exchange(l), capacity' = capacity
  PROVE  ChunkInv' /\ used' \in 0..capacity' /\ result' \in {"ok", "none"}
<1>0. l.size \in Nat /\ l.align \in Nat \ {0}
  BY VirtualMemoryAssumption, Zenon
<1>1. /\ used \in Nat /\ used <= committed_size /\ committed_size \in Nat
      /\ capacity \in Nat /\ used <= capacity
      /\ \A b \in live : b \in Block /\ b.lo < b.hi /\ b.hi <= used
  BY DEF VMInv, VMTypeOK, ChunkInv
<1>2. Start(l) \in Nat /\ used <= Start(l)
  BY <1>1, StartBounds, Zenon
<1>3. End(l) \in Nat /\ End(l) = Start(l) + l.size
  BY <1>0, <1>2 DEF End
<1>4. CASE l.size = 0 /\ used' = End(l) /\ live' = live /\ result' = "ok"
  <2>1. \A b \in live' : b \in Block /\ b.lo < b.hi /\ b.hi <= used'
    BY <1>1, <1>2, <1>3, <1>0, <1>4 DEF Block
  <2> QED BY <2>1, <1>3, <1>4 DEF ChunkInv
<1>5. CASE /\ l.size # 0 /\ used' = End(l) /\ result' = "ok"
           /\ live' = live \cup {[chunk |-> 1, lo |-> Start(l), hi |-> End(l), id |-> 1]}
  <2> DEFINE new == [chunk |-> 1, lo |-> Start(l), hi |-> End(l), id |-> 1]
  <2>1. new \in Block /\ new.lo < new.hi /\ new.hi <= End(l)
    BY <1>0, <1>2, <1>3, <1>5 DEF Block
  <2>2. \A b \in live' : b \in Block /\ b.lo < b.hi /\ b.hi <= used'
    BY <2>1, <1>1, <1>2, <1>3, <1>0, <1>5 DEF Block
  <2> QED BY <2>2, <1>3, <1>5 DEF ChunkInv
<1>6. CASE result' = "none" /\ UNCHANGED <<used, live>>
  BY <1>1, <1>6 DEF ChunkInv
<1> QED BY <1>4, <1>5, <1>6 DEF Exchange

-----------------------------------------------------------------------------
(* Every step keeps the invariant *)

\* The whole invariant from its parts, for a region nobody allocates from.
LEMMA OutsideChunk ==
  ASSUME VMInv, RegionInv', owner' \in {"none", "region", "arena"},
         live' = {} /\ capacity' = 0 /\ used' = 0,
         result' \in {"ok", "err", "none", "panic"}
  PROVE  VMInv'
BY DEF VMInv, VMTypeOK, RegionInv

\* The whole invariant from its parts, for a region that backs a chunk.
LEMMA InChunk ==
  ASSUME RegionInv', owner' = "chunk", ChunkInv',
         capacity' \in Nat /\ used' \in 0..capacity',
         result' \in {"ok", "err", "none", "panic"}
  PROVE  VMInv'
BY Zenon DEF VMInv, VMTypeOK, RegionInv

\* The region's part of the invariant.
LEMMA HasRegionInv == VMInv => RegionInv
BY Zenon DEF VMInv, VMTypeOK, RegionInv

\* A region that was just reserved, with its first c bytes committed.
LEMMA FreshRegion ==
  ASSUME NEW size \in Nat, NEW c \in Nat, reserved_size' = ReservedSize(size),
         committed_size' = c, c <= reserved_size',
         accessible' = Bytes(0, c), stray' = {}
  PROVE  RegionInv'
<1>1. reserved_size' \in Nat /\ reserved_size' + PageSize <= Usize
  BY ReservedSizeBound, Zenon
<1> QED BY <1>1 DEF RegionInv, Bytes, AccessibleIsAccountedFor

\* Every call, and every way it can fail, keeps the invariant.
LEMMA VMNextInv == VMInv /\ [VMNext]_vmVars => VMInv'
<1> SUFFICES ASSUME VMInv, [VMNext]_vmVars PROVE VMInv'
  BY Zenon
<1> USE HasRegionInv
<1>1. ASSUME NEW by \in {"region", "arena"}, NEW size \in Nat,
             owner = "none", Reserve(by, size)
      PROVE  VMInv'
  <2>1. RegionInv'
    <3>1. accessible' = Bytes(0, 0)
      BY <1>1 DEF Reserve, Bytes
    <3>2. ReservedSize(size) \in Nat
      BY <1>1, ReservedSizeBound, Zenon
    <3> QED BY <1>1, <3>1, <3>2, FreshRegion DEF Reserve
  <2>2. live' = {} /\ capacity' = 0 /\ used' = 0
    BY <1>1, Zenon DEF Reserve, VMInv, chunk
  <2> QED BY <1>1, <2>1, <2>2, OutsideChunk DEF Reserve
<1>2. ASSUME NEW size \in Sizes, New(size) PROVE VMInv'
  <2>1. size \in Nat
    BY VirtualMemoryAssumption
  <2> QED BY <2>1, <1>1, <1>2 DEF New
<1>3. ASSUME NEW size \in Sizes, NewErr(size) PROVE VMInv'
  BY <1>3, Zenon DEF NewErr, VMInv, VMTypeOK, AccessibleIsAccountedFor, region, chunk
<1>4. ASSUME NEW size \in Sizes, WithVirtualMemory(size) PROVE VMInv'
  <2>1. size \in Nat /\ DefaultReserve \in Nat
    BY VirtualMemoryAssumption
  <2> QED BY <2>1, <1>1, <1>4 DEF WithVirtualMemory
<1>5. ASSUME NEW size \in Sizes, NewVirtualChunk(size) PROVE VMInv'
  <2>1. size \in Nat /\ size # 0
    BY <1>5, VirtualMemoryAssumption DEF NewVirtualChunk
  <2>2. Min({size, DefaultCommit}) \in Nat
    BY <2>1, MinOfTwo, VirtualMemoryAssumption
  <2>3. committed_size' \in Nat /\ IsPages(committed_size')
    BY <1>5, <2>2, PageUpIsPages, Zenon DEF NewVirtualChunk
  <2>4. RegionInv'
    BY <1>5, <2>1, <2>3, FreshRegion, Zenon DEF NewVirtualChunk
  <2>5. ChunkInv'
    BY <1>5, <2>3 DEF NewVirtualChunk, ChunkInv
  <2> QED BY <1>5, <2>1, <2>4, <2>5, InChunk DEF NewVirtualChunk
<1>6. ASSUME NEW size \in Sizes, NEW offset \in Offsets, Commit(offset, size) PROVE VMInv'
  <2>1. size \in Nat /\ offset \in Nat
    BY VirtualMemoryAssumption
  <2>2. UNCHANGED region => RegionInv'
    BY Zenon DEF RegionInv, region, AccessibleIsAccountedFor
  <2>3. RegionInv'
    BY <1>6, <2>1, <2>2, CommitOkKeepsRegion, CommitErrKeepsRegion, Zenon DEF Commit
  <2> QED BY <1>6, <2>3, OutsideChunk DEF Commit, VMInv, chunk
<1>7. ASSUME NEW size \in Sizes, NEW offset \in Offsets, Decommit(offset, size) PROVE VMInv'
  <2>1. size \in Nat /\ offset \in Nat
    BY VirtualMemoryAssumption
  <2>2. UNCHANGED region => RegionInv'
    BY Zenon DEF RegionInv, region, AccessibleIsAccountedFor
  <2>3. RegionInv'
    BY <1>7, <2>1, <2>2, DecommitOkKeepsRegion, DecommitErrKeepsRegion, Zenon DEF Decommit
  <2> QED BY <1>7, <2>3, OutsideChunk DEF Decommit, VMInv, chunk
<1>8. CASE Reset
  BY <1>8, ResetKeepsRegion, OutsideChunk, Zenon DEF Reset, VMInv, chunk
<1>9. CASE Drop
  <2>1. RegionInv'
    BY <1>9, VirtualMemoryAssumption DEF Drop, Gone, RegionInv, AccessibleIsAccountedFor
  <2> QED BY <1>9, <2>1, OutsideChunk DEF Drop, Gone
<1>10. ASSUME NEW l \in Requests, AllocNoRoom(l) PROVE VMInv'
  BY <1>10, Zenon DEF AllocNoRoom, VMInv, VMTypeOK, AccessibleIsAccountedFor, ChunkInv, region, chunk
<1>11. ASSUME NEW l \in Requests, AllocCommitted(l) PROVE VMInv'
  <2>1. RegionInv'
    BY <1>11, Zenon DEF AllocCommitted, RegionInv, region, AccessibleIsAccountedFor
  <2>2. ChunkInv' /\ used' \in 0..capacity' /\ result' \in {"ok", "none"}
    <3>1. /\ committed_size' = committed_size /\ committed_size \in Nat
          /\ accessible' = accessible /\ capacity' = capacity
      BY <1>11 DEF AllocCommitted, region, VMInv, VMTypeOK
    <3>2. IsPages(committed_size) /\ Bytes(0, committed_size) \subseteq accessible
      BY <1>11, Zenon DEF AllocCommitted, VMInv, ChunkInv
    <3> QED BY <1>11, <3>1, <3>2, ExchangeKeepsChunk DEF AllocCommitted
  <2> QED BY <1>11, <2>1, <2>2, InChunk DEF AllocCommitted, VMInv, VMTypeOK
<1>12. ASSUME NEW l \in Requests, AllocCommitting(l) PROVE VMInv'
  <2>1. /\ RegionInv' /\ committed_size' \in Nat /\ IsPages(committed_size')
        /\ End(l) <= committed_size' /\ Bytes(0, committed_size') \subseteq accessible'
    BY <1>12, AllocCommitsEnough, Zenon DEF AllocCommitting
  <2>2. owner = "chunk" /\ End(l) <= capacity /\ committed_size < End(l)
        /\ committed_size \in Nat /\ End(l) \in Int
    <3>1. used \in Nat /\ committed_size \in Nat
      BY DEF VMInv, VMTypeOK
    <3>2. l.size \in Nat /\ l.align \in Nat \ {0}
      BY VirtualMemoryAssumption, Zenon
    <3>3. End(l) \in Int
      BY <3>1, <3>2 DEF End, Start, AlignUp
    <3> QED BY <1>12, <3>1, <3>3 DEF AllocCommitting, MustCommit
  <2>3. committed_size <= committed_size'
    BY <2>1, <2>2
  <2>4. ChunkInv' /\ used' \in 0..capacity' /\ result' \in {"ok", "none"}
    BY <1>12, <2>1, <2>2, <2>3, ExchangeKeepsChunk, Zenon DEF AllocCommitting
  <2> QED BY <1>12, <2>1, <2>2, <2>4, InChunk DEF AllocCommitting, VMInv, VMTypeOK
<1>13. ASSUME NEW l \in Requests, AllocCommitFails(l) PROVE VMInv'
  <2>1. committed_size \in Nat /\ End(l) - committed_size \in Nat
    <3>1. used \in Nat /\ committed_size \in Nat
      BY DEF VMInv, VMTypeOK
    <3>2. l.size \in Nat /\ l.align \in Nat \ {0}
      BY VirtualMemoryAssumption, Zenon
    <3>3. End(l) \in Int
      BY <3>1, <3>2 DEF End, Start, AlignUp
    <3> QED BY <1>13, <3>1, <3>3 DEF AllocCommitFails, MustCommit
  <2>2. RegionInv' /\ accessible \subseteq accessible' /\ committed_size' = committed_size
    BY <1>13, <2>1, CommitErrKeepsRegion, Zenon DEF AllocCommitFails
  <2>3. ChunkInv'
    BY <1>13, <2>2, Zenon DEF AllocCommitFails, MustCommit, VMInv, ChunkInv, chunk
  <2> QED BY <1>13, <2>2, <2>3, InChunk
          DEF AllocCommitFails, MustCommit, VMInv, VMTypeOK, chunk
<1>14. CASE ResetChunk
  <2>1. RegionInv' /\ committed_size' = 0
    BY <1>14, ResetKeepsRegion, Zenon DEF ResetChunk
  <2>2. ChunkInv'
    <3>1. IsPages(0)
      BY VirtualMemoryAssumption DEF IsPages
    <3> QED BY <1>14, <2>1, <3>1 DEF ResetChunk, ChunkInv, Bytes
  <2> QED BY <1>14, <2>1, <2>2, InChunk DEF ResetChunk, VMInv, VMTypeOK
<1>15. CASE UNCHANGED vmVars
  BY <1>15, Zenon DEF vmVars, region, chunk, VMInv, VMTypeOK, AccessibleIsAccountedFor, ChunkInv
<1> QED BY <1>2, <1>3, <1>4, <1>5, <1>6, <1>7, <1>8, <1>9, <1>10, <1>11,
           <1>12, <1>13, <1>14, <1>15 DEF VMNext

\* The inductive invariant holds throughout.
THEOREM VMInvariance == VMSpec => []VMInv
<1> QED BY VMInitInv, VMNextInv, PTL DEF VMSpec

\* The type invariant, and with it that no commit passes the reservation.
THEOREM VMTypeCorrect == VMSpec => []VMTypeOK
<1>1. VMInv => VMTypeOK
  BY Zenon DEF VMInv
<1> QED BY VMInvariance, <1>1, PTL

\* VirtualChunk::allocate returns only committed memory, for every page size,
\* chunk and history of failing system calls.
THEOREM GrantedUsable == VMSpec => []GrantedMemoryUsable
<1>1. VMInv => GrantedMemoryUsable
  <2> SUFFICES ASSUME VMInv, NEW b \in live
               PROVE  Bytes(b.lo, b.hi) \subseteq accessible /\ b.hi <= capacity
    BY Zenon DEF GrantedMemoryUsable
  <2>1. ChunkInv /\ capacity \in Nat /\ used \in 0..capacity /\ committed_size \in Nat
    BY DEF VMInv, VMTypeOK
  <2>2. b.lo \in Nat /\ b.hi \in Nat /\ b.hi <= used
    BY <2>1, Zenon DEF ChunkInv, Block
  <2> QED BY <2>1, <2>2 DEF ChunkInv, Bytes
<1> QED BY VMInvariance, <1>1, PTL

\* committed_size accounts for everything that was committed and kept.
THEOREM Accounting == VMSpec => []AccessibleIsAccountedFor
<1>1. VMInv => AccessibleIsAccountedFor
  BY Zenon DEF VMInv
<1> QED BY VMInvariance, <1>1, PTL

\* Every step of a chunk grants one block beyond all live ones, releases
\* blocks, or leaves them alone.
THEOREM ChunkRefinement == VMSpec => ChunkImplementsRegionAllocator
<1>1. VMInit => ChunkRegions!Init
  BY Zenon DEF VMInit, ChunkRegions!Init
<1>2. VMInv /\ [VMNext]_vmVars => [ChunkRegions!Next]_live
  <2> SUFFICES ASSUME VMInv, [VMNext]_vmVars PROVE [ChunkRegions!Next]_live
    BY Zenon
  <2>1. ASSUME NEW l \in Requests, owner = "chunk", Exchange(l)
        PROVE  [ChunkRegions!Next]_live
    <3> DEFINE new == [chunk |-> 1, lo |-> Start(l), hi |-> End(l), id |-> 1]
    <3>1. CASE live' = live
      BY <3>1, Zenon
    <3>2. CASE l.size # 0 /\ live' = live \cup {new}
      <4>1. l.size \in Nat /\ l.align \in Nat \ {0}
        BY VirtualMemoryAssumption, Zenon
      <4>2. used \in Nat /\ \A b \in live : b \in Block /\ b.hi <= used
        BY <2>1 DEF VMInv, VMTypeOK, ChunkInv
      <4>3. Start(l) \in Nat /\ used <= Start(l)
        BY <4>2, StartBounds, Zenon
      <4>4. new.lo < new.hi
        BY <4>1, <4>3, <3>2 DEF End
      <4>5. \A c \in live : ChunkRegions!Disjoint(new, c)
        BY <4>2, <4>3 DEF ChunkRegions!Disjoint, Block
      <4>6. ChunkRegions!Grant
        <5> HIDE DEF new
        <5> QED BY <3>2, <4>4, <4>5 DEF ChunkRegions!Grant
      <4> QED BY <4>6 DEF ChunkRegions!Next
    <3> QED BY <2>1, <3>1, <3>2 DEF Exchange
  <2>2. live' = {} => [ChunkRegions!Next]_live
    BY Zenon DEF ChunkRegions!Next, ChunkRegions!Release
  <2>3. live' = live => [ChunkRegions!Next]_live
    BY Zenon
  <2>4. ASSUME NEW size \in Sizes PROVE New(size) \/ NewErr(size) \/ WithVirtualMemory(size)
                                           \/ NewVirtualChunk(size) => live' = live \/ live' = {}
    BY Zenon DEF New, NewErr, WithVirtualMemory, NewVirtualChunk, Reserve, chunk
  <2>5. ASSUME NEW size \in Sizes, NEW offset \in Offsets
        PROVE  Commit(offset, size) \/ Decommit(offset, size) => live' = live
    BY Zenon DEF Commit, Decommit, chunk
  <2>6. Reset \/ Drop \/ ResetChunk => live' = live \/ live' = {}
    BY Zenon DEF Reset, Drop, ResetChunk, Gone, chunk
  <2>7. ASSUME NEW l \in Requests
        PROVE  AllocNoRoom(l) \/ AllocCommitFails(l) => live' = live
    BY Zenon DEF AllocNoRoom, AllocCommitFails, chunk
  <2>8. ASSUME NEW l \in Requests, AllocCommitted(l) \/ AllocCommitting(l)
        PROVE  [ChunkRegions!Next]_live
    BY <2>1, <2>8, Zenon DEF AllocCommitted, AllocCommitting, MustCommit
  <2>9. UNCHANGED vmVars => live' = live
    BY Zenon DEF vmVars, chunk
  <2> QED BY <2>2, <2>3, <2>4, <2>5, <2>6, <2>7, <2>8, <2>9 DEF VMNext
<1> QED BY <1>1, <1>2, VMInvariance, PTL DEF VMSpec, ChunkImplementsRegionAllocator, ChunkRegions!Spec
=============================================================================

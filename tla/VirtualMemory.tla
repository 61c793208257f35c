--------------------------- MODULE VirtualMemory ---------------------------
(***************************************************************************)
(* VirtualMemoryRegion and the VirtualChunk built on it                    *)
(* (src/virtual_memory.rs).  A region reserves addresses and makes pages   *)
(* of them accessible on demand; a chunk bumps an offset through a region  *)
(* and commits what it is about to hand out.  One region is followed from  *)
(* its reservation to its drop, owned by a caller of the region's own      *)
(* methods, by a chunk, or by an Arena, which only keeps it.  None of the  *)
(* three can be shared between threads, so a call is one step.             *)
(*                                                                         *)
(* The operating system is the other actor: a reservation may fail, and a  *)
(* change of protection may fail after it has changed some of the pages.   *)
(***************************************************************************)
EXTENDS Sizing

CONSTANTS
  PageSize,       \* PAGE_SIZE
  MaxReserve,     \* MAX_RESERVE_SIZE
  DefaultCommit,  \* DEFAULT_COMMIT_SIZE
  DefaultReserve, \* what Arena::with_virtual_memory takes for 0
  Usize,          \* usize::MAX + 1
  Sizes,          \* sizes callers reserve, commit and decommit
  Offsets,        \* offsets callers commit and decommit at
  Requests        \* layouts asked of a chunk, [size, align]

ASSUME VirtualMemoryAssumption ==
  /\ PageSize \in Nat \ {0} /\ MaxReserve \in Nat /\ Usize \in Nat
  /\ PageSize <= MaxReserve /\ MaxReserve + 2 * PageSize <= Usize
  /\ DefaultCommit \in 1..(Usize - PageSize) /\ DefaultReserve \in Nat \ {0}
  /\ Sizes \subseteq 0..(Usize - 1) /\ Offsets \subseteq 0..(Usize - 1)
  /\ \A l \in Requests : /\ l.size \in Nat /\ l.align \in Nat \ {0}
                          /\ l.size + l.align + PageSize <= Usize

VARIABLES
  owner,            \* who has the region
  reserved_size, committed_size,
  accessible,       \* the bytes of the region that may be read and written
  stray,            \* bytes a failed call left accessible
  capacity, used,   \* of the chunk
  live,             \* the blocks the chunk has handed out, as RegionAllocator's
  result            \* what the last call returned

region == <<reserved_size, committed_size, accessible, stray>>
chunk == <<capacity, used, live>>
vmVars == <<owner, region, chunk, result>>

-----------------------------------------------------------------------------
(* VirtualMemoryRegion *)

\* (n + PAGE_SIZE - 1) & !(PAGE_SIZE - 1), the addition wrapping.
PageUp(n) == (((n + PageSize - 1) % Usize) \div PageSize) * PageSize

\* With overflow checks, as in a debug build, the same addition panics.
Overflows(n) == n + PageSize - 1 >= Usize

Bytes(lo, hi) == lo..(hi - 1)

\* The places between lo and hi at which a failing call may have stopped.
Cuts(lo, hi) == {m \in lo..hi : (m - lo) % PageSize = 0}

Gone ==
  /\ owner' = "none"
  /\ reserved_size' = 0 /\ committed_size' = 0 /\ accessible' = {} /\ stray' = {}
  /\ capacity' = 0 /\ used' = 0 /\ live' = {}

\* VirtualMemoryRegion::new for a nonzero size, when the system grants it.
ReservedSize(size) == PageUp(Min({Max({size, PageSize}), MaxReserve}))

\* commit past its checks: the pages between lo and hi become accessible.
CommitOk(offset, size) ==
  LET lo == PageUp(offset)
      hi == lo + PageUp(size)
  IN  /\ hi <= reserved_size
      /\ accessible' = accessible \cup Bytes(lo, hi)
      /\ stray' = stray \ Bytes(lo, hi)
      /\ committed_size' = Max({committed_size, hi})
      /\ UNCHANGED reserved_size

\* commit beyond the reservation, or refused by the system.
CommitErr(offset, size) ==
  LET lo == PageUp(offset)
      hi == lo + PageUp(size)
  IN  \/ hi > reserved_size /\ UNCHANGED region
      \/ /\ hi <= reserved_size
         /\ \E m \in Cuts(lo, hi) : /\ accessible' = accessible \cup Bytes(lo, m)
                                    /\ stray' = stray \cup Bytes(lo, m)
         /\ UNCHANGED <<reserved_size, committed_size>>

\* decommit past its checks.
DecommitShrinks(offset, size) ==
  LET lo == PageUp(offset)
      hi == lo + PageUp(size)
  IN  /\ offset < reserved_size /\ hi <= committed_size
      /\ accessible' = accessible \ Bytes(lo, hi)
      /\ stray' = stray \ Bytes(lo, hi)
      /\ committed_size' = lo
      /\ UNCHANGED reserved_size
DecommitOk(offset, size) ==
  LET lo == PageUp(offset)
      hi == lo + PageUp(size)
  IN  /\ offset < reserved_size /\ hi <= committed_size
      /\ accessible' = accessible \ Bytes(lo, hi)
      /\ stray' = stray \ Bytes(lo, hi)
      /\ committed_size' = IF hi = committed_size THEN lo ELSE committed_size
      /\ UNCHANGED reserved_size

DecommitErr(offset, size) ==
  LET lo == PageUp(offset)
      hi == lo + PageUp(size)
  IN  \/ (offset >= reserved_size \/ hi > committed_size) /\ UNCHANGED region
      \/ /\ offset < reserved_size /\ hi <= committed_size
         /\ \E m \in Cuts(lo, hi) : accessible' = accessible \ Bytes(lo, m)
         /\ UNCHANGED <<reserved_size, committed_size, stray>>

\* reset forgets what was committed even when the decommit fails.
RegionReset ==
  /\ \E m \in Cuts(0, committed_size) :
       /\ accessible' = accessible \ Bytes(0, m)
       /\ stray' = (stray \cup Bytes(m, committed_size)) \ Bytes(0, m)
  /\ committed_size' = 0
  /\ UNCHANGED reserved_size

-----------------------------------------------------------------------------
(* Calls on a region of the caller's own, and on one an Arena keeps *)

VMInit ==
  /\ owner = "none" /\ result = "ok"
  /\ reserved_size = 0 /\ committed_size = 0 /\ accessible = {} /\ stray = {}
  /\ capacity = 0 /\ used = 0 /\ live = {}

Reserve(by, size) ==
  /\ owner' = by /\ result' = "ok"
  /\ reserved_size' = ReservedSize(size)
  /\ committed_size' = 0 /\ accessible' = {} /\ stray' = {}
  /\ UNCHANGED chunk

New(size) == owner = "none" /\ size # 0 /\ Reserve("region", size)

\* A size of 0, or no addresses to be had.
NewErr(size) == owner = "none" /\ result' = "err" /\ UNCHANGED <<owner, region, chunk>>

\* Arena::with_virtual_memory and try_with_virtual_memory.  When the
\* reservation fails the first goes on without a region and the second fails.
WithVirtualMemory(size) ==
  /\ owner = "none"
  /\ Reserve("arena", IF size = 0 THEN DefaultReserve ELSE size)

Commit(offset, size) ==
  /\ owner = "region"
  /\ \/ size = 0 /\ result' = "ok" /\ UNCHANGED region
     \/ size # 0 /\ result' = "ok" /\ CommitOk(offset, size)
     \/ size # 0 /\ result' = "err" /\ CommitErr(offset, size)
     \/ /\ size # 0 /\ (Overflows(offset) \/ Overflows(size))
        /\ result' = "panic" /\ UNCHANGED region
  /\ UNCHANGED <<owner, chunk>>

Decommit(offset, size) ==
  /\ owner = "region"
  /\ \/ size = 0 /\ result' = "ok" /\ UNCHANGED region
     \/ size # 0 /\ result' = "ok" /\ DecommitOk(offset, size)
     \/ size # 0 /\ result' = "err" /\ DecommitErr(offset, size)
     \/ /\ size # 0 /\ offset < reserved_size /\ Overflows(size)
        /\ result' = "panic" /\ UNCHANGED region
  /\ UNCHANGED <<owner, chunk>>

Reset == owner = "region" /\ RegionReset /\ result' = "ok" /\ UNCHANGED <<owner, chunk>>

\* VirtualMemoryRegion::drop, and the same as a field of its owner.
Drop == owner # "none" /\ Gone /\ result' = "ok"

-----------------------------------------------------------------------------
(* VirtualChunk *)

\* A chunk is as large as was asked for, also where the region is not.
NewVirtualChunk(size) ==
  /\ owner = "none" /\ size # 0
  /\ owner' = "chunk" /\ result' = "ok"
  /\ reserved_size' = ReservedSize(size)
  /\ committed_size' = PageUp(Min({size, DefaultCommit}))
  /\ committed_size' <= reserved_size'
  /\ accessible' = Bytes(0, committed_size') /\ stray' = {}
  /\ capacity' = size /\ used' = 0 /\ live' = {}

Start(l) == AlignUp(used, l.align)
End(l) == Start(l) + l.size

\* The one compare_exchange_weak of allocate, which may fail for no reason.
ExchangeResultIgnored(l) ==
  /\ live' = IF l.size = 0 THEN live
             ELSE live \cup {[chunk |-> 1, lo |-> Start(l), hi |-> End(l), id |-> 1]}
  /\ result' = "ok"
  /\ used' \in {used, End(l)}
Exchange(l) ==
  \/ /\ used' = End(l)
     /\ live' = IF l.size = 0 THEN live
                ELSE live \cup {[chunk |-> 1, lo |-> Start(l), hi |-> End(l), id |-> 1]}
     /\ result' = "ok"
  \/ result' = "none" /\ UNCHANGED <<used, live>>

AllocNoRoom(l) ==
  /\ owner = "chunk" /\ End(l) > capacity
  /\ result' = "none" /\ UNCHANGED <<owner, region, chunk>>

AllocCommitted(l) ==
  /\ owner = "chunk" /\ End(l) <= capacity /\ End(l) <= committed_size
  /\ Exchange(l)
  /\ UNCHANGED <<owner, region, capacity>>

MustCommit(l) == owner = "chunk" /\ End(l) <= capacity /\ End(l) > committed_size

AllocCommitting(l) ==
  /\ MustCommit(l)
  /\ CommitOk(committed_size, End(l) - committed_size)
  /\ Exchange(l)
  /\ UNCHANGED <<owner, capacity>>

AllocIgnoresFailure(l) ==
  /\ MustCommit(l)
  /\ CommitErr(committed_size, End(l) - committed_size)
  /\ Exchange(l)
  /\ UNCHANGED <<owner, capacity>>
AllocCommitFails(l) ==
  /\ MustCommit(l)
  /\ CommitErr(committed_size, End(l) - committed_size)
  /\ result' = "none" /\ UNCHANGED <<owner, chunk>>

ResetChunk ==
  /\ owner = "chunk"
  /\ used' = 0 /\ live' = {}
  /\ RegionReset
  /\ result' = "ok"
  /\ UNCHANGED <<owner, capacity>>

-----------------------------------------------------------------------------

VMNext ==
  \/ \E size \in Sizes : \/ New(size) \/ NewErr(size)
                         \/ WithVirtualMemory(size) \/ NewVirtualChunk(size)
                         \/ \E offset \in Offsets : Commit(offset, size) \/ Decommit(offset, size)
  \/ Reset \/ Drop
  \/ \E l \in Requests : \/ AllocNoRoom(l) \/ AllocCommitted(l)
                         \/ AllocCommitting(l) \/ AllocCommitFails(l)
  \/ ResetChunk

VMSpec == VMInit /\ [][VMNext]_vmVars

-----------------------------------------------------------------------------
(* Properties *)

\* Type invariant.  The committed size is within the reservation, also after
\* a commit whose offset or size wrapped when it was rounded.
VMTypeOK ==
  /\ owner \in {"none", "region", "chunk", "arena"}
  /\ reserved_size \in Nat /\ committed_size \in 0..reserved_size
  /\ accessible \subseteq Bytes(0, reserved_size)
  /\ stray \subseteq Bytes(0, reserved_size)
  /\ capacity \in Nat /\ used \in 0..capacity
  /\ result \in {"ok", "err", "none", "panic"}

\* VirtualChunk::allocate hands out only memory that may be touched and is
\* reserved, although a chunk may be larger than its region, an initial commit
\* smaller than either, a commit or decommit may fail half done, and a
\* spurious failure of the compare_exchange leaves committed memory unused.
GrantedMemoryUsable ==
  \A b \in live : Bytes(b.lo, b.hi) \subseteq accessible /\ b.hi <= capacity

\* Every byte that is accessible is accounted for: it lies below
\* committed_size, or a failed system call left it behind.  So what
\* committed_bytes reports is never less than what was committed and kept, nor
\* more than was reserved, also when an offset or a size wrapped in rounding.
AccessibleIsAccountedFor ==
  /\ committed_size <= reserved_size
  /\ accessible \subseteq Bytes(0, committed_size) \cup stray

ChunkRegions == INSTANCE RegionAllocator

\* A virtual chunk is a region allocator: it grants blocks that overlap no
\* live one, and takes blocks back only in reset and drop.
ChunkImplementsRegionAllocator == ChunkRegions!Spec

=============================================================================

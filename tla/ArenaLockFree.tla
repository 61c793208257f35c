--------------------------- MODULE ArenaLockFree ---------------------------
(***************************************************************************)
(* The Arena of a build with the lockfree feature: module Arena with the   *)
(* LockFreeBuffer that allocate_raw tries first for small requests and     *)
(* that every rewind resets.  The arena stays on one thread here, so the   *)
(* buffer is its offset and that thread's slab; module LockFreeBuffer has  *)
(* the steps between threads.  In `log`, chunk 0 is the buffer.            *)
(***************************************************************************)
EXTENDS Arena

CONSTANTS
  BufferSize,      \* LOCKFREE_BUFFER_SIZE
  BufferAlign,     \* LOCKFREE_ALIGNMENT
  BufferMinBlock,  \* SLAB_MIN_BLOCK
  MaxBuffered      \* MAX_LOCKFREE_ALLOCATION, allocate_raw's 1024

ASSUME ArenaLockFreeAssumption ==
  /\ BufferAlign \in Nat \ {0} /\ BufferMinBlock \in Nat \ {0}
  /\ BufferSize \in Nat /\ MaxBuffered \in Nat

VARIABLES
  buffer_offset,   \* the buffer's offset
  slab,            \* what is left of the thread's slab, [offset, end]
  wiped            \* has a rewind reset the buffer under a live allocation?

buffer == <<buffer_offset, slab>>
lfVars == <<vars, buffer, wiped>>

NoSlab == [offset |-> 0, end |-> 0]

LFInit == Init /\ buffer_offset = 0 /\ slab = NoSlab /\ wiped = FALSE

\* A slab for l at the buffer's offset.
Refill(l) ==
  LET start == AlignUp(buffer_offset, BufferAlign)
      size  == IF l.size > BufferMinBlock THEN l.size ELSE BufferMinBlock
  IN  [offset |-> start, end |-> start + AlignUp(size, BufferAlign)]

HasRoom(s, l) == AlignUp(s.offset, l.align) + l.size <= s.end

\* allocate_raw when the buffer's try_alloc returns a block of slab s.
TakeFromSlab(s, l) ==
  LET lo == AlignUp(s.offset, l.align) IN
  /\ Alive /\ Len(log) < MaxLive
  /\ slab' = [s EXCEPT !.offset = lo + l.size]
  /\ log' = Append(log, [chunk |-> 0, lo |-> lo, hi |-> lo + l.size, align |-> l.align])
  /\ bytes_used' = bytes_used + l.size
  /\ allocation_count' = allocation_count + 1
  /\ outcome' = "ok"
  /\ UNCHANGED <<chunks, current_chunk, bytes_allocated, marks, wiped>>

Small(l) == l.size > 0 /\ l.size <= MaxBuffered

AllocSlabHit(l) ==
  /\ Small(l) /\ HasRoom(slab, l)
  /\ TakeFromSlab(slab, l)
  /\ UNCHANGED buffer_offset

RefillKeepsOffset(l) ==
  /\ Small(l) /\ ~HasRoom(slab, l) /\ Refill(l).end <= BufferSize
  /\ HasRoom(Refill(l), l)
  /\ TakeFromSlab(Refill(l), l)
  /\ UNCHANGED buffer_offset
AllocRefill(l) ==
  /\ Small(l) /\ ~HasRoom(slab, l) /\ Refill(l).end <= BufferSize
  /\ HasRoom(Refill(l), l)
  /\ TakeFromSlab(Refill(l), l)
  /\ buffer_offset' = Refill(l).end

\* The refill is not enough for the alignment: the slab is kept, and the
\* request goes to the chunks.
AllocAfterRefill(l) ==
  /\ Small(l) /\ ~HasRoom(slab, l) /\ Refill(l).end <= BufferSize
  /\ ~HasRoom(Refill(l), l)
  /\ slab' = Refill(l) /\ buffer_offset' = Refill(l).end
  /\ AllocateRaw(l)
  /\ UNCHANGED wiped

\* Zero-sized and large requests, and small ones once the buffer is full.
AllocFromChunks(l) ==
  /\ Small(l) => ~HasRoom(slab, l) /\ Refill(l).end > BufferSize
  /\ AllocateRaw(l)
  /\ UNCHANGED <<buffer, wiped>>

\* LockFreeBuffer::reset, at the end of rewind_to_checkpoint and of reset.
Buffered(b) == b.chunk = 0 /\ b.lo < b.hi

ResetBuffer ==
  /\ buffer_offset' = 0 /\ slab' = NoSlab
  /\ wiped' = \E i \in DOMAIN log' : Buffered(log'[i])

Rewinds ==
  \/ \E c \in held : RewindToCheckpoint(c)
  \/ PopAndRewind
  \/ \E g \in Guards : ResetScope(g) \/ DropScope(g)

\* reset_and_shrink_to_fit leaves the buffer as it is.
LeavesBuffer ==
  \/ TakeCheckpoint \/ PushCheckpoint \/ ClearCheckpoints \/ PopEmpty
  \/ \E g \in Guards : OpenScope(g) \/ ResetScopePanics(g) \/ DropScopePanics(g)
  \/ ResetAndShrinkToFit
  \/ Aborted

\* The thread uses another buffer: its one slab is invalidated or replaced.
OtherBufferUsed ==
  /\ Alive
  /\ slab # NoSlab /\ slab' = NoSlab
  /\ UNCHANGED <<vars, buffer_offset, wiped>>

LFNext ==
  \/ \E l \in Layouts : \/ AllocSlabHit(l) \/ AllocRefill(l)
                        \/ AllocAfterRefill(l) \/ AllocFromChunks(l)
  \/ (Rewinds \/ Reset) /\ ResetBuffer
  \/ OtherBufferUsed
  \/ LeavesBuffer /\ UNCHANGED <<buffer, wiped>>

LFSpec == LFInit /\ [][LFNext]_lfVars

-----------------------------------------------------------------------------
(* Properties *)

\* Buffer and chunks together: live allocations are disjoint, those in the
\* buffer end below its offset, and the slab is ahead of them all, as long as
\* no rewind has reset the buffer under an allocation made before its target.
DisjointUnlessWiped ==
  ~wiped => /\ LiveBlocksDisjoint
            /\ \A i \in DOMAIN log :
                 Buffered(log[i]) =>
                   /\ log[i].hi <= buffer_offset
                   /\ log[i].hi <= slab.offset \/ slab.end <= log[i].lo

\* docs/architecture.md:49: after a scope "all allocations made during the
\* scope are logically freed while preserving previous allocations".
PreviousAllocationsPreserved == LiveBlocksDisjoint

=============================================================================

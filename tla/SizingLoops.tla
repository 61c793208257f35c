---------------------------- MODULE SizingLoops ----------------------------
(***************************************************************************)
(* The size computations of the crate in the form the code runs them: the  *)
(* bit mask of align_up on W-bit words, and the doubling loop of           *)
(* next_chunk_capacity.  TLC compares both with the closed forms of Sizing *)
(* that the other modules use.                                             *)
(***************************************************************************)
EXTENDS Sizing, Bitwise

CONSTANTS
  W,        \* width of usize
  MaxSize   \* bound: largest request given to next_chunk_capacity

ASSUME SizingLoopsAssumption == W \in Nat \ {0} /\ MaxSize \in 0..(2^W - 1)

VARIABLES
  offset, align,    \* the arguments of align_up
  min_size,         \* the argument of next_chunk_capacity
  doubled,          \* its local variable capacity
  pc

sizingVars == <<offset, align, min_size, doubled, pc>>

\* isize::MAX: no offset into a chunk, and no Layout size, is larger.  A page
\* is rounded from any usize.
ISizeMax == 2^(W - 1) - 1

\* (value + align - 1) & !(align - 1), with the addition wrapping at 2^W.
MaskSkipsRounding(n, a) == n - (n & (a - 1))
Mask(n, a) ==
  LET sum == (n + a - 1) % 2^W
  IN  sum - (sum & (a - 1))

SizingInit ==
  /\ offset \in 0..(2^W - 1)
  /\ align \in {2^k : k \in 0..(W - 1)}
  /\ min_size \in 0..MaxSize
  /\ doubled = MinChunk
  /\ pc = "loop"

DoubleWhileLarger ==
  /\ pc = "loop"
  /\ doubled <= min_size /\ doubled <= MaxChunk
  /\ doubled' = doubled * 2
  /\ UNCHANGED <<offset, align, min_size, pc>>
Double ==
  /\ pc = "loop"
  /\ doubled < min_size /\ doubled < MaxChunk
  /\ doubled' = doubled * 2
  /\ UNCHANGED <<offset, align, min_size, pc>>

\* capacity.max(min_size).min(MAX_CHUNK_SIZE)
Finish ==
  /\ pc = "loop"
  /\ ~(doubled < min_size /\ doubled < MaxChunk)
  /\ doubled' = Min({Max({doubled, min_size}), MaxChunk})
  /\ pc' = "done"
  /\ UNCHANGED <<offset, align, min_size>>

Done == pc = "done" /\ UNCHANGED sizingVars

SizingNext == Double \/ Finish \/ Done

-----------------------------------------------------------------------------

\* For every offset up to isize::MAX and every power of two a Layout may carry,
\* align_up's mask is the least multiple of the alignment at or above the
\* offset, and its addition does not wrap.
MaskIsAlignUp == offset <= ISizeMax => Mask(offset, align) = AlignUp(offset, align)

\* The loop returns the first rung of the ladder that holds the request, also
\* for a request between rungs, above the last one, or of zero bytes; and it
\* does return.
LoopReturnsNextChunkCapacity ==
  pc = "loop" ~> pc = "done" /\ doubled = NextChunkCapacity(min_size)

=============================================================================

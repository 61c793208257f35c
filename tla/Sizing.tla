------------------------------- MODULE Sizing -------------------------------
(***************************************************************************)
(* The two size computations of the chunked allocators, in closed form:    *)
(* rounding an offset up to an alignment (Rounding), and choosing the      *)
(* capacity of the next chunk.  SizingLoops has them in the form the code  *)
(* computes them (a bit mask and a doubling loop) and compares the two.    *)
(***************************************************************************)
EXTENDS Rounding, FiniteSetsExt

CONSTANTS
  MinChunk,  \* MIN_CHUNK_SIZE (4096 bytes)
  MaxChunk   \* MAX_CHUNK_SIZE (16 MB)

\* The capacities the doubling loop can stop at.
Ladder == {c \in MinChunk..MaxChunk : \E k \in 0..MaxChunk : c = MinChunk * 2^k}

ASSUME SizingAssumption ==
  /\ MinChunk \in Nat \ {0}
  /\ MaxChunk \in Nat
  /\ MaxChunk \in Ladder

\* next_chunk_capacity: the first rung that holds a request of `size` bytes,
\* or the last rung when none does.
NextChunkTooSmall(size) == Min({c \in Ladder : 2 * c >= size \/ c = MaxChunk})
NextChunkCapacity(size) == Min({c \in Ladder : c >= size \/ c = MaxChunk})

=============================================================================

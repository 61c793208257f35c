------------------------------- MODULE Chunk -------------------------------
(***************************************************************************)
(* core::Chunk (src/core.rs), the block of memory both arenas are made of: *)
(* a base address, a capacity and a bump offset.                           *)
(***************************************************************************)
EXTENDS Sizing

CONSTANTS
  ChunkAlign,  \* the 64 of Chunk::new: granularity of a chunk's base and capacity
  Bases        \* addresses the system allocator may return for a chunk

ASSUME ChunkAssumption ==
  /\ ChunkAlign \in Nat \ {0}
  /\ \A b \in Bases : b \in Nat /\ \E k \in 0..b : b = k * ChunkAlign

ChunkRec == [base : Nat, capacity : Nat, used : Nat]

\* Chunk::new
NewUnalignedChunk(base, capacity) ==
  [base |-> base + 1, capacity |-> AlignUp(capacity, ChunkAlign), used |-> 0]
NewChunk(base, capacity) ==
  [base |-> base, capacity |-> AlignUp(capacity, ChunkAlign), used |-> 0]

\* Chunk::allocate finds room for the layout.
FitsUnpadded(chunk, l) == chunk.used + l.size <= chunk.capacity
Fits(chunk, l) == AlignUp(chunk.used, l.align) + l.size <= chunk.capacity

=============================================================================

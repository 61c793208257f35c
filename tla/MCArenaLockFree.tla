-------------------------- MODULE MCArenaLockFree --------------------------
(***************************************************************************)
(* A small instance of ArenaLockFree: slabs of 2 units, a buffer of 4 that *)
(* takes requests of up to 2, and chunks of 4 or 8 units.                  *)
(***************************************************************************)
EXTENDS ArenaLockFree

Layout(size, align) == [size |-> size, align |-> align]

\* Half a slab, a whole one aligned beyond the buffer's alignment, and one for
\* the chunks.
BufferLayouts == {Layout(1, 1), Layout(2, 4), Layout(3, 1)}

=============================================================================

------------------------------ MODULE MCArena ------------------------------
(***************************************************************************)
(* Small instances of Arena for TLC.  A unit of size stands for 16 bytes:  *)
(* chunks are allocated 4-aligned (CHUNK_ALIGN), the smallest is 4 and the *)
(* largest 8.                                                              *)
(***************************************************************************)
EXTENDS Arena, TLC

Layout(size, align) == [size |-> size, align |-> align]

\* Zero-sized; one that needs padding after another, and after the third no
\* longer fits for it; one that needs the largest chunk; one too large for it.
MCLayouts == {Layout(0, 1), Layout(1, 2), Layout(7, 1), Layout(9, 1)}

GuardSymmetry == Permutations(Guards)

=============================================================================

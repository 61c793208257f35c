--------------------------- MODULE MCLegacyArena ---------------------------
(***************************************************************************)
(* A small instance of LegacyArena; a unit stands for 16 bytes.            *)
(***************************************************************************)
EXTENDS LegacyArena

Layout(size, align) == [size |-> size, align |-> align]

\* Zero-sized with an alignment, small, and above MinChunk.
LegacyLayouts == {Layout(0, 4), Layout(2, 1), Layout(6, 1)}

=============================================================================

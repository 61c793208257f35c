---------------------------- MODULE MCSyncArena ----------------------------
(***************************************************************************)
(* A small instance of SyncArena; units as in MCArena.                     *)
(***************************************************************************)
EXTENDS SyncArena

Layout(size, align) == [size |-> size, align |-> align]

\* Small, padded, one that needs a new chunk, and one that no chunk holds.
SyncLayouts == {Layout(1, 1), Layout(2, 2), Layout(8, 1), Layout(9, 1), Layout(0, 1)}

=============================================================================

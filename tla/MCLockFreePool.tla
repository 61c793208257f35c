--------------------------- MODULE MCLockFreePool ---------------------------
(***************************************************************************)
(* Small instances of LockFreePool.                                        *)
(***************************************************************************)
EXTENDS LockFreePool, TLC

\* Node addresses are interchangeable; so are objects.
HeapSymmetry == Permutations(Nodes) \cup Permutations(Objects)

=============================================================================

-------------------------- MODULE MCLockFreeBuffer --------------------------
(***************************************************************************)
(* Small instances of LockFreeBuffer.  A unit stands for 32 bytes: the     *)
(* alignment of 64 is 2 units, the smallest slab block of 256 is reduced   *)
(* to 4, and a buffer holds two blocks.                                    *)
(***************************************************************************)
EXTENDS LockFreeBuffer, TLC

CONSTANTS shared, a1, a2  \* a buffer as it is, and those of two LockFreeAllocators

Request(size, align) == [size |-> size, align |-> align]

\* A block of the least size, one above it, one whose alignment exceeds the
\* buffer's and so may not fit in a fresh slab, and one that is too large.
AllRequests == {Request(3, 1), Request(5, 1), Request(3, 4), Request(7, 1)}

FewRequests == {Request(2, 1)}

MCRequests == [b \in Buffers |-> IF b = shared THEN AllRequests ELSE FewRequests]

\* The shared buffer is examined by itself, the allocators side by side.
MCTogether == {{shared}, {a1, a2}}

=============================================================================

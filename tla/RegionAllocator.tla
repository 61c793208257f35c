--------------------------- MODULE RegionAllocator ---------------------------
(***************************************************************************)
(* What every allocator of the crate promises its callers, without saying  *)
(* how: a block is granted only if it overlaps no block that is still      *)
(* live, and a block once granted does not move or change until it is      *)
(* released.  Rewinds, resets and scope exits are all releases.            *)
(***************************************************************************)
EXTENDS Integers

VARIABLE live   \* the set of live blocks [chunk, lo, hi, id], covering lo..hi-1

Disjoint(a, b) == a.chunk # b.chunk \/ a.hi <= b.lo \/ b.hi <= a.lo

Init == live = {}

Grant ==
  \E b \in live' :
    /\ b.lo < b.hi
    /\ \A c \in live : Disjoint(b, c)
    /\ live' = live \cup {b}

Release == live' \subseteq live

Next == Grant \/ Release

Spec == Init /\ [][Next]_live

=============================================================================

--------------------------- MODULE MCArenaCaches ---------------------------
(***************************************************************************)
(* The two caches an Arena can be built with, each by itself: a small      *)
(* instance of ArenaThreadCache, in which a thread's cache has two entries *)
(* of together up to 2 units, beside the one of MCArenaLockFree; every     *)
(* behaviour takes one of the two.                                         *)
(***************************************************************************)
EXTENDS MCArenaLockFree, ArenaThreadCache, TLC

VARIABLE feature   \* "lockfree" or "thread_local"

\* Half a cache, and a whole one.
MCCacheLayouts == {Layout(1, 1), Layout(2, 4)}

lfState == <<buffer, wiped>>
tcState == <<cache, at, overflow_checks, history>>

\* Nothing is claimed of the cache that the build does not have: its history
\* variable says so from the start.
MCInit ==
  \/ /\ feature = "lockfree" /\ LFInit
     /\ cache = [t \in Threads |-> NewCache] /\ at \in Threads
     /\ overflow_checks = FALSE /\ approximate = {} /\ stale = TRUE
  \/ /\ feature = "thread_local" /\ TCInit
     /\ buffer_offset = 0 /\ slab = NoSlab /\ wiped = TRUE

\* Bound: once the buffer was wiped, a behaviour is followed only where the
\* next step takes the allocations that were left in it away.
MCNext ==
  \/ /\ feature = "lockfree" /\ LFNext /\ (wiped => ~wiped')
     /\ UNCHANGED <<tcState, feature>>
  \/ feature = "lockfree" /\ wiped /\ UNCHANGED <<vars, lfState, tcState, feature>>
  \/ feature = "thread_local" /\ TCNext /\ UNCHANGED <<lfState, feature>>

ThreadSymmetry == Permutations(Threads)

MCSpec == MCInit /\ [][MCNext]_<<vars, lfState, tcState, feature>>

=============================================================================

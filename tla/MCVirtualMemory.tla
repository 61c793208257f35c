-------------------------- MODULE MCVirtualMemory --------------------------
(***************************************************************************)
(* A small instance of VirtualMemory, with SizingLoops beside it: a        *)
(* behaviour either computes one mask and one chunk capacity, or is one of *)
(* VirtualMemory while those rest.  A page is 2 bytes, a reservation at    *)
(* most 4 pages, and a word has W bits.                                    *)
(***************************************************************************)
EXTENDS SizingLoops, VirtualMemory

\* Nothing; with padding; one page; two and a half, aligned beyond a page.
MCRequests == {[size |-> 0, align |-> 1], [size |-> 1, align |-> 2],
               [size |-> 2, align |-> 1], [size |-> 5, align |-> 4]}

Resting ==
  /\ offset = 0 /\ align = 1 /\ min_size = 0 /\ doubled = MinChunk
  /\ pc = "rest"

MCInit == VMInit /\ (SizingInit \/ Resting)

Rest == pc = "rest" /\ UNCHANGED sizingVars

MCNext ==
  \/ SizingNext /\ UNCHANGED vmVars
  \/ VMNext /\ Rest

MCSpec == MCInit /\ [][MCNext]_<<sizingVars, vmVars>> /\ WF_sizingVars(SizingNext)

\* The closed forms the other modules and the proofs use are what the masks
\* compute: that of align_up for every offset and alignment of a Layout, that of
\* new, commit and decommit for every word, those included whose sum wraps.
MasksAreClosedForms == MaskIsAlignUp /\ PageUp(offset) = Mask(offset, PageSize)

=============================================================================

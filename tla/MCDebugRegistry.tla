-------------------------- MODULE MCDebugRegistry --------------------------
(***************************************************************************)
(* A small instance of DebugRegistry: two arenas.                          *)
(***************************************************************************)
EXTENDS DebugRegistry, TLC

ArenaSymmetry == Permutations(Arenas)

=============================================================================

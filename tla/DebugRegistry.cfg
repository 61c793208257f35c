CONSTANTS
  Arenas = {a1, a2}
  Nil = Nil
  MaxAllocs = 3
  MaxMarks = 3
  MaxId = 2
SYMMETRY ArenaSymmetry
SPECIFICATION DebugSpec
INVARIANTS
  RegistryFollowsArenas
  
  RewoundIsReported
CHECK_DEADLOCK FALSE

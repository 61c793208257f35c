CONSTANTS
  MinChunk = 4
  MaxChunk = 8
  ChunkAlign = 4
  Bases = {4}
  Capacities = {3}
  Layouts <- LegacyLayouts
  MaxLive = 2
  MaxChunks = 2
  MaxCheckpoints = 2
  MaxCount = 1
SPECIFICATION Spec
INVARIANTS LiveBlocksSound RewindKeepsEarlierAllocations

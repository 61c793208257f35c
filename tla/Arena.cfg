CONSTANTS
  MinChunk = 4
  MaxChunk = 8
  ChunkAlign = 4
  DefaultChunk = 8
  Capacities = {3}
  Layouts <- MCLayouts
  Bases = {4}
  Guards = {g1, g2}
  NoScope = NoScope
  Debug = FALSE
  MaxLive = 2
  MaxChunks = 2
  MaxId = 3
SPECIFICATION Spec
SYMMETRY GuardSymmetry
INVARIANTS
  LiveBlocksDisjoint
  LiveBlocksInBounds
  AlignedUpToChunkAlign
  RewindKeepsEarlierAllocations
  ScopeFailsOnlyWhenEmptied
  RetainIsAFilter
  BytesAreBracketed
  NothingBehindCurrent
  ExactWhenNested
PROPERTIES
  AbortOnlyAboveMaxChunk
  ImplementsRegionAllocator

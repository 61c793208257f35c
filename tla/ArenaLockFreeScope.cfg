CONSTANTS
  MinChunk = 4
  MaxChunk = 8
  ChunkAlign = 4
  DefaultChunk = 8
  Capacities = {3}
  Layouts <- BufferLayouts
  Bases = {4}
  Guards = {g1}
  NoScope = NoScope
  Debug = FALSE
  MaxLive = 3
  MaxChunks = 2
  MaxId = 1
  BufferSize = 4
  BufferAlign = 2
  BufferMinBlock = 2
  MaxBuffered = 2
SPECIFICATION LFSpec
INVARIANTS PreviousAllocationsPreserved

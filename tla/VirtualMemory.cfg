CONSTANTS
  MinChunk = 2
  MaxChunk = 8
  W = 5
  MaxSize = 10
  PageSize = 2
  MaxReserve = 8
  DefaultCommit = 2
  DefaultReserve = 6
  Usize = 32
  Sizes = {0, 1, 3, 5, 9, 31}
  Offsets = {0, 1, 2, 4, 31}
  Requests <- MCRequests
SPECIFICATION MCSpec
INVARIANTS
  MasksAreClosedForms
  GrantedMemoryUsable
  AccessibleIsAccountedFor
PROPERTIES
  LoopReturnsNextChunkCapacity
  ChunkImplementsRegionAllocator

CONSTANTS
  MinChunk = 4
  MaxChunk = 8
  ChunkAlign = 4
  DefaultChunk = 8
  Capacities = {0, 3}
  Layouts <- SyncLayouts
  Bases = {4}
  Guards = {t1, t2}
  NoScope = NoScope
  NoThread = NoThread
  Debug = TRUE
  MaxLive = 2
  MaxChunks = 3
  MaxId = 3
SPECIFICATION SyncSpec
INVARIANTS LockOK FreeLockMeansEmptyArena
PROPERTIES  LockIsFreedUnlessReentered
CHECK_DEADLOCK FALSE

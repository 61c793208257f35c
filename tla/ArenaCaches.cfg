CONSTANTS
  MinChunk = 4
  MaxChunk = 8
  ChunkAlign = 4
  DefaultChunk = 8
  Capacities = {3}
  Layouts <- BufferLayouts
  Bases = {4}
  Guards = {g1}
  NoScope = NoScope
  Debug = FALSE
  MaxLive = 3
  MaxChunks = 2
  MaxId = 2
  BufferSize = 4
  BufferAlign = 2
  BufferMinBlock = 2
  MaxBuffered = 2
  Threads = {t1, t2}
  CacheEntries = 2
  CacheSize = 2
  CacheUsize = 8
  CacheMaxId = 1
  CacheLayouts <- MCCacheLayouts
SPECIFICATION MCSpec
SYMMETRY ThreadSymmetry
INVARIANTS DisjointUnlessWiped  CacheAccounting

CONSTANTS
  shared = shared
  a1 = a1
  a2 = a2
  Threads = {t1, t2}
  Buffers = {a1}
  Allocators = {a1}
  Together <- MCTogether
  Capacity = 8
  Alignment = 2
  SlabMinBlock = 4
  MaxAllocation = 6
  Requests <- MCRequests
  MaxGeneration = 1
  MaxEpoch = 2
  MaxMisses = 2
  MaxOwned = 4
SPECIFICATION Spec
INVARIANTS BlocksInLiveMemory
CHECK_DEADLOCK FALSE

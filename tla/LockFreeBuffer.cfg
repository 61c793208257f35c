CONSTANTS
  shared = shared
  a1 = a1
  a2 = a2
  Threads = {t1, t2}
  Buffers = {shared, a1, a2}
  Allocators = {a1, a2}
  Together <- MCTogether
  Capacity = 10
  Alignment = 2
  SlabMinBlock = 4
  MaxAllocation = 6
  Requests <- MCRequests
  MaxGeneration = 1
  MaxEpoch = 1
  MaxMisses = 1
  MaxOwned = 2
SPECIFICATION Spec
INVARIANTS ContentionIsPaidFor SlabsArePrivate BlocksInLiveMemory
PROPERTIES  ImplementsRegionAllocator
CHECK_DEADLOCK FALSE

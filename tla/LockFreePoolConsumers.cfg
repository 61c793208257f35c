CONSTANTS
  Threads = {c, d}
  Consumers = {c, d}
  Objects = {o1, o2}
  Nodes = {n1, n2}
  Null = Null
  W = 2
  MaxEvents = 1
SPECIFICATION Spec
SYMMETRY HeapSymmetry
INVARIANTS NoDanglingAccess
CHECK_DEADLOCK FALSE

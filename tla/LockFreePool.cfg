CONSTANTS
  Threads = {c, p, q}
  Consumers = {c}
  Objects = {o1, o2}
  Nodes = {n1, n2}
  Null = Null
  W = 2
  MaxEvents = 1
SPECIFICATION Spec
INVARIANTS NoDanglingAccess ObjectsAreConserved AllocationsMirrorLength
PROPERTIES ImplementsObjectStack SomeCallReturns
CHECK_DEADLOCK FALSE

CONSTANTS
  Capacities = {0, 2}
  Holders = {h1, h2, h3}
  MaxSlots = 4
SPECIFICATION Spec
INVARIANTS  StatsAddUp
CHECK_DEADLOCK FALSE

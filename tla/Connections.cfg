SPECIFICATION Spec
CONSTANTS
  Conns = {1, 2, 3}
  MaxConnections = 2
  MaxUnstarted = 2
INVARIANTS
  Aligned
  NoSlotLost
  Ceiling

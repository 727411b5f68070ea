\* One controller, one point of escrow, no faults.
SPECIFICATION Spec
CONSTANTS
  a = a
  a1 = a1
  a2 = a2
  Node = {a}
  Controller = {a1}
  OwnerOf <- OnOneDevice
  Lagging = {}
  Alone = {a}
  Manual = {}
  MaxFundings = 1
  MaxEvents = 8
  MaxDisturbances = 0
INVARIANTS
  NoFreeMint
CHECK_DEADLOCK FALSE

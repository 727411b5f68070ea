\* One bridge, two of its controllers, one stop, reload, closed tab or failure.
SPECIFICATION Spec
CONSTANTS
  a = a
  a1 = a1
  a2 = a2
  Node = {a}
  Controller = {a1, a2}
  OwnerOf <- OnOneDevice
  Lagging = {a2}
  Alone = {a}
  Manual = {1}
  MaxFundings = 1
  MaxEvents = 5
  MaxDisturbances = 1
INVARIANTS
  OncePerController
  MarkedIsDelivered
CHECK_DEADLOCK FALSE

\* One controller with a worker, a transfer by hand and a flush.
SPECIFICATION FairSpec
CONSTANTS
  a = a
  a1 = a1
  a2 = a2
  Node = {a}
  Controller = {a2}
  OwnerOf <- OnOneDevice
  Lagging = {a2}
  Alone = {a}
  Manual = {1}
  MaxFundings = 1
  MaxEvents = 8
  MaxDisturbances = 1
PROPERTIES
  CarriedThrough
CHECK_DEADLOCK FALSE

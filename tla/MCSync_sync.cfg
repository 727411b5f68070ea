\* Two devices, one relay, two events, one fault or reconfiguration.
SPECIFICATION Spec
CONSTANTS
  a = a
  b = b
  a1 = a1
  b1 = b1
  r1 = r1
  Client = {a, b}
  Engine = {a1, b1}
  Relay = {r1}
  Id = {1, 2}
  OwnerOf <- OneEngineEach
  Bootstrap = {r1}
  RelaySets = {{}, {r1}}
  MAX_OUTBOX = 1
  MAX_BUFFER = 1
  MAX_CONNECTIONS = 2
  RATE_LIMIT = 2
  MaxDisturbances = 1
INVARIANTS
  TypeOK
  MemoryIsStored
  OrdersAgree
PROPERTIES
  QueuedUntilCarried
  ImplementsExchange
CHECK_DEADLOCK FALSE

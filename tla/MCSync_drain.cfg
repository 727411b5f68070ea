\* Two devices, one relay, two events, one fault or reconfiguration, a relay
\* that takes three messages of a socket at once.
SPECIFICATION OfflineSpec
CONSTANTS
  a = a
  b = b
  a1 = a1
  b1 = b1
  r1 = r1
  Client = {a, b}
  Engine = {a1, b1}
  Relay = {r1}
  Id = {1, 2}
  OwnerOf <- OneEngineEach
  Bootstrap = {r1}
  RelaySets = {{}}
  MAX_OUTBOX = 2
  MAX_BUFFER = 2
  MAX_CONNECTIONS = 2
  RATE_LIMIT = 3
  MaxDisturbances = 1
PROPERTIES
  OutboxDrains
  HeldIsDelivered
CHECK_DEADLOCK FALSE

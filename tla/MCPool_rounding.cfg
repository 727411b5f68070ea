\* Three eligible souls weighted 3, 93 and 0 share a flush, which leaves the last
\* one in debt, and the debtor is expelled.
SPECIFICATION SpentFounderSpec
CONSTANTS
  N = 4
  M = 0
  K = 1
  SOFT_CELL_CAP = 3
  TIMESTAMP_FORWARD_SKEW = 2
  MIN_EPOCH_INTERVAL = 2
  MAX_EPOCH_INTERVAL = 8
  MAX_REDISTRIBUTION_CATCHUP = 3
  YEAR_DENOMINATOR = 1000000000
  POINTS_SCALE = 1
  DEFAULT_PARAMETERS <- MCDefault
  RelayUrl = {}
  MAX_COMMUNITY_RELAYS = 0
  MaxEvents = 3
  Timestamps = {3}
  InitialPoints = {}
  Rows <- OneRow
  Invitees = {}
  Amounts = {}
  Settings <- NoSettings
  ShareWeights = {}
  VouchWeights = {}
  Motions <- ExpelFourth
  CreateIds = {5}
  Ballots = {TRUE}
  CloseIds = {}
  Deliveries <- NoDeliveries
  Populations = {}
  EpochNumbers = {1}
  Holdings <- SpentFounder
  Start = 1
  Depth = 3
INVARIANTS
  PointsConserved
\* A log may simply end: MaxEvents events, or nobody left who can act.
CHECK_DEADLOCK FALSE

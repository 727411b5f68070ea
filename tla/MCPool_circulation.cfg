\* Decay and flushes over three instants, with late and early timestamps,
\* a frozen member, a changed interval and moved redistribution sliders.
SPECIFICATION AssembledSpec
CONSTANTS
  N = 3
  M = 0
  K = 1
  SOFT_CELL_CAP = 3
  TIMESTAMP_FORWARD_SKEW = 2
  MIN_EPOCH_INTERVAL = 2
  MAX_EPOCH_INTERVAL = 8
  MAX_REDISTRIBUTION_CATCHUP = 3
  YEAR_DENOMINATOR = 3500
  POINTS_SCALE = 1
  DEFAULT_PARAMETERS <- MCDefault
  RelayUrl = {}
  MAX_COMMUNITY_RELAYS = 0
  MaxEvents = 4
  Timestamps = {1, 2, 4}
  InitialPoints = {}
  Rows <- OneRow
  Invitees = {}
  Amounts = {9}
  Settings <- IntervalSetting
  ShareWeights = {30}
  VouchWeights = {}
  Motions <- NoMotions
  CreateIds = {}
  Ballots = {TRUE}
  CloseIds = {}
  Deliveries <- NoDeliveries
  Populations = {}
  EpochNumbers = {1}
  Holdings <- Uneven
  Start = 1
  Depth = 4
INVARIANTS
  ClocksAgree
PROPERTIES
  FlushReachesEligible
\* A log may simply end: MaxEvents events, or nobody left who can act.
CHECK_DEADLOCK FALSE

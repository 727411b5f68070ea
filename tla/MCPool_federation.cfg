\* Value crossing the seam of a federated Pool, in and out, up and down, while it
\* joins, leaves and links namespaces, relays sliders and publishes mailboxes.
SPECIFICATION FederatedSpec
CONSTANTS
  N = 3
  M = 2
  K = 2
  SOFT_CELL_CAP = 3
  TIMESTAMP_FORWARD_SKEW = 2
  MIN_EPOCH_INTERVAL = 2
  MAX_EPOCH_INTERVAL = 8
  MAX_REDISTRIBUTION_CATCHUP = 3
  YEAR_DENOMINATOR = 3500
  POINTS_SCALE = 1
  DEFAULT_PARAMETERS <- MCDefault
  RelayUrl = {u1, u2}
  u1 = u1
  u2 = u2
  MAX_COMMUNITY_RELAYS = 1
  MaxEvents = 5
  Timestamps = {3}
  InitialPoints = {}
  Rows <- OneRow
  Invitees = {}
  Amounts = {}
  Settings <- NoSettings
  ShareWeights = {}
  VouchWeights = {}
  Motions <- FederationMotions
  CreateIds = {4, 5}
  Ballots = {TRUE}
  CloseIds = {}
  Deliveries <- SeamDeliveries
  Populations = {2}
  EpochNumbers = {1}
  Holdings <- Couple
  Start = 1
  Depth = 5
INVARIANTS
  PointsConserved
  ProposalLifecycle
  ParametersAreMeans
  OfferedIsAccepted
PROPERTIES
  SupplyBackedByProposal
\* A log may simply end: MaxEvents events, or nobody left who can act.
CHECK_DEADLOCK FALSE

\* From genesis, and from three members and an approved guest: admission,
\* transfers, overspending, elections, release, expulsion and return, time
\* standing still.
SPECIFICATION MembersSpec
CONSTANTS
  N = 4
  M = 0
  K = 1
  SOFT_CELL_CAP = 3
  TIMESTAMP_FORWARD_SKEW = 1
  MIN_EPOCH_INTERVAL = 2
  MAX_EPOCH_INTERVAL = 8
  MAX_REDISTRIBUTION_CATCHUP = 3
  YEAR_DENOMINATOR = 3500
  POINTS_SCALE = 1
  DEFAULT_PARAMETERS <- MCDefault
  RelayUrl = {}
  MAX_COMMUNITY_RELAYS = 0
  MaxEvents = 8
  Timestamps = {1}
  InitialPoints = {12}
  Rows <- BondRow
  Invitees = {3, 4}
  Amounts = {5}
  Settings <- DecaySetting
  ShareWeights = {}
  VouchWeights = {100}
  Motions <- MemberMotions
  CreateIds = {5}
  Ballots = {TRUE, FALSE}
  CloseIds = {3}
  Deliveries <- NoDeliveries
  Populations = {}
  EpochNumbers = {1}
  Holdings <- GuestMajority
  Start = 1
  Depth = 5
INVARIANTS
  TypeOK
  LiensMatchInvitations
  StandingIsMembership
  TalliesMatchVotes
  OfferedIsAccepted
PROPERTIES
  PledgeWithinShare
  ApprovalIsPerInvitation
  HeadChosenByOthers
\* A log may simply end: MaxEvents events, or nobody left who can act.
CHECK_DEADLOCK FALSE

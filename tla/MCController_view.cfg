\* One node, every history of three events, a worker that may fail.
SPECIFICATION FairSpec
CONSTANTS
  Histories <- MCHistories
  Accepts <- MCAccepts
  Signer <- MCSigner
  Contributes <- MCContributes
  Revokes <- MCRevokes
  Url = {"mailbox", "home"}
  BootstrapRelays = {"home"}
  Waiter = {w1}
  Awaited = {3}
  MaxRequests = 3
  MaxEdits = 1
  MaxSaves = 1
INVARIANTS
  TypeOK
  OrderIsCausal
  ShownIsReplay
  RejectionsTold
  RelaysFollowLedger
  NobodyOversleeps
PROPERTIES
  NeverGoesBack
  CatchesUp
CHECK_DEADLOCK FALSE

\* Two nodes of one desktop, two operations of its page at once.
SPECIFICATION Spec
CONSTANTS
  Call = {c1, c2}
  MaxStarts = 2
SYMMETRY Alike
INVARIANTS
  OffMeansOff
  ShownAddressLives
  SharedIsPublished
CHECK_DEADLOCK FALSE

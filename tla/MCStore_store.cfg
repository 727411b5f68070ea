\* Two identities, one chapter to found, one community of another device.
\* Two nodes per page load, two operations under way, one reload.
SPECIFICATION Spec
CONSTANTS
  Key = {k1, k2}
  Fresh = {f1}
  Joined = {j1}
  Node = {1, 2}
  Call = {c1, c2}
  None = None
  Other = Other
  MaxReloads = 1
SYMMETRY Alike
INVARIANTS TypeOK ShownNodeRuns NobodyElseRuns SavedCommunityExists
CHECK_DEADLOCK FALSE

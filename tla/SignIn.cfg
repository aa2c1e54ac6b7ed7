CONSTANTS
  s1 = s1
  s2 = s2
  s3 = s3
  None = None
  Sessions = {s1, s2, s3}
  Codes = {d1, d2}
  Keys = {k1, k2}
  Approvals = {r1, r2}
  Environments <- MCEnvironments
  Intervals = {0, 9}
  Lifetimes = {2}
  MaxInterval = 2
  MaxTries = 3
  MaxCommands = 1
  MaxClock = 3
SPECIFICATION Spec
CHECK_DEADLOCK FALSE
INVARIANTS LiveLoginIsHeld RevealsWereApproved TriesDiffer
PROPERTY EveryLoginEnds

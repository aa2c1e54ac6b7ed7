\* No fault at all, one `penv machine enroll` beside two commands.
CONSTANTS
  Commands = {c1, c2}
  Enrollers = {e1}
  Ids = {i1, i2}
  NoId = NoId
  NoCommand = NoCommand
  FirstId = i1
  FirstGeneration = 1
  LockDir = TRUE
  Faults = {}
SPECIFICATION Spec
CHECK_DEADLOCK FALSE
INVARIANT NeverReadAsClone

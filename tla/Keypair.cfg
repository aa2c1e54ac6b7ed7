\* Two commands and two re-enrolments on one host, every fault.  The commands
\* end, so the system stops.
CONSTANTS
  Commands = {c1, c2}
  Enrollers = {e1, e2}
  Ids = {i1, i2, i3}
  NoId = NoId
  NoCommand = NoCommand
  FirstId = i1
  FirstGeneration = 2
  LockDir = TRUE
  Faults = {"crash", "timeout", "server", "keychain"}
SPECIFICATION FairSpec
CHECK_DEADLOCK FALSE
INVARIANTS ClonedOnlyWithCause BankedBeforeUse
PROPERTIES CounterNeverGoesBack EveryExchangeEnds

\* Both functions over sockets of two records; the connection ends, so the system
\* stops.
CONSTANTS
  NoOne = NoOne
  NoJob = NoJob
  Capacity = 2
  MaxData = 1
  Askers = {"upstream"}
SPECIFICATION Spec
CHECK_DEADLOCK FALSE
INVARIANTS InOrder NothingLost
PROPERTIES EndsTogether AnswerArrives

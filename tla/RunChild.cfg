\* Both pipes, two units each, one signal (SignalsArrive, StaysWithChild and
\* OnlyTheTailIsLost are proved for any number).  penv ends, so the system stops.
CONSTANTS
  Pumps = {stdout, stderr}
  Drain = 2
  None = None
  Nohup = {"SIGINT"}
  MaxUnits = 2
  MaxSignals = 1
SPECIFICATION FairSpec
CHECK_DEADLOCK FALSE
INVARIANTS SignalsArrive OnlyTheTailIsLost
PROPERTIES StaysWithChild EndsWithChild

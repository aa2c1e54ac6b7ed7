\* Every pair of commands, every fault; one command may have PENV_LOCAL_KEY.  The
\* commands end, so the system stops.
CONSTANTS
  Processes = {p1, p2}
  Names = {"TOKEN", "PORT"}
  Sensitive = {"TOKEN"}
  Rotated = {"TOKEN"}
  Generated = {"TOKEN"}
  Given = {p2}
  First = First
  OldKey = OldKey
  GivenKey = GivenKey
  NoKey = NoKey
  Plain = Plain
  Absent = Absent
  Faults = {"keychain", "home", "disk", "crash"}
SPECIFICATION Spec
CHECK_DEADLOCK FALSE
INVARIANTS EncryptionHolds RunsAgree
PROPERTY ImplementsStore

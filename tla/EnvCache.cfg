\* Two readers, with the token or the login, one change on the server, every
\* fault.  The readers end, so the system stops.
CONSTANTS
  Readers = {r1, r2}
  Token = Token
  FirstLogin = FirstLogin
  NextLogin = NextLogin
  NoLogin = NoLogin
  NoKey = NoKey
  NoEntry = NoEntry
  NotBegun = NotBegun
  Unanswered = Unanswered
  Refused = Refused
  Ttl = 2
  Faults = {"offline", "server", "keychain", "disk"}
  MaxClock = 2
  MaxEpochs = 2
SPECIFICATION Spec
SYMMETRY Symmetry
CHECK_DEADLOCK FALSE
INVARIANT AnsweredToOwner
PROPERTY ImplementsPromise

CONSTANTS
  api = api
  aws = aws
  site = site
  bucket = bucket
  local = local
  None = None
  Nobody = "nobody"
  c1 = c1
  c2 = c2
  Keys = {api, aws}
  Hosts = {site, bucket, local}
  Loopback = {local}
  Conns = {c1, c2}
  Clients = {c1, c2}
  Setups <- MCSetups
  Targets <- MCTargets
  Offered <- MCOffered
  Arguments <- MCArguments
  MaxRequests = 2
  MaxConnections = 1
  MaxAsked = 4
SPECIFICATION Spec
SYMMETRY Symmetry
CHECK_DEADLOCK FALSE
INVARIANTS ValuesStaySealed LoginHolds
PROPERTY TurnedAwayOnlyWhenFull

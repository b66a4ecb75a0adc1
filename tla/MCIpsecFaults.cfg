SPECIFICATION Spec
CONSTANTS
  Reloader = {web}
  Host <- MCHost
  Ip <- MCIp
  Dir <- OneDir
  Psk = {k1}
  Rev = {t1, t2}
  Doc <- MovingContainers
  Leftover <- ForeignPolicies
  HostTunnel = TRUE
  SyncRoutes = TRUE
  LostReplies = TRUE
  AnyPeer = AnyPeer
  Nobody = Nobody
  NoHost = NoHost
  NoEntry = NoEntry
  NoPsk = NoPsk
  NoRev = NoRev
  NoConn = NoConn
  Found = Found
  MaxChange = 2
  MaxFault = 2
  h1 = h1
  h2 = h2
  h3 = h3
  p1 = p1
  c1 = c1
  c2 = c2
INVARIANTS
  TypeOK
  Converged
  AddsFindFreeSelectors
PROPERTIES
  PoliciesCovered
  UsedConnectionKept
  PoliciesReconciled
  RoutesReconciled

SPECIFICATION Spec
CONSTANTS
  Reloader = {web, md}
  Host <- MCHost
  Ip <- MCIp
  Dir <- OneDir
  Psk = {k1}
  Rev = {t1}
  Doc <- MovingSelf
  Leftover <- NoPolicies
  HostTunnel = TRUE
  SyncRoutes = TRUE
  LostReplies = FALSE
  AnyPeer = AnyPeer
  Nobody = Nobody
  NoHost = NoHost
  NoEntry = NoEntry
  NoPsk = NoPsk
  NoRev = NoRev
  NoConn = NoConn
  Found = Found
  MaxChange = 2
  MaxFault = 1
  h1 = h1
  h2 = h2
  h3 = h3
  p1 = p1
  c1 = c1
  c2 = c2
INVARIANTS
  Converged
  AddsFindFreeSelectors
PROPERTIES
  UsedConnectionKept
  PoliciesReconciled
SYMMETRY Callers

SPECIFICATION FairSpec
CONSTANTS
  Reloader = {web, md}
  Host <- MCHost
  Ip <- MCIp
  Dir <- AllDir
  Psk = {k1, k2}
  Rev = {t1}
  Doc <- MovingOnce
  Leftover <- ForeignPolicies
  HostTunnel = FALSE
  SyncRoutes = FALSE
  LostReplies = TRUE
  AnyPeer = AnyPeer
  Nobody = Nobody
  NoHost = NoHost
  NoEntry = NoEntry
  NoPsk = NoPsk
  NoRev = NoRev
  NoConn = NoConn
  Found = Found
  MaxChange = 1
  MaxFault = 1
  h1 = h1
  h2 = h2
  h3 = h3
  p1 = p1
  c1 = c1
  c2 = c2
INVARIANTS
  Converged
PROPERTIES
  ReloadReturns
  RetrySucceeds

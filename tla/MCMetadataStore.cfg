\* The change handler and one HTTP caller, one change, one failed request.
CONSTANTS
  web = web  x = x  y = y  ax = ax  ay = ay  az = az  a = a  b = b  ct = ct
  n1 = n1  n2 = n2  overlay = overlay  own = own  other = other
  Md = md
  Web = {web}
  Ip = {a, b, ct}
  NoIp = NoIp
  Host = {x, y}
  Agent = {ax, ay, az}
  NoAgent = NoAgent
  Net = {n1, n2}
  NetName = {overlay}
  NoName = NoName
  Service = {own, other}
  Own = own
  Doc <- MCDoc
  ClientIp = a
  MaxChange = 1
  MaxFault = 1
  MaxWeb = 1
SPECIFICATION FairSpec
INVARIANT TypeOK
INVARIANT StoreSplitsEntries
INVARIANT LocalNeverProxied
INVARIANT FileStoreAgrees
INVARIANT SettledStoreIsCurrent
PROPERTY StoreCatchesUp

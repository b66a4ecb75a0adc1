SPECIFICATION Spec
CONSTANTS
  Reloader = {web}
  Ip = {p1, c1}
  Host = {h1, h2}
  Doc <- AnyDocs
  NoIp = NoIp
  NoHost = NoHost
  MaxChange = 2
  MaxFault = 2
  h1 = h1
  h2 = h2
  p1 = p1
  p2 = p2
  c1 = c1
  c2 = c2
SYMMETRY Symmetry
INVARIANTS
  BookkeepingTrue
  ForwardingRecorded

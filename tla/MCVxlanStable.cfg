SPECIFICATION Spec
CONSTANTS
  Reloader = {web}
  Ip = {p1, p2, c1, c2}
  Host = {h1, h2}
  Doc <- SteadyAmongDrifting
  NoIp = NoIp
  NoHost = NoHost
  MaxChange = 2
  MaxFault = 1
  h1 = h1
  h2 = h2
  p1 = p1
  p2 = p2
  c1 = c1
  c2 = c2
INVARIANTS
  TypeOK
  Reconfigured

SPECIFICATION Spec
CONSTANTS
  Reloader = {web, md}
  Ip = {p1, p2, c1, c2}
  Host = {h1, h2}
  Doc <- GrowingAgents
  NoIp = NoIp
  NoHost = NoHost
  MaxChange = 1
  MaxFault = 0
  h1 = h1
  h2 = h2
  p1 = p1
  p2 = p2
  c1 = c1
  c2 = c2
INVARIANTS
  Reconfigured

SPECIFICATION Spec
CONSTANTS
  x = x
  y = y
  NoId = NoId
  Tunnel = {1, 2}
  Reaper = {x, y}
  MaxPacket = 2
INVARIANT PairKeepsOne

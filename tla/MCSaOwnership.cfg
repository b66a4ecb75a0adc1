\* Two addresses, two peers, two identities of their agents: the host can move and move back.
CONSTANTS
  Peer = {p, q}
  Addr = {a1, a2}
  Id = {i1, i2}
  NoAddr = NoAddr
  NoId = NoId
  Nobody = Nobody
  Found = Found
  MaxChange = 2
  MaxFault = 1
SPECIFICATION FairSpec
INVARIANT TypeOK
INVARIANT OnlyOwnStaleReaped
INVARIANT StaleSasGone
PROPERTY RestartsEnd

\* With no change left and no Reload due the overlay waits.
CHECK_DEADLOCK FALSE

SPECIFICATION FairSpec
CONSTANTS
  Host = {a}
  Local = local
  NoHost = NoHost
  NoId = NoId
  MaxSa = 6
  SaId <- MCSaId
  Attempts = 2
  MaxChurn = 4
  MaxFault = 1
INVARIANTS
  ReaperSparesThePeer
PROPERTIES
  PeerRecovers

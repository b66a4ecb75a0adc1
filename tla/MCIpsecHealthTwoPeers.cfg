SPECIFICATION FairSpec
CONSTANTS
  Host = {a, b}
  Local = local
  NoHost = NoHost
  NoId = NoId
  MaxSa = 6
  SaId <- MCSaId
  Attempts = 2
  MaxChurn = 2
  MaxFault = 0
INVARIANTS
  TypeOK
  OneInitiator
PROPERTIES
  PeerRecovers

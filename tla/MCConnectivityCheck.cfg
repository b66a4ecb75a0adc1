\* One container, two changes of the metadata or the network, one lost request or probe.
CONSTANTS
  u1 = u1  h1 = h1  i1 = i1  i2 = i2
  Uuid = {u1}
  Slot = {0, 1}
  Host = {h1}
  Ip = {i1, i2}
  Doc <- MCDoc
  NoPeer = NoPeer
  Outage = FALSE
  MaxPoll = 1
  MaxChange = 2
  MaxFault = 1
SPECIFICATION FairSpec
INVARIANT TypeOK
INVARIANT OneProbePerPeer
PROPERTY LateAnswersStayBehind
PROPERTY SilenceReported
PROPERTY HealthReported
PROPERTY StoppedGoroutinesEnd
PROPERTY BindingEnds

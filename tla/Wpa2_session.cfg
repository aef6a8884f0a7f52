SPECIFICATION FairSpec
CONSTANTS
  Peers = {p1}
  NoPeer = NoPeer
  Deadline = 2
  WireFrames <- MCWireFrames
  Authenticator = p1
  Tokens = {t1, t2}
  MaxReplay = 3
  MaxHandshakes = 2
  MaxElapsed = 1
  Careful = TRUE
INVARIANTS
  TypeOK
  PortNeedsHandshake
  RequestPending
PROPERTIES
  NoReinstall
  OperationEnds

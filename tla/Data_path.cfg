SPECIFICATION FairSpec
CONSTANTS
  RX = 2
  TX = 2
  RxSize = 45052
  TxSize = 45004
  Careful = TRUE
  MaxFaults = 2
INVARIANTS
  TypeOK
  Exclusive
  EventsKnown
  NothingLost
PROPERTY
  TokensReturn

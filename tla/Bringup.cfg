SPECIFICATION FairSpec
CHECK_DEADLOCK FALSE
CONSTANTS
  MaxChunk = 8
  Cases <- MCCases
  RxBuffers = 2
  RxSize = 1600
  MaxFaults = 2
INVARIANTS
  TypeOK
  ReadyIsBooted
  ParseExact
  TransfersExact
PROPERTIES
  RunsTrusted
  IsLifecycle
  BecomesReady

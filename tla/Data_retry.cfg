SPECIFICATION Spec
CONSTANTS
  RX = 2
  TX = 2
  RxSize = 45052
  TxSize = 45004
  Careful = FALSE
  MaxFaults = 0
INVARIANTS
  Exclusive

SPECIFICATION FairSpec
CONSTANTS
  MaxEpoch = 1
PROPERTIES
  TxDrains

SPECIFICATION FairSpec
CONSTANTS
  MaxCommands = 3
  Requests <- MCRequests
  FragmentLen = 400
  Pool = 2
  Attempts = 2
  MaxFaults = 2
INVARIANTS
  TypeOK
  NoSplice
  EncodedRight
PROPERTIES
  IsChannel
  SentIsReceived

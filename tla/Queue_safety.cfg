SPECIFICATION Spec
CONSTANTS
  MaxEpoch = 3
INVARIANTS
  TypeOK
  Ownership
  NoStaleFrame
  NoLostWake

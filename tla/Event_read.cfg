SPECIFICATION FairSpec
CONSTANTS
  big = big
  small = small
  Nobody = Nobody
  Scratch = {big, small}
  Capacity <- MCCapacity
  Kept <- MCKept
  Bodies <- MCBodies
  MaxLen = 3
  MaxEvents = 3
  Pool = 2
  Retries = FALSE
  MaxFaults = 1
INVARIANTS
  TypeOK
  Whole
  ParsedWithin
  Aligned
  BuffersReturn
PROPERTY
  QueueDrains

SPECIFICATION Spec
CONSTANTS
  big = big
  small = small
  Nobody = Nobody
  Scratch = {big, small}
  Capacity <- MCCapacity
  Kept <- MCKept
  Bodies <- MCBodies
  MaxLen = 3
  MaxEvents = 2
  Pool = 2
  Retries = TRUE
  MaxFaults = 1
INVARIANTS
  Whole

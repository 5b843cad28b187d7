CONSTANTS
  None = None
  Bad = Bad

SPECIFICATION DamagedSpec
INVARIANTS
  InvalidIsRefused
CHECK_DEADLOCK FALSE

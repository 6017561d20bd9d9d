SPECIFICATION MCSpec
CONSTANTS
  DbcSize = 6
  BufSize = 9
  Places = {0, 7}
  Points <- MCPoints
  Protections = {0, 31, 32, 255}
  Banks = {0, 3}
  Priorities = {0, 1, 3}
INVARIANTS TransferExact OwnersKnown OneMemory WordRamPartition
CHECK_DEADLOCK FALSE

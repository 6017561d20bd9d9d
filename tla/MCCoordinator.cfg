CONSTANTS
  Programs <- MCPrograms
  Numer = 5
  Denom = 3
  Poll = 6
  TimerPeriod = 7
  LinePeriod = 11
  IrqCost = 2
  WaitLimit = 6
  FaultTimes = {0, 17}
  Masters = {TRUE, FALSE}
  Slices = {2, 7}
  MaxClock = 24
SPECIFICATION Spec
INVARIANTS BatchExact InOrder
CHECK_DEADLOCK FALSE

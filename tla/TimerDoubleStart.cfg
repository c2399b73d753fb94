CONSTANTS
  t1 = t1
  t2 = t2
  t3 = t3
  Timers <- TwoTimers
  MaxDelay = 2
  MaxBusy = 1
  ClockModulus = 14
  MayStartTwice = TRUE
SPECIFICATION TimersSpec

INVARIANTS DoubleStartIsCaught
CHECK_DEADLOCK FALSE

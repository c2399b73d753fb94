CONSTANTS
  t1 = t1
  t2 = t2
  t3 = t3
  Timers <- ThreeTimers
  MaxDelay = 2
  MaxBusy = 2
  ClockModulus = 18
  MayStartTwice = FALSE
SPECIFICATION TimersFairSpec

INVARIANTS FirstIsDueFirst
PROPERTIES FiresOnTime TimerFires LoopReachesDataSources

CONSTANTS
  Loop = Loop
  Nobody = Nobody
  NoRegistration = NoRegistration
  audio = audio
  console = console
  r1 = r1
  r2 = r2
  Clients <- TwoClients
  Registrations <- TwoRegistrations
  RUN_LOOP_QUEUE_LENGTH = 2
  MaxPosts = 3
  MayExit = TRUE
SPECIFICATION FairSpec

INVARIANTS EveryItemHasAHandler WaitsOnlyWhenDrained HandlersRunUnlocked FunctionsInOrder
PROPERTIES ItemsAreHandled FunctionsAreCalled
CHECK_DEADLOCK FALSE

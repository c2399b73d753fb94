CONSTANTS
  Loop = Loop
  Nobody = Nobody
  NoRegistration = NoRegistration
  audio = audio
  transport = transport
  r1 = r1
  Clients <- TwoClients
  Registrations = {r1}
  RUN_LOOP_QUEUE_LENGTH = 2
  MaxPosts = 3
  MayExit = TRUE
  Chars = {"nul", "a", "b"}
  Nul = "nul"
  Input <- TwoKeys
SPECIFICATION ConsoleFairSpec

INVARIANTS
  EveryItemHasAHandler WaitsOnlyWhenDrained HandlersRunUnlocked FunctionsInOrder
  HandledInOrder
PROPERTIES ItemsAreHandled FunctionsAreCalled TypedIsHandled
CHECK_DEADLOCK FALSE

CONSTANTS
  Loop = Loop
  Nobody = Nobody
  NoRegistration = NoRegistration
  audio = audio
  console = console
  r1 = r1
  r2 = r2
  Clients <- OneClient
  Registrations <- TwoRegistrations
  RUN_LOOP_QUEUE_LENGTH = 2
  MaxPosts = 1
  MayExit = TRUE
SPECIFICATION FairSpec

PROPERTIES ExitEndsTheLoop
CHECK_DEADLOCK FALSE

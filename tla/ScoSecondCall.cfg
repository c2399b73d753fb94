CONSTANTS
  phone = phone
  laptop = laptop
  NoLink = NoLink
  Links <- BothLinks
  ScoOverHci = TRUE
  ScoTotal = 2
  Prebuffer <- Prebuffers
  PacketSize <- Sizes
  DmaSize = 2
  InSize = 5
  MaxUp = 2
  MaxCalls = 2
SPECIFICATION Spec

INVARIANTS NeverAsserts
CHECK_DEADLOCK FALSE

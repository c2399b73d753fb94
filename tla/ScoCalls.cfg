CONSTANTS
  phone = phone
  laptop = laptop
  NoLink = NoLink
  Links <- BothLinks
  ScoOverHci = TRUE
  ScoTotal = 2
  Prebuffer <- Prebuffers
  PacketSize <- Sizes
  DmaSize = 2
  InSize = 5
  MaxUp = 1
  MaxCalls = 3
SPECIFICATION Spec

INVARIANTS AudioFollowsCall AudioOfThisCallOnly CallKeepsSending
PROPERTIES ControllerNotOverrun PlaybackResumesBuffered

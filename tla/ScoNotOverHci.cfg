CONSTANTS
  phone = phone
  laptop = laptop
  NoLink = NoLink
  Links <- BothLinks
  ScoOverHci = FALSE
  ScoTotal = 2
  Prebuffer <- Prebuffers
  PacketSize <- Sizes
  DmaSize = 2
  InSize = 5
  MaxUp = 1
  MaxCalls = 1
SPECIFICATION FairSpec

PROPERTIES SpeechIsSent

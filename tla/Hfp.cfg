CONSTANTS
  HfCodecs <- BothCodecs
  EscoUsable = TRUE
  HfFeatures <- DemoFeatures
  AgFeatureSets <- FullOrBare
  AgCodecs <- BothCodecs
  AgErrors <- SomeErrors
  Calls <- LinkCalls
  EarlyCalls = FALSE
  MaxConnects = 2
  MaxCalls = 1
  MaxCodecs = 2
  MaxOffers = 1
  MaxDrops = 1
SPECIFICATION FairSpec
INVARIANTS HandleIsLive AnswerIsComing
PROPERTIES MsbcOnlyIfAgreed SlcCompletes SuggestionAnswered ReleaseAudioDone

CONSTANTS
  HfCodecs <- BothCodecs
  EscoUsable = TRUE
  HfFeatures <- DemoFeatures
  AgFeatureSets <- FullOrBare
  AgCodecs <- BothCodecs
  AgErrors <- SomeErrors
  Calls <- LinkCalls
  EarlyCalls = FALSE
  MaxConnects = 1
  MaxCalls = 1
  MaxCodecs = 0
  MaxOffers = 1
  MaxDrops = 1
SPECIFICATION Spec
INVARIANT AudioEndIsReported

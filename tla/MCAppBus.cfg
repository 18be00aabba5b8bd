SPECIFICATION Spec
CONSTANTS
  wifi = wifi
  asr = asr
  Main = main
  ToAll = all
  Apps <- MCApps
  Traffic <- MCTraffic
  MaxSends = 2
  MaxLives = 2
  MallocFails = TRUE
INVARIANTS TypeOK NothingVanishes NoDeliveryToFreedObject SameOrderForAll
PROPERTIES KeepsPromise
CHECK_DEADLOCK FALSE

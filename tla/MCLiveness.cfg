SPECIFICATION LiveSpec
CONSTANTS
  wifi = wifi
  asr = asr
  Main = main
  ToAll = all
  Apps <- MCApps
  Traffic <- MCTraffic
  MaxSends = 2
  MaxLives = 1
  MallocFails = FALSE
  Nets = {home}
  None = none
  Bytes = {0, 255}
PROPERTIES
  EventuallyTaken
  ExitEndsService
  WifiFindsItsWay
  MakerDecides
CHECK_DEADLOCK FALSE

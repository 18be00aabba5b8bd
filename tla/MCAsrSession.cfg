SPECIFICATION FairSpec
CONSTANTS
  MaxSessions = 2
  MaxFrames = 2
  MaxWifi = 1
  FrameMs = 400
  MallocFails = TRUE
INVARIANTS TypeOK RequestFindsObject SpeechStaysInSession AnswerIsToLastQuestion
PROPERTY QueueDrains
CHECK_DEADLOCK FALSE

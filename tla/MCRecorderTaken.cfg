SPECIFICATION RecFairSpec
CONSTANTS
    QueueSize = 2
    MaxFlame = 3
    MaxSpeech = 1
    MaxPresses = 1
    MaxOthers = 1
PROPERTY TakenIsNoticed
CHECK_DEADLOCK FALSE

SPECIFICATION RecFairSpec
CONSTANTS
    QueueSize = 2
    MaxFlame = 3
    MaxSpeech = 2
    MaxPresses = 2
    MaxOthers = 1
INVARIANTS
    RecTypeOK
    SpeechArrivesWhole
    MicrophoneIsOff
PROPERTY StopIsObeyed
CHECK_DEADLOCK FALSE

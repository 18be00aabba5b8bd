SPECIFICATION Spec
CONSTANTS
  MaxSessions = 2
  MaxFrames = 2
  MaxWifi = 0
  FrameMs = 400
  MallocFails = FALSE
INVARIANT SerialNumberIdentifies
CHECK_DEADLOCK FALSE

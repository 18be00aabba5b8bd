SPECIFICATION ServicesSpec
CONSTANTS
  Size = 4
  HeaderSize = 2
  DataSizes = {1, 3, 4}
  MaxChunks = 5
  WriterFirst = FALSE
  Values = {v1, v2}
  Default = default
  Torn = torn
  NoMessage = none
  Descriptors = {1, 2}
  INVALID_SOCK = no_socket
  Zero = 0
  CloudAddresses = 2
  MaxAddresses = 1
  MaxPackets = 2
  MaxReads = 2
  MAX_RETRY_SEND_TIMES = 3
  MAX_RETRY_RECV_TIMES = 2
  MaxLen = 5
  BodyLen = 5
  ChunkSizes = {1, 4}
  Hosts = {"media"}
  RESUME_COUNT_MAX = 1
  REDIRECTION_MAX = 1
  PAGE_SIZE = 4
  OTA_UPGRADE_AREA_SIZE = 8
  OtaHeader = 2
  MaxImage = 9
  MaxFailures = 2
  PushHeader = 3
  PushBody = 2
  PushQueue = 1
  MaxSent = 2
  FRAME_SIZE = 6
  MIN_ID3V2_LENGTH = 1
  WAV_HEADER = 2
  VOICE_FRAME = 3
  UrlPieces = {1, 3}
  Offered <- MCOffered
  QueueMax = 2
  MaxMedia = 2
  MaxCuts = 2
  SongHeader = 7
  Samples <- MCSamples
  FileLen = 21
  MIN_LENGTH = 3
  FIRST_LENGTH = 2
  PieceSizes = {1, 2, 3}
  SongPositions = {2, 8, 9, 11, 17}
  SongCuts = 3
  MaxMemos = 3
  MEMO_EVENT_MAX = 2
  MaxTimers = 2
  MaxTime = 1
  MaxStarts = 1
  ToyQueue = 1
  ToyNumbers = 1
  ToyOwed = 2
  MaxLinks = 4
  FallKeys = {"talk"}
  LongKeys = {"up", "bt"}
  Readings = 5
  Levels = {0, 609, 610, 700}
  Low = 610
  low_power_max_cnt = 5
  AlertTimes = 300
  Delay = 30
  MIN_VOLUME = 1
  DEFAULT_VOLUME = 2
  MAX_VOLUME = 4
  UNIT_VOLUME = 2
  MaxChanges = 2
  CodecMedia = 2
  EventMax = 2
  ProgressTime = 3
  Posters = {"a", "b", "c"}
  LoopQueue = 2
INVARIANTS
  ServicesTypeOK
  BytesInOrder
  WakeupIsOwed
  ParametersAreKept
  WhatWasTakenIsGivenBack
  AnswersAreTrue
  ChildIsServed
CHECK_DEADLOCK FALSE

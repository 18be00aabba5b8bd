SPECIFICATION FairSpec
CONSTANTS
  Size = 4
  HeaderSize = 2
  DataSizes = {1, 3, 4}
  MaxChunks = 5
  WriterFirst = TRUE
PROPERTY EnoughDataIsRead
CHECK_DEADLOCK FALSE

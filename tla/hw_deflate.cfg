SPECIFICATION HSpec
CONSTANTS
  FifoSize = 24
  HeaderLimit = 1
  Formats = {"GZIP"}
  Headers <- OneHeader
  MaxIn = 3
  OutSizes = {4, 40}
  MaxOut = 15
  MaxObits = 8
  OBytes = {2}
  SkipLastDict = FALSE
  LateDict = FALSE
  IbufSizes = {0, 2}
  PageSize = 48
  Modes = {"NO", "SYNC", "FINISH"}
INVARIANTS
  BytesOnce
  FlushReaches
PROPERTIES
  FinishEnds

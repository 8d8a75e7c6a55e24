SPECIFICATION Spec
CONSTANTS
  FifoSize = 48
  HeaderLimit = 32
  Formats = {"DEFL", "GZIP", "ZLIB"}
  Headers <- MCHeaders
  MaxIn = 2
  OutSizes = {5, 60}
  MaxOut = 480
  MaxObits = 248
  OBytes = {2, 90}
  SkipLastDict = TRUE
  LateDict = FALSE
INVARIANTS
  EndIsReached
  InOrder
  MarkerBits
  DictCurrent

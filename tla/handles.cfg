SPECIFICATION Spec
CONSTANTS
  Threads = {t1, t2}
  Streams = {s1, s2}
  None = None
  Cards <- CardsOf
  Types = {"GENWQE", "CAPI"}
  Caching = {TRUE, FALSE}
  Flats <- AllOrNone
  Buffered <- AllOrNone
  Handles = {1, 2}
  Pieces = {1, 2, 3, 4, 5, 6}
  Fits <- SizeClasses
  MaxOpens = 2
  CopyFails = {"workspace", "open", "ibuf", "obuf"}
  RetypeCached = FALSE
SYMMETRY Symmetric
CHECK_DEADLOCK FALSE
INVARIANTS
  CardsOwned
  MemorySound

SPECIFICATION Spec
CONSTANTS
  Streams = {s1, s2}
  Inflating = {s1}
  Apart = TRUE
  Ids = {1, 2}
  None = None
  Formats = {"raw", "gzip"}
  Sizes = {0, 1, 2}
  zlib_inflate_threshold = 2
  SwLibs = {"old", "full"}
  SwFails = {"init"}
INVARIANTS
  StreamKept
  Owned

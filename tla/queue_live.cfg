SPECIFICATION FairSpec
CONSTANTS
  Threads = {t1, t2}
  NoThread = NoThread
  NumDdcbs = 1
  MaxChain = 2
  SeqMod = 2
  StartSeq = 1
  PollingModes = {TRUE, FALSE}
  Faults = {"TIMEOUT", "LOST_IRQ", "RESERVED"}
PROPERTIES
  ExecuteReturns

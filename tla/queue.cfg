SPECIFICATION Spec
CONSTANTS
  Threads = {t1, t2}
  NoThread = NoThread
  NumDdcbs = 2
  MaxChain = 2
  SeqMod = 4
  StartSeq = 3
  PollingModes = {TRUE, FALSE}
  Faults = {"TIMEOUT", "SELECTFAIL"}
SYMMETRY ThreadSymmetry
INVARIANTS
  TypeOK
  RingConsistent
  NoOverwrite
  WakeupOwed
  ReturnedChainPosted
  AnswersAgree
PROPERTIES
  ImplementsService

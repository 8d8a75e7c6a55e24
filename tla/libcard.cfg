SPECIFICATION FairSpec
CONSTANTS
  c1 = c1
  c2 = c2
  h1 = h1
  h2 = h2
  Cards = {c1, c2}
  Handles = {h1, h2}
  Fds = {0, 1, 2}
  Chain = 2
  MaxFaults = 2
  Callers = {h1}
  OpensAs <- MixedHandles
  None = None
INVARIANTS
  ListConsistent
  ChainOnce
PROPERTIES
  HandlesFreed
  WorkingCardIsUsed
\* After the destructor nothing happens.
CHECK_DEADLOCK FALSE

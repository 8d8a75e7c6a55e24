SPECIFICATION FairSpec
CONSTANTS
  Handles = {h1, h2}
  None = None
  NumCards = 3
  Sites <- MCSites
INVARIANTS
  ContextsShared
  CommandsServed
  ExitFreesAfus
PROPERTIES
  CallsReturn
\* The process ends with its destructor.
CHECK_DEADLOCK FALSE

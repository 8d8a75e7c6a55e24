SPECIFICATION Spec
CONSTANTS
  t1 = t1
  t2 = t2
  Tools = {t1, t2}
  Ref <- MCRef
  Version <- MCVersion
  Commands <- MCCommands
  Starts <- MCStarts
  ImageFile = "rbf"
  NewImage <- MCNewImage
  CardType = "GenWQE5-A7"
  card_types <- MCcard_types
  MaxRuns = 3
  MaxFaults = 1
  None = None
INVARIANTS
  SuccessIsTrue
  FlashIsWhole
  ConversionsAgree
PROPERTIES
  ToolsEnd
\* The bounds end the runs.
CHECK_DEADLOCK FALSE

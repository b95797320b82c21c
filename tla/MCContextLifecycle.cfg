SPECIFICATION Spec
CONSTANTS
  Hosts = {"codex", "claude"}
  Judgments = {"keep", "omit"}
  Block <- TwoBlocks
  Use <- OneUse
  MaxInputs = 2
  MaxPublications = 3
  MaxEvents = 3
  MaxRequests = 1
  MaxChoices = 1
INVARIANTS
  KeepProtects
  ChangedAsJudged
PROPERTIES
  SelectionRefined
  RequestEnds
CHECK_DEADLOCK FALSE

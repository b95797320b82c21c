SPECIFICATION Spec
CONSTANTS
  MaxInputs = 2
  MaxRevisions = 2
  MaxDefinitions = 2
  MaxContexts = 1
  MaxChanges = 3
  MaxCandidates = 2
  MaxStops = 1
  Text = {"claim", "reworded", "broken", "report"}
  Drafts = {"claim", "report"}
  Times = {1}
  Contents = {1, 2}
  Rejections = {{}, {1}}
INVARIANT QuietIsReviewed
INVARIANT ExplanationCovered
PROPERTY AddonHearsThisStop
CHECK_DEADLOCK FALSE

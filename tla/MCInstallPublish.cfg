CONSTANTS
  NTargets = 2
  v1 = v1
  v2 = v2
  Links = {}
  Trees = {v1, v2}
  None = None
  Partial = Partial
  Unreadable = Unreadable
  MaxTx = 2
  Keep = 1
  MaxCrashes = 1
  MaxFaults = 2
  MaxEdits = 1
  MaxTroubles = 3
SPECIFICATION MCSpec
INVARIANT OriginalsKept
PROPERTY AllOrNothing
PROPERTY EventuallyFinished

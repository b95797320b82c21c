CONSTANTS
  NTargets = 2
  Links = {l1}
  Trees = {v1}
  None = None
  Partial = Partial
  Unreadable = Unreadable
  MaxTx = 2
  Keep = 1
  MaxCrashes = 1
  MaxFaults = 0
  MaxEdits = 1
  Code <- MCCode
  MaxServiceFaults = 2
  Runtime = 1
SPECIFICATION GatewaySpec
INVARIANT RunsInstalledCode
INVARIANT ServiceComesBack
PROPERTY UnfinishedStay
PROPERTY ForeignKept

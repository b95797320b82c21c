CONSTANTS
  Missing = Missing
  Edited = Edited
  None = None
  Other = Other
  MaxOps = 3
  MaxFaults = 3
  MaxEdits = 2
  MaxCrashes = 1
SPECIFICATION Spec
INVARIANT NeverStranded
INVARIANT ProviderServed
PROPERTY EditsKept
CHECK_DEADLOCK FALSE

CONSTANTS
  Proc = {p1, p2, p3}
  Gateway = {p3}
  NoLock = NoLock
  LongCommands = TRUE
SPECIFICATION FairLockSpec
INVARIANT ExclusionUnlessRobbed
PROPERTY ReleaseNeverRobsFirst
PROPERTY AcquireEnds

CONSTANTS
  Sub = {s1, s2, s3}
  s1 = s1
  s2 = s2
  s3 = s3
  Text = {t1, t2}
  t1 = t1
  t2 = t2
  Writer = {w1}
  Hook = {h1, h2}
  Errors = {e1}
  Old = Old
  None = None
  MaxRevision = 7
  NoticeLimit = 4
  Hosts <- MCHosts
SPECIFICATION MCSpec
INVARIANT RowsOnce
INVARIANT SupersededByHuman
INVARIANT NoLostUpdate
INVARIANT RouteIsCurrent
INVARIANT NoticeOnce
PROPERTY AuthorityRefined
CONSTRAINT Bound

CONSTANTS
  c1 = c1  c2 = c2  a1 = a1  r1 = r1  u1 = u1  u2 = u2
  start = start  stop = stop  ask = ask
  Event = {start, stop, ask}
  Followable = {start, stop}
  Core = {c1, c2}
  Addon = {a1}
  Retired = {r1}
  User = {u1, u2}
  Version = {1, 2}
  Home <- MCHome
  CoreOrder <- MCOrder
  InitialSettings <- MCSettings
  MaxCommands = 2
  MaxEdits = 2
  MaxFaults = 2
SPECIFICATION Spec
CHECK_DEADLOCK FALSE
INVARIANT TrustNeverGained
PROPERTY UserHandlersKept
PROPERTY TrustFollows

CONSTANTS
  p1 = p1  p2 = p2
  claude = claude  codex_ = codex_
  w1 = w1  w2 = w2  a = a
  Host = {claude, codex_}
  Codex = codex_
  Proc = {p1, p2}
  Checkout = {w1, w2}
  UserPath = {a}
  Unset = Unset
  None = None
  InitialPaths = {Unset, a}
  InitialSettings = {"missing", "off"}
  UserHooks = FALSE
  MaxCommands = 3
  MaxEdits = 1
  MaxDeaths = 1
SPECIFICATION Spec
SYMMETRY Symmetry
CHECK_DEADLOCK FALSE
INVARIANT HooksServed
INVARIANT UserWorkKept
PROPERTY PathGoesBack
PROPERTY SettingsGoBack

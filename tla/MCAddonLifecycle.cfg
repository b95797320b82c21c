SPECIFICATION Spec
CONSTANTS
  a1 = a1
  a2 = a2
  skill1 = skill1
  skill2 = skill2
  command = command
  None = None
  Addon = {a1, a2}
  Skill <- MCSkill
  Extra <- MCExtra
  Legacy <- MCLegacy
  Versions = 2
  Linked = FALSE
  MaxCommands = 3
  MaxEdits = 2
  MaxDeaths = 1
INVARIANT RemovedStaysGone
PROPERTY UserFilesKept
PROPERTY NothingLeft
CHECK_DEADLOCK FALSE

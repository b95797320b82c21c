CONSTANTS
  Proc = {p1, p2, p3}
  Newline = Newline
  NoFile = NoFile
  NoOne = NoOne
  Logs <- AllLogs
SPECIFICATION FairLogSpec
INVARIANT OneWriter
INVARIANT NewestKept
PROPERTY AppendEnds

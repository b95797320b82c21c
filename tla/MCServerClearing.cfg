SPECIFICATION ClearingSpec
CONSTANTS
  Name = {a, b, c}
  MaxCalls = 4
SYMMETRY Tools3
INVARIANT ClearsOnlyJudged

SPECIFICATION Spec
CONSTANTS
  Fetches = {f1, f2}
  MaxTraces = 2
  Builds <- AllBuilds
INVARIANTS
  HighestRankKept

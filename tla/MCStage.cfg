SPECIFICATION StageSpec
CONSTANTS
  a = a
  b = b
  Items <- TwoItems
  Commands <- Either
INVARIANTS
  DoneIsWhole
PROPERTIES
  WholeIsKept

SPECIFICATION LowerSpec
CONSTANTS
  x = x
  y = y
  d = d
  None = None
  Half = 4
  Blocks <- ThreeBlocks
  Default = d
  Unreachables <- Either
INVARIANTS
  SameTargets
  PhisMatch
SYMMETRY XY

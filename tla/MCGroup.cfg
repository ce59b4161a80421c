SPECIFICATION GroupSpec
CONSTANTS
  g1 = g1
  g2 = g2
  g3 = g3
  o1 = o1
  o2 = o2
  Old = Old
  Goals <- ThreeGoals
  Objects <- TwoObjects
  Marked <- IsTop
  BuildLogs <- Logs
  Compiles <- SomeMade
  Earlier <- TheOthers
INVARIANTS
  ModulesWhole
  PartialForGood
  NothingStale
  ModulesExist
PROPERTIES
  EndsUnlessCyclic

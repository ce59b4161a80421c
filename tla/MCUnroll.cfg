SPECIFICATION Spec
CONSTANTS
  Null = Null
  MaxSuccs = 2
  MaxExtra = 3
  StackLimit = 6
  UnrollLimit = 2
INVARIANTS
  LoopWaysWithin
PROPERTIES
  TraceSetImplemented

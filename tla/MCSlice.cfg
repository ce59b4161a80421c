SPECIFICATION LinkSpec
CONSTANTS
  Programs <- MCPrograms
  Blocks <- MCBlocks
  EntryBlock = 1
  Values <- MCValues
  SuccOf <- MCSucc
  HostOf <- MCHost
  TermOf <- MCTerm
  OpsOf <- MCOps
  UsersOf <- MCUsers
  RootsOf <- MCRoots
  UntraceableOf <- MCUntraceable
  FetchOf <- MCFetch
  Null = Null
  Unseen = Unseen
INVARIANTS
  TypeOK
  AbortsKnown
  CallsFormPath
  AnswerIsReal
  DecidingBranchesKept
  OneWayOut
  SliceClosed
  SliceHosted
  LinksAreControlFlow
  OnSomeTrace
PROPERTIES
  EachRoundAddsABranch

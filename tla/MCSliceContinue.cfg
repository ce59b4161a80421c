SPECIFICATION LinkSpec
CONSTANTS
  Programs <- ContinueLoops
  Blocks <- MCBlocks
  EntryBlock = 1
  Values <- MCValues
  SuccOf <- MCSucc
  HostOf <- MCHost
  TermOf <- MCTerm
  OpsOf <- MCOps
  UsersOf <- MCUsers
  RootsOf <- MCRoots
  UntraceableOf <- MCUntraceable
  FetchOf <- MCFetch
  Null = Null
  Unseen = Unseen
INVARIANTS
  DecidingBranchesKept

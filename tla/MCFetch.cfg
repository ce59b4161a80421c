SPECIFICATION EvalSpec
CONSTANTS
  Programs <- FetchPrograms
  Blocks <- MCBlocks
  EntryBlock = 1
  Values <- FetchValues
  SuccOf <- FetchSucc
  HostOf <- FetchHost
  TermOf <- MCTerm
  OpsOf <- FetchOps
  UsersOf <- FetchUsers
  RootsOf <- FetchRoots
  UntraceableOf <- FetchUntraceable
  FetchOf <- MCFetch
  OrderOf <- FetchOrder
  KindOf <- FetchKind
  ArgsOf <- FetchArgs
  IncomingOf <- FetchIncoming
  FetchesOf <- Fetches
  SrcOf <- FetchSrc
  LenOf <- FetchLen
  StackLimit = 6
  UnrollLimit = 8
  Null = Null
  Unseen = Unseen
INVARIANTS
  SliceStaysReducible
  TracesReachFetch
  GraphBuilt
  PhiTakesEdge
  SidesAreReal
  StoresKept
PROPERTIES
  AnalysisEnds

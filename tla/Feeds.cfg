SPECIFICATION FairFeedsSpec
CONSTANTS
  EventLedger <- SparseLedgers
  FirstLedger = 1
  LastLedger = 5
  PageLimit = 2
  BackfillLimit = 4
  DedupWindow = 6
  MaxFailures = 2
  Nodes <- SomeNodes
  RpcFails = TRUE
  None = None
  Listener = {l1, l2, l3}
  NoListener = none
  FeedStream = {f1, f2}
  NoStream = none
  CliffTime = 1
  MaxFeedClock = 1
  ReadKey = {k1, k2}
  NoKey = none
  HookPageLimit = 1
  Rows = 3
  MaxVersion = 1
  MaxRequests = 2
  MutKey = {s1, s2}
  NoMutKey = none
  Receiver = {r1, r2}
  NoReceiver = none
  MaxMutations = 2
  ChunkTotal = 2
  PayloadMax = 4
  LatestTime = 2
  HistorySizes = {1, 2}
INVARIANTS
  DeliveredExactly
  NobodyLeftPolling
  ShownAsAsked
  MutationsTruthful
  PagesExact
PROPERTIES
  SilentAfterUnsubscribe
  PollDelivers
\* A subscription that is over has nothing left to do.
CHECK_DEADLOCK FALSE

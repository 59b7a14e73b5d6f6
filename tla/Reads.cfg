SPECIFICATION FairReadsSpec
CONSTANTS
  Sub = {u1, u2}
  Socket = {k1, k2, k3}
  MaxReconnectAttempts = 2
  Heartbeat = TRUE
  ConstructorThrows = {u1}
  None = None
  ReaderCount = 3
  Ttl = 2
  MaxVersion = 1
  MaxClock = 3
  MaxClears = 1
  Operation = {o1, o2}
  AskCount = 3
  StatsCalls = 1
  FeeTtl = 2
  MinRefetchInterval = 1
  FeeClock = 3
  MemoKey = {m1, m2, m3}
  MemoSize = 2
  MemoTtl = 1
  MemoClock = 2
  MaxUses = 4
  MaxRate = 2
  MaxTime = 5
  MaxItems = 4
  WalkLimit = 2
  ListCap = 3
  WalkPages = 3
  StreamId = {s1, s2, s3}
  MaxIds = 4
  Lines = 4
INVARIANTS
  TransportExact
  NothingLeftBehind
  CachesHonest
  EstimateAge
  MemoExact
  PayoutExact
  ReadWhole
  QueryTidy
  LinesExact
PROPERTIES
  SubscriptionReopens
\* Once every subscription is over nothing is left to do.
CHECK_DEADLOCK FALSE

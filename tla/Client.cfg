SPECIFICATION FairClientSpec
CONSTANTS
  BreakerCall = {b1, b2}
  ProxyCall = {q1, q2}
  BreakerThreshold = 2
  ProxyThreshold = 3
  MaxRetries = 2
  CooldownTicks = 2
  Adapter = {x1, x2}
  NoAdapter = none
  KeypairAdapter = keypair
  NotBuilt = unbuilt
  Topic = {t1, t2, t3}
  NoSession = none
  MaxPairingRetries = 1
  MaxConnects = 3
  Network = {n1, n2}
  Account = {a1, a2}
  Passphrase = {p1, p2}
  NoNetwork = none
  NoAccount = none
  KeyFetch = {k1, k2}
  Entry = {e1, e2}
  ScalarWidth = 2
  MaxAmount = 2
  MaxStart = 1
  MinDuration = 2
  MaxGrains = 6
  StroopGrains = 1
  UnitGrains = 3
  TokenGrains = 6
  MaxWhole = 1
  MaxPlaces = 2
  MaxDecimals = 2
  MaxDuration = 25
  Width = 2
  MaxWraps = 5
INVARIANTS
  CountMatchesState
  ListenersKnow
  WalletFollowed
  SignaturesAsAsked
  
  AmountsExact
  MeaningKept
PROPERTIES
  Recovers
\* A call that is made ends, and the application may stop there.
CHECK_DEADLOCK FALSE

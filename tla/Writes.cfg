SPECIFICATION FairWritesSpec
CONSTANTS
  OpCount = 3
  MaxPollAttempts = 3
  MaxRounds = 3
  Wallet = {w1, w2}
  NoWallet = none
  ItemCount = 2
  MaxAttempts = 2
  MaxForeign = 1
  Payload = {p1, p2, p3}
  Concurrency = 1
  MaxQueueSize = 2
  MaxSubmitRetries = 1
  Batch = {b1, b2, b3}
  MaxChunks = 2
  MaxOperations = 3
  NoSequence = none
  PoolSize = 4
  MaxLimit = 3
INVARIANTS
  OutcomesTruthful
  BatchExact
  AnswersTruthful
  SubmittedInOrder
  SlotsExact
  QueueServed
  PoolExact
PROPERTIES
  EverythingSettles
\* Calls end, and the application may stop calling.
CHECK_DEADLOCK FALSE

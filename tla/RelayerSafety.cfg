SPECIFICATION Spec
CONSTANTS
  Call = {c1, c2}
  Socket = {s1, s2, s3}
  MsgCount = 2
  MaxReconnectAttempts = 1
  MaxPendingMessages = 1
  ConstructorThrows = FALSE
  OfflineTtl = FALSE
  Heartbeat = TRUE
  UserOps = {"connect", "send", "disconnect", "destroy"}
  None = None
SYMMETRY Symmetry
INVARIANTS
  LockExclusion
  LockQueueExact
  NeverSilent
  SendTruthful
PROPERTIES
  ImplementsChannel
\* The application may stop calling and destroy() leaves nothing to do.
CHECK_DEADLOCK FALSE

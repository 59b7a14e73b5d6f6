SPECIFICATION FairSpec
CONSTANTS
  Call = {c1}
  Socket = {s1, s2}
  MsgCount = 0
  MaxReconnectAttempts = 1
  MaxPendingMessages = 1
  ConstructorThrows = TRUE
  OfflineTtl = FALSE
  Heartbeat = TRUE
  UserOps = {"connect"}
  None = None
PROPERTIES
  ConnectReturnsWithHeartbeat
\* The application may stop calling and destroy() leaves nothing to do.
CHECK_DEADLOCK FALSE

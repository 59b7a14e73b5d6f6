SPECIFICATION FairSpec
CONSTANTS
  Call = {c1, c2}
  Socket = {s1, s2}
  MsgCount = 1
  MaxReconnectAttempts = 1
  MaxPendingMessages = 1
  ConstructorThrows = TRUE
  OfflineTtl = FALSE
  Heartbeat = FALSE
  UserOps = {"connect", "send", "disconnect"}
  None = None
PROPERTIES
  CallsReturn
\* The application may stop calling and destroy() leaves nothing to do.
CHECK_DEADLOCK FALSE

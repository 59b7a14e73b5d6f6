SPECIFICATION Spec
CONSTANTS
  Call = {c1, c2}
  Socket = {s1, s2, s3}
  MsgCount = 0
  MaxReconnectAttempts = 1
  MaxPendingMessages = 1
  ConstructorThrows = FALSE
  OfflineTtl = FALSE
  Heartbeat = FALSE
  UserOps = {"connect"}
  None = None
SYMMETRY Symmetry
PROPERTIES
  ReconnectOnlyWhenDown
\* The application may stop calling and destroy() leaves nothing to do.
CHECK_DEADLOCK FALSE

SPECIFICATION Spec
CONSTANTS
  Call = {c1, c2}
  Socket = {s1, s2, s3}
  MsgCount = 3
  MaxReconnectAttempts = 2
  MaxPendingMessages = 2
  ConstructorThrows = FALSE
  OfflineTtl = TRUE
  Heartbeat = TRUE
  UserOps = {"connect", "send"}
  None = None
SYMMETRY Symmetry
INVARIANTS
  WireInOrder
\* The application may stop calling and destroy() leaves nothing to do.
CHECK_DEADLOCK FALSE

SPECIFICATION Spec
CONSTANTS
  EventLedger <- CrowdedLedgers
  FirstLedger = 1
  LastLedger = 4
  PageLimit = 2
  BackfillLimit = 4
  DedupWindow = 6
  MaxFailures = 2
  Nodes <- OldNode
  RpcFails = FALSE
  None = None
INVARIANTS
  GapsHealed
\* A subscription that is over has nothing left to do.
CHECK_DEADLOCK FALSE

SPECIFICATION FairSpec
CONSTANTS
  Requests = {r1}
  Boot = boot
  None = None
  LocalNonceTTL = 1
  PendingNonceTTL = 1
  GivenNonces = {0}
  MaxTime = 0
  MaxCount = 0
  MaxNonce = 2
PROPERTY PastNonceResets
CHECK_DEADLOCK FALSE

SPECIFICATION Spec
CONSTANTS
  Requests = {r1, r2}
  Boot = boot
  None = None
  LocalNonceTTL = 1
  PendingNonceTTL = 2
  GivenNonces = {}
  MaxTime = 1
  MaxCount = 1
  MaxNonce = 1
INVARIANT ConcurrentNoncesDiffer
CHECK_DEADLOCK FALSE

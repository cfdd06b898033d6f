SPECIFICATION HistorySpec
CONSTANTS
  Requests = {r1}
  Boot = boot
  None = None
  LocalNonceTTL = 2
  PendingNonceTTL = 1
  GivenNonces = {0, 1}
  MaxTime = 4
  MaxCount = 2
  MaxNonce = 2
INVARIANTS NoEarlyReuse ExpiredCacheForgotten DurableAtRest
CHECK_DEADLOCK FALSE

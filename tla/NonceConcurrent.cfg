SPECIFICATION Spec
CONSTANTS
  Requests = {r1, r2}
  Boot = boot
  None = None
  LocalNonceTTL = 1
  PendingNonceTTL = 1
  GivenNonces = {0}
  MaxTime = 2
  MaxCount = 1
  MaxNonce = 1
SYMMETRY Symmetry
INVARIANTS TypeOK LeadingWasSent NoSkippedNonce
CHECK_DEADLOCK FALSE

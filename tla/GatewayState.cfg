SPECIFICATION Spec
CONSTANTS
  Owners = {o1, o2, o3}
  None = None
  Undefined = Undefined
  Missing = Missing
  EmptyFile = EmptyFile
  Clients = {c1, c2, c3}
  PendingNonceTTL = 1
  MaxTime = 3
  MaxNonce = 3
INVARIANTS OwnedStaysOpen OpenIsOwned AddedWalletKept ListIsRight AcknowledgedKept NoncesIncrease
PROPERTY StepsMatch
CHECK_DEADLOCK FALSE

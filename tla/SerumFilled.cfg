SPECIFICATION Spec
CONSTANTS
  Owners = {o1}
  ClientIds = {k1}
  Signatures = {1, 2, 3, 4, 5, 6, 7, 8}
  BaseLotSize = 2
  None = None
  Creates = {c1}
  Cancels = {}
  Settles = {}
  Lookups = {l1}
  Sizes = {2}
  MaxCandidates = 1
  MaxTargets = 1
  MaxNumberOfRetries = 2
  Reads = {}
  Names = {m1, m2, m3}
  Allowed = {m1, m2}
  BatchSize = 2
  MaxRequests = 2
INVARIANTS FilledIsFound
CHECK_DEADLOCK FALSE

SPECIFICATION Spec
CONSTANTS
  None = None
  Slippages = {2, 10}
  Allowed = 5
  Prices = {96, 100, 104, 110}
  Limits = {100}
  MaxApprovals = 2
  TickSizes = {0, 1, 4, 10, 11}
  Spacing = 6
  MaxTick = 11
INVARIANTS
  ExecutedWithinLimit
  ExpectedHonoured
  SlippageAsAsked
  NoncesSettled
  ApprovalsSuffice
  RangeAsRequested
CHECK_DEADLOCK FALSE

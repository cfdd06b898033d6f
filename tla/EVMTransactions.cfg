SPECIFICATION FairSpec
CONSTANTS
  Buys = {tx}
  Sells = {}
  Approvals = {}
  Polls = {p1, p2, p3}
  None = None
INVARIANT TypeOK
PROPERTIES SuccessIsMined AnsweredIsGuessed StaleNullEnds

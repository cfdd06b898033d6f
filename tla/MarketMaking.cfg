SPECIFICATION FairSpec
CONSTANTS
  TickSize = 1
  Second = 2
  OrderIds = {o1, o2, o3, o4}
  NoId = NoId
  Prices = {10, 20}
  BaseFunds = 2
  QuoteFunds = 30
  MaxFills = 2
  OrderAmount = 2
  BidSpread = 1
  AskSpread = 1
  MaxRuns = 2
INVARIANTS TypeOK OwnOrdersTracked OneQuotePerSide QuotesDoNotCross
PROPERTY QuotesRefreshed

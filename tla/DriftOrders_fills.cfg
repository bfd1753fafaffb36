SPECIFICATION Spec
CONSTANTS
  ReservePrecision = 2
  RateRatio = 1
  Users = {u1, u2}
  Slots = 2
  Templates <- MCTemplates
  Changes <- MCChanges
  Openings <- MCOpenings
  Deposit = 13
  Bid = 9
  Mid = 10
  Ask = 11
  Prices = {8, 12}
  StepSize = 1
  MinOrderSize = 1
  MaxOI = 4
  FeeNum = 2
  RebateNum = 1
  FillerNum = 2
  FeeDen = 10
  FlatFee = 1
  MarginInitial = 6
  MarginMaintenance = 3
  MarginBuffer = 1
  MarginPrecision = 10
  OrderMargin = 1
  AuctionDuration = 1
  MarketExpiry = 1
  FundingRates <- MCFundingRates
  FundingPeriod = 1
  MaxNow = 1
  MaxOps = 3
INVARIANTS OrdersExact MarketExact
PROPERTIES FillsSound
CHECK_DEADLOCK FALSE
SYMMETRY Symmetric

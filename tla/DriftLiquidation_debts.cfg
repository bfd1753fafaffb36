SPECIFICATION Spec
CONSTANTS
  ReservePrecision = 100
  RateRatio = 10
  Scale = 100
  Rounding = 1
  Openings <- MCOpenings
  Perp <- MCPerp
  Token <- MCToken
  Buffer = 2
  OrderMargin = 1
  StepSize = 1
  TakerFee = 1
  InitialPct = 50
  Duration = 2
  Grace = 1
  FeePerSlot = 1
  SmallShortage = 5
  SmallPosition = 30
  SmallBorrow = 10
  SmallAsset = 2
  Takes = {8, 1000}
  Prices = {7, 9, 10}
  TokenPrices = {3, 5}
  MaxMoves = 2
  MaxSlot = 1
  MaxOps = 5
INVARIANTS BooksExact BankruptcySound
PROPERTIES MarginsSeparate
CHECK_DEADLOCK FALSE

SPECIFICATION Spec
CONSTANTS
  Scale = 10
  Year = 4
  Window = 4
  Segments <- MCSegments
  PricePrecision = 10
  ConcPrecision = 5
  MaxConc = 7
  RatioPrecision = 100
  MaxK = 200
  ReserveSlack = 3
  MaxKPriceChange = 1
  SpreadPerMargin = 2
  FeedPrice <- MCFeedPrice
  MinMarginRatio = 2
  MaxMarginRatio = 6
  HighLeverageMin = 1
  FeeToMargin = 5
  Weight = 10
  ImfLimit = 5
  Day = 1
  Hot = "hot"
  Admins = {"admin", "heir"}
  Openings <- MCOpenings
  NewSpots <- MCNewSpots
  NewPerps <- MCNewPerps
  FeeTiers <- MCFeeTiers
  Tried <- MCTried
  InsuranceMax <- MCInsuranceMax
  RevenueThreshold = 5
  FeePrecision = 30
  MaxNow = 3
  MaxOps = 2
INVARIANTS SettingsSound MarketsSound
PROPERTIES CallsBounded
CHECK_DEADLOCK FALSE

\* An exact-input swap that has one unit left at the first tick of an array.
SPECIFICATION Spec
CONSTANTS
  Q64 = 8
  U64Max = 1000
  FeeDenom = 8
  MinTick <- Negative3
  MaxTick = 3
  SqrtPrice <- Prices
  TickArraySize = 2
  TickSpacing = 1
  VolatilityScale = 2
  ReductionDenom = 2
  ControlDenom = 8
  MaxFeeRate = 5
  U32Max = 255
  FeeConfig <- NoFeeConfig
  PhaseMax = 3
  Growth = 4096
  ProtocolFeeRate = 2
  FundFeeRate = 1
  FeeOn = 0
  InitialPrices = {5}
  Positions = {p1}
  Ranges <- GapRanges
  Deltas = {12}
  Swaps <- GapSwaps
  Elapsed = {0}
  Orders <- GapOrders
  Statuses = {}
  MaxOps = 5
INVARIANTS LiquidityInRange
CHECK_DEADLOCK FALSE

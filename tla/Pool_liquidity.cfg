\* Two positions, swaps of all four kinds with the fee on the input, and an
\* administrator who limits what the pool accepts.
SPECIFICATION Spec
CONSTANTS
  Q64 = 64
  U64Max = 1000
  FeeDenom = 8
  MinTick <- Negative3
  MaxTick = 3
  SqrtPrice <- FinePrices
  TickArraySize = 4
  TickSpacing = 2
  VolatilityScale = 2
  ReductionDenom = 2
  ControlDenom = 8
  MaxFeeRate = 5
  U32Max = 255
  FeeConfig <- VolatileFee
  PhaseMax = 3
  Growth = 65536
  ProtocolFeeRate = 2
  FundFeeRate = 2
  FeeOn = 0
  InitialPrices = {64}
  Positions = {p1, p2}
  Ranges <- LiquidityRanges
  Deltas = {0, 12}
  Swaps <- LiquiditySwaps
  Elapsed = {0, 1, 2}
  Orders = {}
  Statuses <- LimitedStatuses
  MaxOps = 5
INVARIANTS LiquidityExact TicksFound VaultsCover VolatilityExact
PROPERTIES PriceOneWay
SYMMETRY PositionSymmetry
CHECK_DEADLOCK FALSE

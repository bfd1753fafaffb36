\* Swaps that name their input meet an order with one unit left, all of it fee.
SPECIFICATION Spec
CONSTANTS
  Q64 = 8
  U64Max = 1000
  FeeDenom = 8
  MinTick <- Negative3
  MaxTick = 3
  SqrtPrice <- Prices
  TickArraySize = 2
  TickSpacing = 1
  VolatilityScale = 2
  ReductionDenom = 2
  ControlDenom = 8
  MaxFeeRate = 5
  U32Max = 255
  FeeConfig <- NoFeeConfig
  PhaseMax = 3
  Growth = 4096
  ProtocolFeeRate = 2
  FundFeeRate = 1
  FeeOn = 1
  InitialPrices = {8}
  Positions = {p1}
  Ranges <- OneRange
  Deltas = {12}
  Swaps <- LeftoverSwaps
  Elapsed = {0}
  Orders <- LeftoverOrders
  Statuses = {}
  MaxOps = 5
INVARIANTS OnePartyUsedUp
CHECK_DEADLOCK FALSE

\* An exact-input swap with the fee on the output.
SPECIFICATION FairSpec
CONSTANTS
  Q64 = 8
  U64Max = 1000
  FeeDenom = 8
  MinTick <- Negative3
  MaxTick = 3
  SqrtPrice <- Prices
  TickArraySize = 2
  TickSpacing = 1
  VolatilityScale = 2
  ReductionDenom = 2
  ControlDenom = 8
  MaxFeeRate = 5
  U32Max = 255
  FeeConfig <- NoFeeConfig
  PhaseMax = 3
  Growth = 4096
  ProtocolFeeRate = 2
  FundFeeRate = 1
  FeeOn = 1
  InitialPrices = {8}
  Positions = {p1}
  Ranges <- OneRange
  Deltas = {12}
  Swaps <- ExactInput
  Elapsed = {0}
  Orders = {}
  Statuses = {}
  MaxOps = 4
PROPERTIES SwapTerminates
CHECK_DEADLOCK FALSE

\* Limit orders at ticks that also carry liquidity, at both ends of arrays; the fee
\* is on token 0, so on the input of some swaps and on the output of others.
SPECIFICATION FairSpec
CONSTANTS
  Q64 = 8
  U64Max = 1000
  FeeDenom = 8
  MinTick <- Negative3
  MaxTick = 3
  SqrtPrice <- Prices
  TickArraySize = 2
  TickSpacing = 1
  VolatilityScale = 2
  ReductionDenom = 2
  ControlDenom = 8
  MaxFeeRate = 5
  U32Max = 255
  FeeConfig <- NoFeeConfig
  PhaseMax = 3
  Growth = 4096
  ProtocolFeeRate = 2
  FundFeeRate = 1
  FeeOn = 1
  InitialPrices = {8}
  Positions = {p1}
  Ranges <- OrderRanges
  Deltas = {12}
  Swaps <- OrderSwaps
  Elapsed = {0}
  Orders <- RestingOrders
  Statuses = {}
  MaxOps = 5
INVARIANTS OnePartyDone LiquidityExact TicksFound VaultsCover
PROPERTIES SwapTerminates
CHECK_DEADLOCK FALSE

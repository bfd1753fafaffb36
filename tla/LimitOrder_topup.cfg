\* As LimitOrder_cohorts, with owners who also increase an order they emptied.
SPECIFICATION Spec
CONSTANTS
  Q64 = 64
  PriceLo = 64
  PriceHi = 64
  U64Max = 5
  PhaseMax = 2
  FeeDenom = 4
  FeeRates = {0}
  MaxOrders = 2
  MaxAmount = 1
  Statuses = {{}, {"LimitOrder"}, {"Swap"}, {"LimitOrder", "Swap"}}
  OtherTicks = TRUE
  TopUpEmptied = TRUE
INVARIANTS CountExact
CHECK_DEADLOCK FALSE

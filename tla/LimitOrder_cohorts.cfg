\* Two orders, both directions, three phases: every way cohorts can form, be
\* filled in part and be cancelled, with positions at another tick of the array
\* and an administrator who stops limit orders.
SPECIFICATION Spec
CONSTANTS
  Q64 = 64
  PriceLo = 80
  PriceHi = 81
  U64Max = 6
  PhaseMax = 2
  FeeDenom = 4
  FeeRates = {1}
  MaxOrders = 2
  MaxAmount = 2
  Statuses = {{"LimitOrder", "Swap"}, {"Swap"}}
  OtherTicks = TRUE
  TopUpEmptied = FALSE
INVARIANTS ClaimsCovered OrderShape NeverStranded TickExact
PROPERTIES CloseForfeitsDust FillsMonotone
CHECK_DEADLOCK FALSE

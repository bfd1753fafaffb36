\* Two traders, two prices, and a breaker that the guard and the authority arm
\* and release over four slots.
SPECIFICATION Spec
CONSTANTS
  Owners = {o1, o2}
  Collaterals = {2}
  Requests = {3}
  MarkPrices = {10, 12}
  MinCollateral = 2
  Bps = 10
  BaseFundingRate = 1
  FundingEpochSlots = 4
  MaxSlot = 4
  Vaults = {v1, v2}
  Elsewhere = elsewhere
  Payees = {elsewhere}
  MaxAgain = 1
  EpochSlots = 1
  OiThreshold = 7
  LiqThreshold = 2
  VelocityThreshold = 2
  U16Max = 2
  MaxTriggers = 2
INVARIANTS RecordsSound GuardHolds TriggerPossible
PROPERTIES CoolsDown
SYMMETRY TradersSymmetry
CHECK_DEADLOCK FALSE

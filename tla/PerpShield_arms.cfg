\* A guard call that measures a breach.
SPECIFICATION Spec
CONSTANTS
  Owners = {o1, o2}
  Collaterals = {2}
  Requests = {1, 3}
  MarkPrices = {10, 12}
  MinCollateral = 2
  Bps = 10
  BaseFundingRate = 1
  FundingEpochSlots = 4
  MaxSlot = 4
  Vaults = {v1, v2}
  Elsewhere = elsewhere
  Payees = {elsewhere}
  MaxAgain = 1
  EpochSlots = 1
  OiThreshold = 7
  LiqThreshold = 2
  VelocityThreshold = 2
  U16Max = 3
  MaxTriggers = 2
PROPERTIES BreachArms
SYMMETRY TradersSymmetry
CHECK_DEADLOCK FALSE

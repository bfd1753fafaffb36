\* Traders who close a position that they have closed already.  With
\* CollateralCovered as the invariant: traders whose deposit went elsewhere.
SPECIFICATION Spec
CONSTANTS
  Owners = {o1, o2}
  Collaterals = {2, 3}
  Requests = {2, 3}
  MarkPrices = {10, 12}
  MinCollateral = 2
  Bps = 10
  BaseFundingRate = 1
  FundingEpochSlots = 2
  MaxSlot = 5
  Vaults = {v1, v2}
  Elsewhere = elsewhere
  Payees = {elsewhere}
  MaxAgain = 1
  EpochSlots = 1
  OiThreshold = 7
  LiqThreshold = 2
  VelocityThreshold = 2
  U16Max = 3
  MaxTriggers = 2
INVARIANTS OpenInterestExact
SYMMETRY TradersSymmetry
CHECK_DEADLOCK FALSE

\* The shield of a pool over a ring of five observations that has wrapped or not,
\* and the two stand-alone programs.
SPECIFICATION Spec
CONSTANTS
  Q64 = 16
  Q32 = 4
  U64Max = 1000
  FeeDenom = 8
  OBSERVATION_NUM = 5
  UPDATE_DURATION = 2
  MinTick <- Negative4
  MaxTick = 4
  Bps = 10
  SqrtPrice <- Prices
  Liquidity = 24
  MinObservations = 3
  MinWindow = 2
  TaxWindow = 4
  Threshold = 2
  DefaultTax = 9
  Histories <- Some
  ArbConfigs <- SomeArbConfigs
  Taxes = {0}
  Swaps <- SomeSwaps
  Steps <- SomeSteps
  Purse = 4
  MaxOps = 5
  Pools = {p1, p2}
  Mints = {n1}
  MAX_LOCK_SLOTS = 3
  DEFAULT_MIN_LOCK_SLOTS = 2
  ShareDenom = 10
  MinTwapWindow = 2
  ShieldConfigs <- SomeShields
  ConfigUpdates <- SomeUpdates
  Locks = {0, 1, 4}
  SweepAmounts = {1, 4}
  VaultTokens = 6
  SlotSteps = {1, 3}
  MaxShieldOps = 6
  Wallets = {w1, w2}
  NftMints = {m1, m2}
  MaxSupply = 2
  MaxNftOps = 8
INVARIANTS ReferenceExact CorrectionSound TaxBacked ProgramsSound
CHECK_DEADLOCK FALSE

\* Two positions with nested ranges and a price that moves; a change of rate and period by
\* the funder or the administrator; totals that reach the largest amount.
SPECIFICATION Spec
CONSTANTS
  Q64 = 2
  Growth = 64
  U64Max = 5
  MinRewardPeriod = 2
  MaxRewardPeriod = 2
  IncreaseEmissionsPeriod = 2
  Positions = {p1, p2}
  Ranges <- Nested
  Deltas = {1}
  MaxLiquidity = 1
  TickRange = {0, 1}
  Times = {0, 2, 4}
  Rates = {1, 3}
  Statuses <- Limited
  MaxTime = 4
  MaxChanges = 1
INVARIANTS RewardsCovered
PROPERTIES EarnedExact
SYMMETRY PositionSymmetry
CHECK_DEADLOCK FALSE

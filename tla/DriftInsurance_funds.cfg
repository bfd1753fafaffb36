SPECIFICATION Spec
CONSTANTS
  Scale = 1000
  Year = 4
  Window = 4
  Segments <- MCSegments
  Stakers <- MCStakers
  Settings <- MCSettings
  Openings <- MCOpenings
  Amounts = {8, 50}
  EndsMatch = TRUE
  Precision = 1000
  MaxNow = 2
  MaxOps = 5
INVARIANTS FundExact
PROPERTIES StakersFair
CHECK_DEADLOCK FALSE

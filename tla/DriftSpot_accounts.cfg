SPECIFICATION Spec
CONSTANTS
  Scale = 1000
  Year = 4
  Window = 4
  Segments <- MCSegments
  Accounts <- MCAccounts
  Settings <- MCSettings
  Openings <- MCOpenings
  Amounts = {10, 20}
  EndsMatch = TRUE
  Prices = {4, 5, 7}
  MaxNow = 3
  MaxOps = 2
INVARIANTS BooksExact
PROPERTIES MarginKept EquityKept
CHECK_DEADLOCK FALSE

SPECIFICATION FeedSpec
CONSTANTS
  Ids = {1, 2, 3}
  Dates = {1, 2}
  Amounts = {1}
  Made <- MCMade
  PageSize = 1
  MaxWrites = 2
  MaxReads = 4
  Elsewhere = TRUE
CHECK_DEADLOCK FALSE
INVARIANTS SteadyRowsOnce WholeDays CaughtUp

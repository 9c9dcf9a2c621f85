SPECIFICATION FairSpec
CONSTANTS
  Attempts = {a1, a2, a3}
  Keys = {k1, k2}
  Requests <- MCRequests
  Rows <- MCRows
  RowOf <- MCRowOf
  NoRow = NoRow
  NoIntent = NoIntent
  NoClaim = NoClaim
  NoResult = NoResult
CHECK_DEADLOCK FALSE
INVARIANTS AtMostOnce AnswerIsTheEffect
PROPERTIES EveryAttemptEnds KeepsThePromise

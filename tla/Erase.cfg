SPECIFICATION EraseSpec
CONSTANTS
  Writers = {"w", "v"}
  Plans <- MCPlans
CHECK_DEADLOCK FALSE
INVARIANTS LeavesNothingHalf KeysAnswerForRows

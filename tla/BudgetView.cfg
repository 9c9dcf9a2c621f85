SPECIFICATION Spec
CONSTANTS
  c = c
  d = d
  Categories = {c, d}
  Pool = Pool
  Last = 3
  NoMonth = NoMonth
  Ids = {1, 2}
  Absent = Absent
  Given = {1, 3}
  Amounts <- MCAmounts
  Goals <- MCGoals
  MaxWrites = 3
CHECK_DEADLOCK FALSE
INVARIANTS SavesEvenly MoneyHasAJob
PROPERTIES PastKeepsItsNumbers

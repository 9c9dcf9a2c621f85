SPECIFICATION Spec
CONSTANTS
  Txs = {p1, p2}
  b1 = b1
  b2 = b2
  b3 = b3
  n1 = n1
  n2 = n2
  n3 = n3
  Budgets <- MCBudgets
  Names = {n1, n2, n3}
  Menu <- RaceMenu
  NoName = NoName
  NoBudget = NoBudget
  NoTx = NoTx
INVARIANTS NobodyFailsOnTheIndex ExactlyOneActive
PROPERTIES BookIsKept EveryoneIsAnswered

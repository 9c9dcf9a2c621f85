SPECIFICATION Spec
CONSTANTS
  Last = 3
  NoMonth = NoMonth
  Kinds = {Contribute, ByDate}
  ByDate = ByDate
  NoGoal = NoGoal
  Txs = {p1, p2}
  NoTx = NoTx
SYMMETRY Symmetry
INVARIANTS OneGoalRuns
PROPERTIES HistoryIsKept ClosedIsGone

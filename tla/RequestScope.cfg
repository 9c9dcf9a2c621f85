SPECIFICATION Spec
CONSTANTS
  Ops = {o1, o2, o3}
  Budgets = {b1, b2}
  NoBudget = NoBudget
  Failure = Failure
  NoLookup = NoLookup
  MaxMutations = 1
SYMMETRY Symmetric
CHECK_DEADLOCK FALSE
INVARIANTS OneBudget RolledBackNeverScopes InTheTransaction

SPECIFICATION Spec
CONSTANTS
  Txs = {p1, p2, p3}
  g = g
  h = h
  Groups = {g, h}
  Categories <- MCCategories
  Records <- MCRecords
  Menu <- HideMenu
  Seed <- FiledSeed
  Shown = Shown
  Pool = Pool
  None = None
CHECK_DEADLOCK FALSE
SYMMETRY Symmetry
INVARIANTS NoDeadlock
PROPERTIES MovesSpareTheHidden CategoryMarkersStayPut HidesWhatIsEmpty

SPECIFICATION FormSpec
CONSTANTS
  Desks = {"entry", "ledger", "month", "sweep", "worth", "name", "switch", "start"}
  MaxKey = 3
  MaxSends = 3
  MaxSaves = 2
  OneAtATime = TRUE
CHECK_DEADLOCK FALSE
INVARIANTS WritesOnce ToldIsDone
PROPERTIES FreshActions ClosesItsOwn

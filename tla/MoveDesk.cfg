SPECIFICATION DeskSpec
CONSTANTS
  Visited = {m1, m2}
  MaxKey = 2
  MaxSends = 2
  RetriesOnce = TRUE
  StaysPut = TRUE
INVARIANTS NoDoubleMove OneIntentPerKey
PROPERTIES FreshOpen Settles

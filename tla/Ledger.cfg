SPECIFICATION Spec
CONSTANTS
  Txs = {1, 2, 3}
  Accounts = {1, 2, 3}
  Entries <- MCEntries
  Fresh <- MCFresh
  Books <- MCBooks
  NoEntry = NoEntry
  Keep = Keep
  NoPair = NoPair
CHECK_DEADLOCK FALSE
INVARIANTS PairsAreMirrored ArchivedIsSettled NoDeadlock
PROPERTIES ReconcileSettles NothingLandsOnArchived OpeningIsFrozen

SPECIFICATION Spec
CONSTANTS
  Txs = {1, 2, 3}
  Accounts = {1, 2, 3}
  Entries <- MCEntries
  Fresh <- MCFresh
  Books <- StaleBooks
  NoEntry = NoEntry
  Keep = Keep
  NoPair = NoPair
CHECK_DEADLOCK FALSE
INVARIANTS ArchivedHoldsNothing

SPECIFICATION IndexerSpec
CONSTANTS
  PollIds = {1}
  TxEvents <- OnePollTxs
  MaxTxs = 3
  PAGE_LIMIT = 2
  Managers = {census}
  MaxRestarts = 1
INVARIANTS QueueIsNext NoPollForgotten
PROPERTIES IndexesLog EventuallyIndexed

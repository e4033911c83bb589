SPECIFICATION FairSpec
CONSTANTS
  Dirs = {root, d1, d2}
  Files = {f1}
  Root = root
  Names = {a, b}
  Bodies = {b1}
  Clients = {c1}
  Nobody = Nobody
  MaxPublished = 3
  StaleUpdates = FALSE
INVARIANTS StaleIsDirty TreeIsCommitted PathsFollowNames
PROPERTIES PulledAsCommitted TransactionsEnd

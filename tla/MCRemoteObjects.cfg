SPECIFICATION FairSpec
CONSTANTS
  commit = commit
  config = config
  Client = {c1, c2}
  Batches <- MCBatches
  Page = 1
  MaxChanges = 4
  MaxStops = 1
INVARIANTS
  KnownIsRight
  WholeVolumes
PROPERTY
  FollowsRemote
CHECK_DEADLOCK FALSE

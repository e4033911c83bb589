SPECIFICATION FairSpec
CONSTANTS
  f = f
  d = d
  e = e
  mine = mine
  Kind <- MCKind
  Refs <- MCRefs
  Own = {mine}
  MaxBatch = 2
  Windows = {1, 2}
  MaxFails = 1
  MaxMoves = 2
INVARIANTS
  SeenIsRegistered
  SyncedIsItself
  OnePullIsEnough
PROPERTY PullsAll

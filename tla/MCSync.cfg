SPECIFICATION FairSpec
CONSTANTS
  a = a
  b = b
  main = main
  dev = dev
  Replica = {a, b}
  Branch = {main, dev}
  Serves <- SameBranch
  MaxAttempts = 2
  MaxBatch = 1
  MaxTime = 2
  MaxEvents = 3
INVARIANTS
  HeadsAreBacked
  SyncedIsStored
  PushedIsPublished
PROPERTY
  Converges

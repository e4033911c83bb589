SPECIFICATION FairSpec
CONSTANTS
  Handle = {h1, h2}
  Inode = {i1, i2}
  Chunk = {c1}
  NoHandle = NoHandle
  Renames = TRUE
  Pushes = TRUE
  ReaperFails = FALSE
INVARIANTS
  RefCountExact
  ContentIsStored
PROPERTIES
  OnlyAbandonedChunksStay
  UnneededChunksGo

SPECIFICATION Spec
CONSTANTS
  Handle = {h1, h2}
  Inode = {i1, i2}
  Chunk = {c1, c2}
  NoHandle = NoHandle
  Renames = FALSE
  Pushes = FALSE
  ReaperFails = TRUE
SYMMETRY Symmetry
INVARIANTS
  HandleIsBacked
  NobodyElseWrites

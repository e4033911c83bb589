SPECIFICATION FilesSpec
CONSTANTS
  ChunkSize = 2
  Byte = {1, 2}
  MaxLen = 5
  MaxWrite = 2
  Id = {c1, c2}
  TableLen = 4
  MaxOff = 2
  Part = {"handle", "table"}
  Uses = {"sparse", "shrink", "extend", "end"}
CHECK_DEADLOCK FALSE
INVARIANTS
  GetReadsTheArray
  Canonical
  WritesReachTheBlob
  HandleSeesFile
  BufferCoversWrite

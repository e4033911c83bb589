SPECIFICATION ClientSpec
CONSTANTS
  root = root
  dir1 = dir1
  file1 = file1
  a = a
  b = b
  Root = root
  Dirs <- MCDirs
  Files <- MCFiles
  Names <- MCNames
  Clients = {c1}
  None = None
  FirstTree <- MCFirstTree
  MaxCommits = 2
  Capacity = 1
  Wanted <- MCWanted
  MaxFills = 1
  Reader = {r1, r2}
  ChunkSize = 2
  Size = 5
  Part = {"inodes", "chunks", "metadata", "commands"}
  Release = {1, 2}
  MaxVersion = 3
  MaxStarts = 3
  Command = {p1, p2, p3}
  Volume = {v1, v2}
  HeadName = {main, dev}
  Existing = v1
  Main = main
  MaxTorn = 1
INVARIANTS
  OnlyLateFillsAreStale
  AnswersWereTrue
  ReadsAreTheObject
  EntriesAreOurs
  OnlyLateValuesAreStale
  ChangesAddUp
  DeletedIsGone
CHECK_DEADLOCK FALSE

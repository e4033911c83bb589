SPECIFICATION FairSpec
CONSTANTS
  Task = {t1, t2}
  Handle = {h1, h2, h3}
  File = {f1, f2}
  Semaphore = {s1, s2, s3}
  None = None
  MaxOpen = 2
  MaxFailed = 1
  CloseBusy = FALSE
CHECK_DEADLOCK FALSE
INVARIANTS OneWriterPerFile GivenIsUsable NothingLeaks
PROPERTY RequestsEnd

SPECIFICATION Spec
CONSTANTS
  Task = {t1, t2, t3}
  Inode = {i1, i2}
  Mutex = {m1, m2, m3, m4, m5}
  NoTask = NoTask
  NoMutex = NoMutex
SYMMETRY MutexSymmetry
INVARIANTS
  MutualExclusion
PROPERTY
  ImplementsInodeLock

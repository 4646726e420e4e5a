CONSTANTS
  a = a
  b = b
  c = c
  dh = dh
  d1 = d1
  d2 = d2
  d3 = d3
  d4 = d4
  d5 = d5
  d6 = d6
  NoThread = NoThread
  Thread = {a, b, c}
  Handler = {}
  Killable = {a}
  Aborter = {}
  Lock = {1, 2}
  Data = {d1, d2, d3, d4, d5, d6}
  LockOf <- TwoLockOf
  Request <- TwoTables
  UpgradedInsert = 9
  HasCheckStatus = FALSE
  MaxWriteLockCount = 1
SPECIFICATION FairSpec
INVARIANTS DeadlockFree RunsLocked NoLeak
PROPERTY WaitersServed

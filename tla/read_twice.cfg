CONSTANTS
  a = a
  b = b
  c = c
  dh = dh
  d1 = d1
  d2 = d2
  d3 = d3
  d4 = d4
  d5 = d5
  d6 = d6
  NoThread = NoThread
  Thread = {a, b, c}
  Handler = {}
  Killable = {}
  Aborter = {}
  Lock = {1}
  Data = {d1, d2, d3, d4}
  LockOf <- TwiceLockOf
  Request <- Twice
  UpgradedInsert = 9
  HasCheckStatus = FALSE
  MaxWriteLockCount = 1
SPECIFICATION Spec
INVARIANT DeadlockFree

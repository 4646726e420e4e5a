CONSTANTS
  a = a
  b = b
  c = c
  dh = dh
  d1 = d1
  d2 = d2
  d3 = d3
  d4 = d4
  d5 = d5
  d6 = d6
  NoThread = NoThread
  Thread = {a, b, dh}
  Handler = {dh}
  Killable = {a}
  Aborter = {a}
  Lock = {1}
  Data = {d1, d2, d3}
  LockOf <- OneLockOf
  Request <- OneTable
  UpgradedInsert = 10
  HasCheckStatus = TRUE
  MaxWriteLockCount = 1
SPECIFICATION Spec
INVARIANTS TypeOK WriteExclusion ListsAgree WaiterIsQueued InsertsLocked Inductive
PROPERTIES ReadWriteExclusion KeepsPromises

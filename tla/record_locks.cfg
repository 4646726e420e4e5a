CONSTANTS
  t1 = t1
  t2 = t2
  t3 = t3
  Trx = {t1, t2, t3}
  NoTrx = NoTrx
  MaxKey = 2
  From = {1}
  MaxQueue = 3
  MaxUndo = 1
SPECIFICATION Spec
SYMMETRY Symmetry
INVARIANTS TypeOK LocksExclude DeadlockFree WaitersHaveCause RepeatableRead
PROPERTIES OnlyDeadRemoved

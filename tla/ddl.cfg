CONSTANTS
  a = a
  b = b
  c = c
  NoThread = NoThread
  Thread = {a, b, c}
  Table = {1, 2}
  Statement <- Ddl
  Killable = {b}
  MaxVersion = 2
SPECIFICATION Spec
CHECK_DEADLOCK FALSE
INVARIANTS TypeOK ReadLockCounts OpenIsCurrent RunsReady
PROPERTY ReadLockHolds

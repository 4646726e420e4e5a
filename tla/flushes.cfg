CONSTANTS
  a = a
  b = b
  c = c
  NoThread = NoThread
  Thread = {a, b, c}
  Table = {1, 2}
  Statement <- Flushes
  Killable = {a}
  MaxVersion = 3
SPECIFICATION Spec
CHECK_DEADLOCK FALSE
INVARIANTS NoLostWakeup SomeoneMoves

SPECIFICATION Spec
CONSTANTS
 AutoInc = {1, 3}
 Temporary = 2
 MaxStatement = 3
 MaxFile = 3
 LogSize = 4
 MaxNet = 2
 MaxRestarts = 0
 MaxCrashes = 0
 MaxDrops = 0
 MaxPurges = 0
 RotateAt <- DumpPc
INVARIANT UpdatesInOrder
CHECK_DEADLOCK FALSE

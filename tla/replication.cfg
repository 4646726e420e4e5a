SPECIFICATION FairSpec
CONSTANTS
 AutoInc = {1, 3}
 Temporary = 2
 MaxStatement = 3
 MaxFile = 3
 LogSize = 4
 MaxNet = 2
 MaxRestarts = 1
 MaxCrashes = 1
 MaxDrops = 1
 MaxPurges = 1
 RotateAt <- NotAtEof
INVARIANTS TypeOK InsertIds TempTableKept NoMissedUpdate
PROPERTIES KeepsOrder CatchesUp
CHECK_DEADLOCK FALSE

SPECIFICATION Spec
CONSTANTS
 a = a
 b = b
 h1 = h1
 h2 = h2
 Client = {a, b}
 Handler = {h1, h2}
 Flusher = Flusher
 Nobody = Nobody
 QueueSize = 1
 MaxUint = 3
 InsertLimit = 0
 Statements = 1
 RowsPer = 1
 Flushes = 1
 KillAt = {"lock_wait", "queue_wait"}
 ReadLock = TRUE
 Aborts = TRUE
CHECK_DEADLOCK FALSE
SYMMETRY Symm
INVARIANTS TypeOK DiesUnused RowsLocked OneHandler

SPECIFICATION FairSpec
CONSTANTS
 a = a
 b = b
 h1 = h1
 h2 = h2
 Client = {a, b}
 Handler = {h1}
 Flusher = Flusher
 Nobody = Nobody
 QueueSize = 1
 MaxUint = 3
 InsertLimit = 1
 Statements = 1
 RowsPer = 1
 Flushes = 1
 KillAt = {}
 ReadLock = FALSE
 Aborts = FALSE
PROPERTIES ClientsGoOn FlushEnds

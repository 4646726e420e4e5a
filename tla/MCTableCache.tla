---------------------------- MODULE MCTableCache ----------------------------
(* Instances of TableCache for TLC. *)
EXTENDS TableCache, TLC

CONSTANTS a, b, c    \* threads

Write(X)    == [op |-> "query", tabs |-> X, writes |-> X]
LockRead(X) == [op |-> "lock", tabs |-> X, writes |-> {}]
LockWrite(X) == [op |-> "lock", tabs |-> X, writes |-> X]
Flush       == [op |-> "flush", tabs |-> {}, writes |-> {}]
ReadLock    == [op |-> "read_lock", tabs |-> {}, writes |-> {}]
Drop(x)     == [op |-> "drop", tabs |-> {x}, writes |-> {x}]
Truncate(x) == [op |-> "truncate", tabs |-> {x}, writes |-> {x}]
Rename(x, y) == [op |-> "rename", tabs |-> {x, y}, writes |-> {x}]

(* A connection with LOCK TABLES beside FLUSH TABLES and the global read     *)
(* lock; the owner of the global read lock may try a DROP.                   *)
Flushes == a :> {LockWrite({1, 2})}
        @@ b :> {LockRead({1}), Flush}
        @@ c :> {ReadLock, Drop(1)}

(* An update beside DROP, TRUNCATE and RENAME; two of the threads may take   *)
(* the global read lock.                                                     *)
Ddl == a :> {Write({1, 2}), ReadLock}
    @@ b :> {Drop(1), Truncate(2)}
    @@ c :> {Rename(2, 1), ReadLock}
=============================================================================

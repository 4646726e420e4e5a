----------------------------- MODULE MCThrLock -----------------------------
(* Instances of ThrLock for TLC. *)
EXTENDS ThrLock, TLC

CONSTANTS a, b, c, dh          \* threads
CONSTANTS d1, d2, d3, d4, d5, d6   \* lock instances

(* One table, one instance per thread: a delayed handler dh and two others,  *)
(* of which a may flush or alter the table.                                  *)
OneLockOf == d1 :> 1 @@ d2 :> 1 @@ d3 :> 1
OneTable == [t \in {a, b, dh} |->
  IF t = dh THEN {d3 :> TL_WRITE_DELAYED}
  ELSE {(IF t = a THEN d1 ELSE d2) :> ty : ty \in
          {TL_READ, TL_READ_NO_INSERT, TL_WRITE_ALLOW_WRITE, TL_WRITE_ALLOW_READ,
           TL_WRITE_CONCURRENT_INSERT, TL_WRITE_LOW_PRIORITY, TL_WRITE}}]

(* Two tables: a and b lock both, c locks the first one twice (LOCK TABLES t *)
(* WRITE, t AS x READ).                                                      *)
TwoLockOf == d1 :> 1 @@ d2 :> 2 @@ d3 :> 1 @@ d4 :> 2 @@ d5 :> 1 @@ d6 :> 1
TwoTables ==
  [t \in {a, b, c} |->
     CASE t = a -> {d1 :> x @@ d2 :> y : x \in {TL_READ, TL_WRITE},
                                         y \in {TL_READ, TL_WRITE}}
       [] t = b -> {d3 :> x @@ d4 :> y : x \in {TL_READ, TL_WRITE},
                                         y \in {TL_READ_NO_INSERT, TL_WRITE}}
       [] t = c -> {d5 :> TL_WRITE @@ d6 :> TL_READ}]

(* a reads one table twice (LOCK TABLES t READ, t AS x READ), b alters it and *)
(* c writes it.                                                              *)
TwiceLockOf == d1 :> 1 @@ d2 :> 1 @@ d3 :> 1 @@ d4 :> 1
Twice == [t \in {a, b, c} |->
  CASE t = a -> {d1 :> TL_READ_NO_INSERT @@ d2 :> TL_READ_NO_INSERT}
    [] t = b -> {d3 :> TL_WRITE_ALLOW_READ}
    [] t = c -> {d4 :> TL_WRITE}]
=============================================================================

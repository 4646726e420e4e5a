---------------------------- MODULE MCRecordLock ----------------------------
(* A page with two keys and three transactions.                              *)
EXTENDS RecordLock, TLC

CONSTANTS t1, t2, t3

Symmetry == Permutations({t1, t2, t3})
=============================================================================

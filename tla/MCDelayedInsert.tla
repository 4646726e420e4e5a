--------------------------- MODULE MCDelayedInsert ---------------------------
(* Instances of DelayedInsert.                                               *)
EXTENDS DelayedInsert, TLC

CONSTANTS a, b, h1, h2

(* Clients differ only in name, and so do the handlers. *)
Symm == Permutations({a, b}) \cup Permutations({h1, h2})
=============================================================================

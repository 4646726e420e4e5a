----------------------------- MODULE MCKillWait -----------------------------
(* Instances of KillWait.                                                    *)
EXTENDS KillWait, TLC

CONSTANTS a, b, c, x

(* Who contends for what: all three threads for the user lock. *)
MCStatement == a :> Kind @@ b :> {"user_lock", "read_lock"} @@ c :> {"user_lock"}
=============================================================================

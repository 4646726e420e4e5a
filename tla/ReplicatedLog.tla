---------------------------- MODULE ReplicatedLog ----------------------------
(* What replication promises: the slave "informs the master where it left    *)
(* off since the last successfully propagated update, catches up on the      *)
(* updates" (Docs/manual.texi:22901).  Statements are numbered in the order  *)
(* the master logs them; the slave executes each of them in that order, and  *)
(* one again only when it died before it had written down its position.      *)
EXTENDS Naturals, Sequences, SequencesExt

VARIABLES
    written,    \* the number of statements in the master's binary log
    applied,    \* the statements the slave executed
    crashes     \* how often the slave died

avars == <<written, applied, crashes>>

Last0(s) == IF s = <<>> THEN 0 ELSE Last(s)

AInit == written = 0 /\ applied = <<>> /\ crashes = 0

AWrite == written' = written + 1 /\ UNCHANGED <<applied, crashes>>

AApply ==
    /\ Last0(applied) < written
    /\ applied' = Append(applied, Last0(applied) + 1)
    /\ UNCHANGED <<written, crashes>>

(* The last statement is executed again; every time for a crash of its own. *)
ARepeat ==
    /\ applied # <<>> /\ Len(applied) - Last0(applied) < crashes
    /\ applied' = Append(applied, Last(applied))
    /\ UNCHANGED <<written, crashes>>

ACrash == crashes' = crashes + 1 /\ UNCHANGED <<written, applied>>

ASpec == AInit /\ [][AWrite \/ AApply \/ ARepeat \/ ACrash]_avars
=============================================================================

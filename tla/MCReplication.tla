---------------------------- MODULE MCReplication ----------------------------
(* Instances of Replication.                                                 *)
EXTENDS Replication

(* The log is not rotated between the end of file the dump thread saw and    *)
(* its test whether the file is the active one.                              *)
NotAtEof == DumpPc \ {"eof"}
=============================================================================

----------------------------- MODULE Replication -----------------------------
(* One-way replication: the binary log of the master, its rotation, index    *)
(* and PURGE (sql/log.cc), the thread that sends it to the slave             *)
(* (sql/sql_repl.cc), and the slave thread (sql/slave.cc) with the execution *)
(* of the events (sql/log_event.cc).                                         *)
(*                                                                           *)
(* A file of the log is a sequence of events, and a position in it the       *)
(* number of events before it: 0 stands for 4, the first position after the  *)
(* magic number.  What is done under LOCK_log is one step, but for           *)
(* new_file(), which changes the name of the active log some time before it  *)
(* adds it to the index; LOCK_index and LOCK_thread_count are one step each. *)
EXTENDS Naturals, Sequences, FiniteSets, FiniteSetsExt, SequencesExt

CONSTANTS
    AutoInc,       \* statements that are logged with their insert id
    Temporary,     \* the statement that creates a temporary table
    MaxStatement,  \* bound: statements written
    MaxFile,       \* bound: files of the log
    LogSize,       \* max_binlog_size, in events
    MaxNet,        \* bound: events sent and not yet read
    MaxRestarts, MaxCrashes, MaxDrops, MaxPurges,  \* bounds on faults
    RotateAt       \* where the dump thread may be when the log is rotated

DumpPc == {"none", "read", "eof", "catch", "asleep", "next"}

ASSUME ReplicationAssumption ==
    /\ {MaxStatement, MaxFile, LogSize, MaxNet, MaxRestarts, MaxCrashes,
        MaxDrops, MaxPurges} \subseteq Nat
    /\ MaxFile > 0 /\ MaxNet > 0
    /\ AutoInc \subseteq 1 .. MaxStatement /\ Temporary \in 1 .. MaxStatement
    /\ RotateAt \subseteq DumpPc

VARIABLES
    written,    \* statements in the log of the master
    logs,       \* the contents of the files
    files,      \* the files that exist
    index,      \* the index file
    active,     \* log_file_name, the file that is written
    rotating,   \* new_file() is between the change of the name and the index
    dump,       \* the dump thread: its linfo, the event it reads next, its place
    net,        \* the events on their way to the slave
    mi,         \* glob_mi: log_file_name, pos and pending
    info,       \* master.info
    spc,        \* where the slave thread is
    next_insert_id,  \* of the slave's thd
    temp,       \* the slave has the temporary table
    applied,    \* the statements the slave executed, and with which insert id
    restarts, crashes, drops, purges    \* counters of the faults

mvars == <<written, logs, files, index, active, rotating>>
svars == <<mi, info, spc, next_insert_id, temp, applied>>
faults == <<restarts, crashes, drops, purges>>
vars == <<mvars, dump, net, svars, faults>>

File == 1 .. MaxFile
Statement == 1 .. MaxStatement
Intvar(n) == [type |-> "intvar", n |-> n]
Query(n)  == [type |-> "query", n |-> n]
Rotate(f) == [type |-> "rotate", n |-> f]
Stop      == [type |-> "stop", n |-> 0]
Start     == [type |-> "start", n |-> 0]
NoDump == [pc |-> "none", file |-> 0, pos |-> 0, offset |-> 0]

Init ==
    /\ written = 0
    /\ logs = [f \in File |-> IF f = 1 THEN <<Start>> ELSE <<>>]
    /\ files = {1} /\ index = <<1>> /\ active = 1 /\ rotating = FALSE
    /\ dump = NoDump /\ net = <<>>
    /\ mi = [file |-> 1, pos |-> 0, pending |-> 0]
    /\ info = [file |-> 1, pos |-> 0]
    /\ spc = "connect"
    /\ next_insert_id = 0 /\ temp = FALSE /\ applied = <<>>
    /\ restarts = 0 /\ crashes = 0 /\ drops = 0 /\ purges = 0

-----------------------------------------------------------------------------
(* The binary log.                                                           *)

(* Mutant for CatchesUp: no broadcast. *)
BroadcastNone == UNCHANGED dump

(* COND_binlog_update: the dump thread goes on when LOCK_log is free. *)
Broadcast == dump' = [dump EXCEPT !.pc = IF @ = "asleep" THEN "read" ELSE @]

(* find_uniq_filename(): one more than the highest number in the directory. *)
NewName == Max(files) + 1

(* new_file(), with S in the active file: the Rotate event, the Stop event   *)
(* that close() writes, and the new file, which is not in the index yet.     *)
new_file(S) ==
    /\ dump.pc \in RotateAt
    /\ NewName \in File
    /\ logs' = [logs EXCEPT ![active] = S \o <<Rotate(NewName), Stop>>]
    /\ files' = files \cup {NewName}
    /\ active' = NewName
    /\ rotating' = TRUE
    /\ UNCHANGED index

IndexWritten ==
    /\ rotating
    /\ index' = Append(index, active)
    /\ rotating' = FALSE
    /\ UNCHANGED <<written, logs, files, active, dump, net, svars, faults>>

(* MYSQL_LOG::write(): a log that has become too large is rotated before     *)
(* LOCK_log is unlocked.                                                     *)
Write ==
    LET n == written + 1
        S == logs[active] \o (IF n \in AutoInc THEN <<Intvar(n)>> ELSE <<>>)
                          \o <<Query(n)>>
    IN
    /\ ~rotating /\ n \in Statement
    /\ written' = n
    /\ IF Len(S) >= LogSize
         THEN new_file(S)
         ELSE /\ logs' = [logs EXCEPT ![active] = S]
              /\ UNCHANGED <<files, index, active, rotating>>
    /\ Broadcast
    /\ UNCHANGED <<net, svars, faults>>

FlushLogs ==
    /\ ~rotating
    /\ new_file(logs[active])
    /\ Broadcast
    /\ UNCHANGED <<written, net, svars, faults>>

(* The server is stopped, or dies, and is started again: the Stop event is   *)
(* written, and open() begins a new file.  A server that dies in new_file()  *)
(* leaves a file that is in no index, or has not made it.                    *)
MasterRestart(stops) ==
    LET S == IF stops THEN Append(logs[active], Stop) ELSE logs[active] IN
    /\ restarts < MaxRestarts
    /\ stops => ~rotating
    /\ \E f \in {NewName} \cup (IF rotating THEN {active} ELSE {}) :
          /\ f \in File
          /\ active' = f
          /\ files' = files \cup {f}
          /\ index' = Append(index, f)
          /\ logs' = [logs EXCEPT ![active] = S, ![f] = <<Start>>]
    /\ rotating' = FALSE
    /\ restarts' = restarts + 1
    /\ dump' = NoDump
    /\ \E k \in 0 .. Len(net) : net' = SubSeq(net, 1, k)
    /\ UNCHANGED <<written, svars, crashes, drops, purges>>

(* log_in_use(): for the files before the target. *)
log_in_use(k) == dump.pc # "none" /\ \E j \in 1 .. k - 1 : index[j] = dump.file

(* adjust_linfo_offsets(): the entries before the target are gone. *)
adjusted(k) == dump.offset - (k - 1)

(* purge_logs() up to the k-th file, which is kept. *)
Purge(k) ==
    /\ purges < MaxPurges
    /\ k \in 2 .. Len(index)
    /\ ~log_in_use(k)
    /\ files' = files \ {index[j] : j \in 1 .. k - 1}
    /\ index' = SubSeq(index, k, Len(index))
    /\ dump' = [dump EXCEPT !.offset = IF dump.pc = "none" THEN 0 ELSE adjusted(k)]
    /\ purges' = purges + 1
    /\ UNCHANGED <<written, logs, active, rotating, net, svars,
                   restarts, crashes, drops>>

-----------------------------------------------------------------------------
(* The dump thread.                                                          *)

Send(e) == net' = Append(net, e)

(* Mutant for TypeOK: pending is not cleared when the connection was lost. *)
ConnectPending ==
    /\ spc = "connect" /\ dump.pc = "none"
    /\ mi.file \in ToSet(index)
    /\ dump' = [pc |-> "read", file |-> mi.file, pos |-> mi.pos,
                offset |-> CHOOSE k \in DOMAIN index : index[k] = mi.file]
    /\ net' = IF mi.pos = 0 THEN <<Rotate(mi.file)>> ELSE <<>>
    /\ spc' = "read"
    /\ UNCHANGED <<mvars, mi, info, next_insert_id, temp, applied, faults>>

(* The request of a slave that has lost its connection, or starts: the       *)
(* position is that of the event after the last one executed, without the    *)
(* events of a statement that was not read to its end.                       *)
Connect ==
    /\ spc = "connect" /\ dump.pc = "none"
    /\ mi.file \in ToSet(index)
    /\ mi' = [mi EXCEPT !.pending = 0]
    /\ dump' = [pc |-> "read", file |-> mi.file, pos |-> mi.pos,
                offset |-> CHOOSE k \in DOMAIN index : index[k] = mi.file]
    /\ net' = IF mi.pos = 0 THEN <<Rotate(mi.file)>> ELSE <<>>
    /\ spc' = "read"
    /\ UNCHANGED <<mvars, info, next_insert_id, temp, applied, faults>>

AtEof == dump.pos >= Len(logs[dump.file])

(* One event is read under LOCK_log and sent. *)
SendNext ==
    /\ Len(net) < MaxNet
    /\ Send(logs[dump.file][dump.pos + 1])
    /\ dump' = [dump EXCEPT !.pos = @ + 1, !.pc = "read"]

DumpRead ==
    /\ dump.pc = "read" /\ ~rotating
    /\ IF AtEof THEN dump' = [dump EXCEPT !.pc = "eof"] /\ UNCHANGED net
                ELSE SendNext
    /\ UNCHANGED <<mvars, svars, faults>>

(* is_active(), without LOCK_log. *)
DumpEof ==
    /\ dump.pc = "eof"
    /\ dump' = [dump EXCEPT !.pc = IF dump.file = active THEN "catch" ELSE "next"]
    /\ UNCHANGED <<mvars, net, svars, faults>>

(* Mutant for NoMissedUpdate: the thread waits without reading again. *)
DumpWait ==
    /\ dump.pc = "catch" /\ ~rotating
    /\ dump' = [dump EXCEPT !.pc = "asleep"]
    /\ UNCHANGED <<mvars, net, svars, faults>>

(* "we may have missed the update broadcast from the log that has just       *)
(* happened": under LOCK_log the thread reads once more before it waits.     *)
DumpCatch ==
    /\ dump.pc = "catch" /\ ~rotating
    /\ IF AtEof THEN dump' = [dump EXCEPT !.pc = "asleep"] /\ UNCHANGED net
                ELSE SendNext
    /\ UNCHANGED <<mvars, svars, faults>>

(* Mutant for KeepsOrder: the slave is not told the name of the next log. *)
DumpNextSilent ==
    LET f == IF dump.offset < Len(index) THEN index[dump.offset + 1] ELSE dump.file
        k == IF dump.offset < Len(index) THEN dump.offset + 1 ELSE dump.offset
    IN
    /\ dump.pc = "next"
    /\ dump' = [pc |-> "read", file |-> f, pos |-> 0, offset |-> k]
    /\ UNCHANGED <<mvars, net, svars, faults>>

(* find_next_log(): without a next line in the index the name stays as it    *)
(* was, and the file is opened again from its beginning.                     *)
DumpNext ==
    LET f == IF dump.offset < Len(index) THEN index[dump.offset + 1] ELSE dump.file
        k == IF dump.offset < Len(index) THEN dump.offset + 1 ELSE dump.offset
    IN
    /\ dump.pc = "next"
    /\ Len(net) < MaxNet
    /\ dump' = [pc |-> "read", file |-> f, pos |-> 0, offset |-> k]
    /\ Send(Rotate(f))
    /\ UNCHANGED <<mvars, svars, faults>>

(* The connection breaks: what the slave has not received is lost. *)
Disconnect ==
    /\ drops < MaxDrops /\ dump.pc # "none"
    /\ dump' = NoDump
    /\ \E k \in 0 .. Len(net) : net' = SubSeq(net, 1, k)
    /\ drops' = drops + 1
    /\ UNCHANGED <<mvars, svars, restarts, crashes, purges>>

-----------------------------------------------------------------------------
(* The slave thread.                                                         *)

Takes(type) ==
    /\ spc = "read" /\ net # <<>> /\ Head(net).type = type
    /\ net' = Tail(net)

(* inc_pos() and flush_master_info(). *)
Advance ==
    /\ mi' = [mi EXCEPT !.pos = @ + 1 + mi.pending, !.pending = 0]
    /\ info' = [file |-> mi'.file, pos |-> mi'.pos]

(* Mutant for InsertIds: the position goes on with the Intvar event. *)
intvar_advances ==
    /\ Takes("intvar")
    /\ next_insert_id' = Head(net).n
    /\ Advance
    /\ UNCHANGED <<mvars, dump, spc, temp, applied, faults>>

(* Intvar_log_event::exec_event(): inc_pending(). *)
exec_intvar ==
    /\ Takes("intvar")
    /\ next_insert_id' = Head(net).n
    /\ mi' = [mi EXCEPT !.pending = @ + 1]
    /\ UNCHANGED <<mvars, dump, info, spc, temp, applied, faults>>

(* Query_log_event::exec_event() executes the statement; next_insert_id is   *)
(* cleared by the insert that uses it.                                       *)
exec_query ==
    LET n == Head(net).n IN
    /\ Takes("query")
    /\ applied' = Append(applied, [n |-> n, id |-> next_insert_id])
    /\ next_insert_id' = IF n \in AutoInc THEN 0 ELSE next_insert_id
    /\ temp' = (temp \/ n = Temporary)
    /\ spc' = "executed"
    /\ UNCHANGED <<mvars, dump, mi, info, faults>>

Executed ==
    /\ spc = "executed"
    /\ Advance
    /\ spc' = "read"
    /\ UNCHANGED <<mvars, dump, net, next_insert_id, temp, applied, faults>>

(* The statement fails: the slave stops before it. *)
QueryFails ==
    /\ drops < MaxDrops
    /\ Takes("query")
    /\ spc' = "stopped" /\ dump' = NoDump
    /\ next_insert_id' = 0
    /\ drops' = drops + 1
    /\ UNCHANGED <<mvars, mi, info, temp, applied, restarts, crashes, purges>>

exec_start ==
    /\ Takes("start")
    /\ temp' = FALSE
    /\ Advance
    /\ UNCHANGED <<mvars, dump, spc, next_insert_id, applied, faults>>

(* Mutant for TempTableKept: the Stop event is never ignored. *)
exec_any_stop ==
    /\ Takes("stop")
    /\ temp' = FALSE /\ Advance
    /\ UNCHANGED <<mvars, dump, spc, next_insert_id, applied, faults>>

(* "stop event should be ignored after rotate event" *)
exec_stop ==
    /\ Takes("stop")
    /\ IF mi.pos > 0
         THEN temp' = FALSE /\ Advance
         ELSE UNCHANGED <<temp, mi, info>>
    /\ UNCHANGED <<mvars, dump, spc, next_insert_id, applied, faults>>

(* Rotate_log_event::exec_event(); pending stays as it is. *)
exec_rotate ==
    /\ Takes("rotate")
    /\ mi' = [mi EXCEPT !.file = Head(net).n, !.pos = 0]
    /\ info' = [file |-> Head(net).n, pos |-> 0]
    /\ UNCHANGED <<mvars, dump, spc, next_insert_id, temp, applied, faults>>

(* read_event() fails when there is nothing more to read. *)
ReadFails ==
    /\ spc = "read" /\ net = <<>> /\ dump.pc = "none"
    /\ spc' = "connect"
    /\ UNCHANGED <<mvars, dump, net, mi, info, next_insert_id, temp, applied, faults>>

(* SLAVE STOP between two events, and SLAVE START: the thread ends and keeps *)
(* its temporary tables, and glob_mi stays in memory.                        *)
StopSlave ==
    /\ drops < MaxDrops /\ spc \in {"connect", "read"}
    /\ spc' = "stopped" /\ dump' = NoDump /\ net' = <<>>
    /\ next_insert_id' = 0
    /\ drops' = drops + 1
    /\ UNCHANGED <<mvars, mi, info, temp, applied, restarts, crashes, purges>>

StartSlave ==
    /\ spc = "stopped"
    /\ spc' = "connect" /\ net' = <<>>
    /\ mi' = [mi EXCEPT !.pending = 0]
    /\ UNCHANGED <<mvars, dump, info, next_insert_id, temp, applied, faults>>

(* The slave server dies and starts again: init_master_info() reads the file. *)
SlaveCrash ==
    /\ crashes < MaxCrashes
    /\ spc' = "connect" /\ dump' = NoDump /\ net' = <<>>
    /\ mi' = [file |-> info.file, pos |-> info.pos, pending |-> 0]
    /\ next_insert_id' = 0 /\ temp' = FALSE
    /\ crashes' = crashes + 1
    /\ UNCHANGED <<mvars, info, applied, restarts, drops, purges>>

-----------------------------------------------------------------------------
DumpStep == DumpRead \/ DumpEof \/ DumpCatch \/ DumpNext

ExecEvent == exec_intvar \/ exec_query \/ exec_start \/ exec_stop \/ exec_rotate

SlaveStep == ExecEvent \/ Executed \/ ReadFails \/ Connect

Next ==
    \/ Write \/ FlushLogs \/ IndexWritten
    \/ \E stops \in BOOLEAN : MasterRestart(stops)
    \/ \E k \in 1 .. MaxFile : Purge(k)
    \/ DumpStep \/ SlaveStep
    \/ Disconnect \/ QueryFails \/ StopSlave \/ StartSlave \/ SlaveCrash

Spec == Init /\ [][Next]_vars

(* new_file() ends, the dump thread runs when LOCK_log is free, and the      *)
(* slave reads and reconnects.  Nothing makes a user start a stopped slave.  *)
Fairness == WF_vars(IndexWritten) /\ WF_vars(DumpStep) /\ WF_vars(SlaveStep)

FairSpec == Spec /\ Fairness

-----------------------------------------------------------------------------
(* Properties.                                                               *)

Events == {Intvar(n) : n \in AutoInc} \cup {Query(n) : n \in Statement}
          \cup {Rotate(f) : f \in File} \cup {Stop, Start}

(* The types; a position the slave holds or asks for is one of its file, the *)
(* events it has taken of an unfinished statement included.                  *)
TypeOK ==
    /\ written \in 0 .. MaxStatement
    /\ \A f \in File : Range(logs[f]) \subseteq Events
    /\ files \subseteq File /\ active \in files /\ rotating \in BOOLEAN
    /\ ToSet(index) \subseteq files /\ IsInjective(index)
    /\ dump.pc \in DumpPc
    /\ dump.pc # "none" => dump.pos \in 0 .. Len(logs[dump.file])
    /\ Range(net) \subseteq Events
    /\ spc \in {"stopped", "connect", "read", "executed"}
    /\ mi.file \in File /\ mi.pos + mi.pending \in 0 .. Len(logs[mi.file])
    /\ info.file \in File /\ info.pos \in 0 .. Len(logs[info.file])
    /\ next_insert_id \in 0 .. MaxStatement /\ temp \in BOOLEAN
    /\ \A i \in DOMAIN applied : applied[i] \in [n : Statement, id : 0 .. MaxStatement]

(* The slave executes what the master wrote, in its order, nothing left out, *)
(* and a statement twice only when the server died between its execution and *)
(* flush_master_info(): whatever connections, files and servers do.          *)
Log == INSTANCE ReplicatedLog WITH
    applied <- [i \in DOMAIN applied |-> applied[i].n]
KeepsOrder == Log!ASpec

(* The same as an invariant, for a slave that has not died. *)
UpdatesInOrder ==
    crashes = 0 => \A i \in DOMAIN applied : applied[i].n = i

(* An insert on the slave gets the value it had on the master, also when the *)
(* connection breaks, or the slave dies, between the event with the value    *)
(* and the statement.                                                        *)
InsertIds == \A i \in DOMAIN applied : applied[i].n \in AutoInc =>
                                           applied[i].id = applied[i].n

(* A temporary table lives on the slave as long as on the master: a rotated  *)
(* log and a new connection leave it alone.                                  *)
TempTableKept ==
    restarts = 0 /\ crashes = 0 =>
        temp = (\E i \in DOMAIN applied : applied[i].n = Temporary)

(* A dump thread that waits for an update has sent them all. *)
NoMissedUpdate == dump.pc = "asleep" => AtEof /\ dump.file = active

(* The file the slave asks for is gone from the index, by PURGE or because   *)
(* the master died in new_file().                                            *)
Refused == spc = "connect" /\ mi.file \notin ToSet(index)

(* "The slave will also be able to deal with network connectivity outages"   *)
(* (Docs/manual.texi:23201): every update reaches a slave that is neither    *)
(* stopped nor refused.                                                      *)
CatchesUp ==
    \A n \in Statement :
        written >= n ~> \/ \E i \in DOMAIN applied : applied[i].n = n
                        \/ spc = "stopped" \/ Refused
=============================================================================

----------------------------- MODULE TableLock -----------------------------
(***************************************************************************)
(* What the table-lock manager promises its callers, whatever its queues   *)
(* look like: the lock instances of a table that are granted at any time   *)
(* go together, a granted instance is taken away from nobody, and only an  *)
(* instance some thread asked for is granted.                              *)
(*                                                                         *)
(* owner[d] is the thread that uses instance d; mode[d] is the type of the *)
(* lock granted through it, NoMode when none is.  Modes are the numbers of *)
(* enum thr_lock_type.                                                     *)
(***************************************************************************)
EXTENDS Integers

CONSTANTS Thread, NoThread, Data, LockOf

NoMode  == 0
NoInsert == 4
AllowWrite == 5
ConcurrentInsert == 7
Delayed == 8
Exclusive == 10
Closed  == 11

Modes == NoMode .. Closed

VARIABLES owner, mode

tlvars == <<owner, mode>>

(* Granted locks of different threads that go together: readers; readers and *)
(* a writer that admits them; writers that admit each other; anything beside *)
(* a write lock that is being aborted, since it had to go together with that *)
(* lock before.  NoInsert beside AllowWrite is on the list because the code  *)
(* gives both (thr_lock.c:451), against its own comment (thr_lock.c:445).    *)
GoTogether(m, n) ==
  \/ m <= NoInsert /\ n <= NoInsert
  \/ m = Closed \/ n = Closed
  \/ m = AllowWrite /\ n = AllowWrite
  \/ /\ m <= NoInsert /\ n \in AllowWrite .. Delayed
     /\ m = NoInsert => n # ConcurrentInsert
  \/ /\ n <= NoInsert /\ m \in AllowWrite .. Delayed
     /\ n = NoInsert => m # ConcurrentInsert

Compatible(md, own) ==
  \A c, d \in Data : (/\ LockOf[c] = LockOf[d] /\ own[c] # own[d]
                      /\ md[c] # NoMode /\ md[d] # NoMode)
                     => GoTogether(md[c], md[d])

Init ==
  /\ owner = [d \in Data |-> NoThread]
  /\ mode  = [d \in Data |-> NoMode]

(* A statement claims the instances it will lock. *)
Claim(t) ==
  /\ \A d \in Data : \/ owner'[d] = owner[d]
                     \/ owner[d] = NoThread /\ owner'[d] = t
  /\ owner' \in [Data -> Thread \cup {NoThread}]
  /\ UNCHANGED mode

(* The granted instances outside S stay as they are, and what is granted in  *)
(* this step was asked for and goes together with everything else.           *)
Grant(S) ==
  /\ mode' \in [Data -> Modes]
  /\ \A d \in Data \ S : /\ mode[d] # NoMode => mode'[d] = mode[d]
                         /\ mode'[d] # mode[d] => owner[d] # NoThread
  /\ Compatible(mode', owner)
  /\ UNCHANGED owner

Acquire(t) == \E d \in Data : /\ owner[d] = t /\ mode[d] = NoMode
                              /\ Grant({})
                              /\ \A x \in Data \ {d} : mode'[x] = mode[x]

(* Releasing one lock may grant any number of others. *)
Release(t) == \E d \in Data : owner[d] = t /\ Grant({d}) /\ mode'[d] = NoMode

Upgrade(t) == \E d \in Data : /\ owner[d] = t /\ mode[d] = Delayed
                              /\ mode' = [mode EXCEPT ![d] = Exclusive]
                              /\ Grant({d})

(* A thread that holds a lock on the table aborts the others. *)
Close(t) == \E c, d \in Data :
  /\ owner[c] = t /\ mode[c] # NoMode /\ LockOf[c] = LockOf[d]
  /\ mode[d] >= AllowWrite
  /\ mode' = [mode EXCEPT ![d] = Closed]
  /\ UNCHANGED owner

(* A statement ends with everything released. *)
Leave(t) ==
  /\ \A d \in Data : owner[d] = t => mode[d] = NoMode
  /\ owner' = [d \in Data |-> IF owner[d] = t THEN NoThread ELSE owner[d]]
  /\ UNCHANGED mode

Next == \E t \in Thread : \/ Claim(t) \/ Acquire(t) \/ Release(t)
                          \/ Upgrade(t) \/ Close(t) \/ Leave(t)

Spec == Init /\ [][Next]_tlvars
=============================================================================

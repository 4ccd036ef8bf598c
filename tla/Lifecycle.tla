----------------------------- MODULE Lifecycle -----------------------------
(***************************************************************************)
(* What svlopp promises about services and their processes, without how:   *)
(* no signals, no loops, no maps from pids to ids.                         *)
(*                                                                         *)
(* A service is created under an id that was never used before, has a      *)
(* process exactly while it is Running or Stopping, and leaves only when   *)
(* it is Stopped.  Every process that is forked belongs to one service     *)
(* until it is buried, which is also when the service becomes Stopped.     *)
(* svlopp ends in order only when no process is left.                      *)
(***************************************************************************)
EXTENDS Integers

CONSTANTS Ids, NoId, Pids

VARIABLES
  life,   \* id -> "Absent", "Stopped", "Running" or "Stopping"
  owner,  \* pid -> the service whose process it is, until it is buried
  fresh,  \* ids from here on were never used
  up      \* "up", or how svlopp ended

vars == <<life, owner, fresh, up>>

Init ==
  /\ life = [i \in Ids |-> "Absent"]
  /\ owner = [p \in Pids |-> NoId]
  /\ fresh = 0
  /\ up = "up"

Become(i, s) == life' = [life EXCEPT ![i] = s]

(* an id is used up, for a service or for an attempt to create one *)
Create(s) ==
  /\ fresh \in Ids
  /\ Become(fresh, s)
  /\ fresh' = fresh + 1

Spend == fresh' = fresh + 1 /\ UNCHANGED <<life, owner>>

Fork(p, i) ==
  /\ owner[p] = NoId
  /\ owner' = [owner EXCEPT ![p] = i]

Start(i, p) ==
  /\ life[i] = "Stopped"
  /\ Become(i, "Running")
  /\ Fork(p, i)
  /\ UNCHANGED fresh

AskToStop(i) ==
  /\ life[i] = "Running"
  /\ Become(i, "Stopping")
  /\ UNCHANGED <<owner, fresh>>

Bury(i, p) ==
  /\ owner[p] = i
  /\ life[i] \in {"Running", "Stopping"}
  /\ Become(i, "Stopped")
  /\ owner' = [owner EXCEPT ![p] = NoId]
  /\ UNCHANGED fresh

Drop(i) ==
  /\ life[i] = "Stopped"
  /\ Become(i, "Absent")
  /\ UNCHANGED <<owner, fresh>>

Work ==
  \/ Create("Stopped") /\ UNCHANGED owner
  \/ \E p \in Pids : Create("Running") /\ Fork(p, fresh)
  \/ Spend
  \/ \E i \in Ids, p \in Pids : Start(i, p) \/ Bury(i, p)
  \/ \E i \in Ids : AskToStop(i) \/ Drop(i)

End ==
  /\ \/ up' = "exited_ok" /\ \A p \in Pids : owner[p] = NoId
     \/ up' = "exited_err"
  /\ UNCHANGED <<life, owner, fresh>>

Next == up = "up" /\ ((Work /\ UNCHANGED up) \/ End)

Spec == Init /\ [][Next]_vars

(* A service has at most one process, and has one exactly while it runs. *)
OneProcessEach ==
  \A i \in Ids :
    /\ \A p, q \in Pids : owner[p] = i /\ owner[q] = i => p = q
    /\ life[i] \in {"Running", "Stopping"} <=> \E p \in Pids : owner[p] = i
=============================================================================

--------------------------- MODULE StatusRegister ---------------------------
(***************************************************************************)
(* What the status file promises its readers: a register that holds one    *)
(* whole snapshot or nothing, and that a reader samples in one step.       *)
(*                                                                         *)
(* Snapshots are numbered in the order in which svlopp takes them.  A      *)
(* replacement that fails leaves the register alone, so numbers may be     *)
(* skipped; they never go back.                                            *)
(***************************************************************************)
EXTENDS Integers

CONSTANTS Readers

NoSnapshot == 0

VARIABLES
  current,  \* the snapshot in the register
  newest,   \* no snapshot numbered above it has been published
  view      \* reader -> the snapshot it sampled last

vars == <<current, newest, view>>

TypeOK ==
  /\ current \in Nat /\ newest \in Nat /\ current <= newest
  /\ view \in [Readers -> 0 .. newest]

Init == current = NoSnapshot /\ newest = NoSnapshot /\ view = [r \in Readers |-> NoSnapshot]

Publish ==
  /\ newest' > newest
  /\ current' = newest'
  /\ UNCHANGED view

(* the run directory is removed, when svlopp exits or starts again *)
Clear == current' = NoSnapshot /\ UNCHANGED <<newest, view>>

Sample(r) ==
  /\ current # NoSnapshot
  /\ view' = [view EXCEPT ![r] = current]
  /\ UNCHANGED <<current, newest>>

Next == Publish \/ Clear \/ (\E r \in Readers : Sample(r))

Spec == Init /\ [][Next]_vars
=============================================================================

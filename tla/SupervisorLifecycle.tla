------------------------ MODULE SupervisorLifecycle ------------------------
(***************************************************************************)
(* Supervisor implements Lifecycle.  The state of a service is read off    *)
(* the registry, the owner of a process off the kernel's process table:    *)
(* each step that changes one changes the other to match.                  *)
(***************************************************************************)
EXTENDS Supervisor

Life == INSTANCE Lifecycle WITH
  life  <- [i \in Ids |-> services[i].state],
  owner <- [p \in Pids |-> procs[p].svc],
  fresh <- next_id,
  up    <- IF Exited THEN pc ELSE "up"

(* Whatever reload, control commands, the timer and the reaping of children *)
(* do in whatever order, every service lives the life Lifecycle describes:  *)
(* in particular no service is started twice, dropped while its process     *)
(* runs, or created under the id of another.                                *)
ImplementsLifecycle == Life!Spec
=============================================================================

----------------------------- MODULE ChildSetup -----------------------------
(***************************************************************************)
(* The life of one service process from fork to reaping, as src/service.rs *)
(* sets it up: start_service, child_exec, setup_child_stdio, stop_service, *)
(* force_kill_service_process, with the signal masks of src/signalfd.rs.   *)
(*                                                                         *)
(* The child runs concurrently with the supervisor, which considers the    *)
(* service Running as soon as fork returns and may stop it before it has   *)
(* become the service's program.  Supervisor takes the child to be in its  *)
(* own process group from the start and its signals to arrive; this module *)
(* is why.  Stop signals have their default disposition when svlopp is     *)
(* started.                                                                *)
(***************************************************************************)
EXTENDS Integers

CONSTANTS
  Configs,        \* definitions: the fields child_exec and stop_service use
  Worlds,         \* surroundings svlopp may be started in
  HUP, INT, QUIT, USR1, USR2, TERM, CHLD, KILL,  \* signals
  None

Inherited == "svlopp's"

StopSignals == {TERM, INT, QUIT, HUP, USR1, USR2}

(* user_group, working_directory and log_file_path may be absent *)
UserGroup == [uid : Nat, gid : Nat]
ServiceConfig ==
  [user_group : UserGroup \cup {None}, working_directory : {None, "cwd"},
   log_file : {None, "log"}, stop_signal : StopSignals]

(* a sigset_t, of the signals that matter here *)
SigSet == SUBSET (StopSignals \cup {CHLD})

(* User 0 is root.  `bad` are the calls that fail whoever makes them: a     *)
(* directory that is gone, no such program                                  *)
ChildCalls == {"sigprocmask", "setpgid", "chdir", "dup2", "exec"}
World == [uid : Nat, gid : Nat, original_sigset : SigSet, bad : SUBSET ChildCalls]

ASSUME ChildSetupAssumption ==
  /\ None \notin UserGroup
  /\ Configs \subseteq ServiceConfig
  /\ Worlds \subseteq World

VARIABLES
  cfg,      \* the definition of the service
  world,
  svc,      \* the service as the supervisor sees it: Stopped, Running, Stopping
  pc,       \* the child: the next call of child_exec, or what became of it
  mask,     \* the signals the child blocks
  pending,  \* the signals sent to it and not yet delivered
  pgrp,     \* its process group
  uid, gid, cwd,
  stdio,    \* where its three standard descriptors lead
  exit,     \* its exit status
  taken,    \* history: signals the program was delivered
  ctrl_c    \* history: whether the pending INT is the terminal's

childVars == <<mask, pending, pgrp, uid, gid, cwd, stdio, exit, taken, ctrl_c>>
vars == <<cfg, world, svc, pc, childVars>>

-----------------------------------------------------------------------------
(* Signals *)

(* run(): what is read from the signalfd is blocked first *)
sigset == {HUP, CHLD, TERM, INT}

(* block_thread_signals adds to the mask svlopp was started with *)
SupervisorMask == world.original_sigset \cup sigset

Alive == pc \notin {"none", "dead"}
Deliverable == {s \in pending : s \notin mask}

(* the child dies: it is a zombie until it is reaped *)
Die(how) == pc' = "dead" /\ exit' = how
Exits(code) == Die(<<"Exited", code>>)

(* kill(): a pending standard signal is not queued again *)
Send(s) == pending' = IF Alive THEN pending \cup {s} ELSE pending

-----------------------------------------------------------------------------
(* The supervisor *)

NoStdio == [in |-> None, out |-> None, err |-> None]

Init ==
  /\ cfg \in Configs
  /\ world \in Worlds
  /\ svc = "Stopped"
  /\ pc = "none"
  /\ mask = {} /\ pending = {} /\ pgrp = None
  /\ uid = 0 /\ gid = 0 /\ cwd = None /\ stdio = NoStdio
  /\ exit = None /\ taken = {} /\ ctrl_c = FALSE

(* /dev/null and the log file are opened, then the child is forked with    *)
(* everything that is svlopp's, except its pending signals; a failure of    *)
(* an open or of the fork changes nothing                                  *)
start_service ==
  /\ svc = "Stopped" /\ pc = "none"
  /\ svc' = "Running"
  /\ pc' = "sigprocmask"
  /\ mask' = SupervisorMask /\ pending' = {}
  /\ pgrp' = Inherited
  /\ uid' = world.uid /\ gid' = world.gid
  /\ cwd' = Inherited
  /\ stdio' = [in |-> Inherited, out |-> Inherited, err |-> Inherited]
  /\ exit' = None /\ taken' = {} /\ ctrl_c' = FALSE
  /\ UNCHANGED <<cfg, world>>

(* a kill that fails changes nothing *)
stop_service ==
  /\ svc = "Running"
  /\ Send(cfg.stop_signal)
  /\ svc' = "Stopping"
  /\ UNCHANGED <<cfg, world, pc, mask, pgrp, uid, gid, cwd, stdio, exit, taken, ctrl_c>>

(* some tick after the deadline; SIGKILL cannot be blocked *)
force_kill_service_process ==
  /\ svc = "Stopping"
  /\ Alive
  /\ Die(<<"Signaled", KILL>>)
  /\ UNCHANGED <<cfg, world, svc, mask, pending, pgrp, uid, gid, cwd, stdio, taken, ctrl_c>>

(* handle_sigchld; what becomes of the process group is Supervisor's matter *)
Reap ==
  /\ pc = "dead"
  /\ svc' = "Stopped"
  /\ pc' = "none"
  /\ UNCHANGED <<cfg, world, childVars>>

-----------------------------------------------------------------------------
(* The child: child_exec, one call after the other *)

(* mutant: the user is changed before the group *)
MutFollowedBy ==
  [sigprocmask |-> "setpgid", setpgid |-> "setuid", setuid |-> "setgid",
   setgid |-> "chdir", chdir |-> "dup2", dup2 |-> "exec", exec |-> "program"]

(* the order of the calls *)
FollowedBy ==
  [sigprocmask |-> "setpgid", setpgid |-> "setgid", setgid |-> "setuid",
   setuid |-> "chdir", chdir |-> "dup2", dup2 |-> "exec", exec |-> "program"]

(* a call leads to the next one, or to _exit(code) if it fails *)
Call(name, fails, code) ==
  /\ pc = name
  /\ Deliverable = {}
  /\ IF fails THEN Exits(code) ELSE pc' = FollowedBy[name] /\ UNCHANGED exit
  /\ UNCHANGED <<cfg, world, svc, pending, taken, ctrl_c>>

(* mutant: the child keeps the supervisor's mask *)
MutSetThreadSignalMask ==
  /\ Call("sigprocmask", FALSE, 111)
  /\ UNCHANGED <<mask, pgrp, uid, gid, cwd, stdio>>

set_thread_signal_mask ==
  LET fails == "sigprocmask" \in world.bad IN
  /\ Call("sigprocmask", fails, 111)
  /\ mask' = IF fails THEN mask ELSE world.original_sigset
  /\ UNCHANGED <<pgrp, uid, gid, cwd, stdio>>

(* mutant: the process group is left to the program *)
MutSetpgid ==
  /\ Call("setpgid", FALSE, 111)
  /\ UNCHANGED <<mask, pgrp, uid, gid, cwd, stdio>>

setpgid ==
  LET fails == "setpgid" \in world.bad IN
  /\ Call("setpgid", fails, 111)
  /\ pgrp' = IF fails THEN pgrp ELSE "own"
  /\ UNCHANGED <<mask, uid, gid, cwd, stdio>>

(* only root may become somebody else *)
MayBecome(id, current) == uid = 0 \/ id = current

setgid ==
  LET fails == cfg.user_group # None /\ ~MayBecome(cfg.user_group.gid, gid) IN
  /\ Call("setgid", fails, 111)
  /\ gid' = IF cfg.user_group = None \/ fails THEN gid ELSE cfg.user_group.gid
  /\ UNCHANGED <<mask, pgrp, uid, cwd, stdio>>

(* mutant: an absent user is taken for -1 *)
MutSetuid ==
  /\ Call("setuid", FALSE, 111)
  /\ uid' = IF cfg.user_group = None THEN -1 ELSE cfg.user_group.uid
  /\ UNCHANGED <<mask, pgrp, gid, cwd, stdio>>

setuid ==
  LET fails == cfg.user_group # None /\ ~MayBecome(cfg.user_group.uid, uid) IN
  /\ Call("setuid", fails, 111)
  /\ uid' = IF cfg.user_group = None \/ fails THEN uid ELSE cfg.user_group.uid
  /\ UNCHANGED <<mask, pgrp, gid, cwd, stdio>>

(* mutant: a working directory that cannot be entered is skipped *)
MutChdir ==
  LET fails == cfg.working_directory # None /\ "chdir" \in world.bad IN
  /\ Call("chdir", FALSE, 111)
  /\ cwd' = IF cfg.working_directory = None \/ fails THEN cwd ELSE cfg.working_directory
  /\ UNCHANGED <<mask, pgrp, uid, gid, stdio>>

chdir ==
  LET fails == cfg.working_directory # None /\ "chdir" \in world.bad IN
  /\ Call("chdir", fails, 111)
  /\ cwd' = IF cfg.working_directory = None \/ fails THEN cwd ELSE cfg.working_directory
  /\ UNCHANGED <<mask, pgrp, uid, gid, stdio>>

(* three dup2 calls; what the ones before a failing one did is lost in _exit *)
setup_child_stdio ==
  LET fails == "dup2" \in world.bad
      out == IF cfg.log_file = None THEN "devnull" ELSE cfg.log_file IN
  /\ Call("dup2", fails, 111)
  /\ stdio' = IF fails THEN stdio ELSE [in |-> "devnull", out |-> out, err |-> out]
  /\ UNCHANGED <<mask, pgrp, uid, gid, cwd>>

(* execvp, execvpe: mask and pending signals survive; a failure is _exit(127) *)
Exec ==
  /\ Call("exec", "exec" \in world.bad, 127)
  /\ UNCHANGED <<mask, pgrp, uid, gid, cwd, stdio>>

ChildExec ==
  \/ set_thread_signal_mask \/ setpgid \/ setgid \/ setuid \/ chdir
  \/ setup_child_stdio \/ Exec

-----------------------------------------------------------------------------
(* The kernel, the program and the terminal *)

(* before exec every stop signal has its default action, termination; the  *)
(* program may die of it, or handle it                                     *)
Deliver(s) ==
  /\ Alive
  /\ s \in Deliverable
  /\ pending' = pending \ {s}
  /\ \/ Die(<<"Signaled", s>>) /\ UNCHANGED taken
     \/ pc = "program" /\ taken' = taken \cup {s} /\ UNCHANGED <<pc, exit>>
  /\ UNCHANGED <<cfg, world, svc, mask, pgrp, uid, gid, cwd, stdio, ctrl_c>>

(* with a status other than the two of child_exec, to tell them apart *)
ProgramExits ==
  /\ pc = "program"
  /\ \E code \in {0, 1} : Exits(code)
  /\ UNCHANGED <<cfg, world, svc, mask, pending, pgrp, uid, gid, cwd, stdio, taken, ctrl_c>>

(* Ctrl+C: INT for every process in svlopp's group *)
TerminalInterrupt ==
  /\ Alive
  /\ pgrp = Inherited
  /\ INT \notin pending
  /\ Send(INT)
  /\ ctrl_c' = TRUE
  /\ UNCHANGED <<cfg, world, svc, pc, mask, pgrp, uid, gid, cwd, stdio, exit, taken>>

-----------------------------------------------------------------------------
Next ==
  \/ start_service \/ stop_service \/ force_kill_service_process \/ Reap
  \/ ChildExec
  \/ \E s \in StopSignals : Deliver(s)
  \/ ProgramExits
  \/ TerminalInterrupt

(* the child is scheduled and signals that are not blocked are delivered *)
Spec ==
  /\ Init /\ [][Next]_vars
  /\ WF_vars(ChildExec)
  /\ \A s \in StopSignals : WF_vars(Deliver(s))

-----------------------------------------------------------------------------
(* Properties *)

Signals == StopSignals \cup {CHLD, KILL}

(* Every variable has its type. *)
TypeOK ==
  /\ cfg \in Configs /\ world \in Worlds
  /\ svc \in {"Stopped", "Running", "Stopping"}
  /\ pc \in {"none", "setgid", "setuid", "program", "dead"} \cup ChildCalls
  /\ mask \in SigSet /\ pending \subseteq StopSignals /\ taken \subseteq StopSignals
  /\ pgrp \in {None, Inherited, "own"}
  /\ uid \in Nat /\ gid \in Nat
  /\ cwd \in {None, Inherited, "cwd"}
  /\ stdio \in [{"in", "out", "err"} -> {None, Inherited, "devnull", "log"}]
  /\ exit \in {None} \cup ({"Exited"} \X Nat) \cup ({"Signaled"} \X Signals)
  /\ ctrl_c \in BOOLEAN

(* A program never runs half set up: it leads its own group, so that the    *)
(* group kill after its death reaches its descendants, it has the user,     *)
(* directory and descriptors of its definition, and the signal mask svlopp  *)
(* was started with.                                                        *)
NeverHalfSetUp ==
  pc = "program" =>
    /\ pgrp = "own"
    /\ mask = world.original_sigset
    /\ [uid |-> uid, gid |-> gid] =
         IF cfg.user_group = None THEN [uid |-> world.uid, gid |-> world.gid] ELSE cfg.user_group
    /\ cwd = IF cfg.working_directory = None THEN Inherited ELSE cfg.working_directory
    /\ stdio.in = "devnull"
    /\ stdio.out = stdio.err
    /\ stdio.out = IF cfg.log_file = None THEN "devnull" ELSE cfg.log_file

(* The exit status tells what went wrong: 127 that the program could not be *)
(* executed, 111 that its surroundings could not be prepared; for an svlopp *)
(* that runs as root, changing the user is no reason, as the group is       *)
(* changed while it still is root.                                          *)
SetupFailsOnlyForCause ==
  /\ pc = "dead" /\ exit = <<"Exited", 127>> => "exec" \in world.bad
  /\ pc = "dead" /\ exit = <<"Exited", 111>> =>
       \/ world.bad \cap {"sigprocmask", "setpgid", "dup2"} # {}
       \/ cfg.working_directory # None /\ "chdir" \in world.bad
       \/ world.uid # 0 /\ cfg.user_group \notin {None, [uid |-> world.uid, gid |-> world.gid]}

(* Ctrl+C on svlopp's terminal is svlopp's business: it kills a child that  *)
(* is still in svlopp's group, but never reaches a service's program,       *)
(* unless svlopp was started with INT blocked.                              *)
TerminalDoesNotReachPrograms ==
  pc = "program" /\ INT \notin world.original_sigset => ~ctrl_c

(* A stop signal is never lost on the way to the program: one that arrives  *)
(* while the child still blocks it takes effect when the mask is restored,  *)
(* before or after exec.                                                    *)
StopSignalArrives ==
  (svc = "Stopping" /\ cfg.stop_signal \in pending /\ cfg.stop_signal \notin world.original_sigset)
    ~> (pc = "dead" \/ pc = "none" \/ cfg.stop_signal \in taken)
=============================================================================

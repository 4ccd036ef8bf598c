------------------------------ MODULE Service ------------------------------
(***************************************************************************)
(* The data of svlopp's src/service.rs and the transitions a service       *)
(* record goes through: ServiceConfig, ExitReason, ServiceStopReason,      *)
(* ServiceState, ServicePendingAction and Service.  There is no state      *)
(* here; Supervisor keeps one such record per service id.                  *)
(*                                                                         *)
(* Abstractions.  A configuration is a record of the four things the       *)
(* supervision logic tells apart (below); command, args, env, user, paths  *)
(* and stop_signal are collapsed into `ver`.  Instants are represented by  *)
(* their distance to now: `left` is the time left until the kill deadline, *)
(* and left = 0 stands for `now >= kill_deadline`.                         *)
(***************************************************************************)
EXTENDS Integers

CONSTANTS
  Names,    \* service names that may appear in the configuration file
  Configs,  \* service definitions that may appear in it
  Pids,     \* process ids the kernel can hand out
  None      \* the absence of a name, a configuration or a pid

PendingActions == {"None", "Restart", "Remove"}

(***************************************************************************)
(* argv_ok and envp_ok: whether CString::new accepts every string of the   *)
(* command line, resp. of the environment (a NUL byte makes it fail).      *)
(***************************************************************************)
ServiceConfig ==
  [ver : Nat, argv_ok : BOOLEAN, envp_ok : BOOLEAN,
   on_exit : PendingActions, stop_timeout : Nat]

ASSUME ServiceAssumption ==
  /\ Configs \subseteq ServiceConfig
  /\ None \notin Names /\ None \notin Configs /\ None \notin Pids

-----------------------------------------------------------------------------
(* Exit reasons and stop reasons *)

SIGHUP  == 1
SIGINT  == 2
SIGILL  == 4
SIGABRT == 6
SIGBUS  == 7
SIGFPE  == 8
SIGKILL == 9
SIGSEGV == 11
SIGTERM == 15
SIGCHLD == 17

is_crash_signal(sig) == sig \in {SIGSEGV, SIGABRT, SIGFPE, SIGILL, SIGBUS}

ExitReason == [kind : {"Exited", "Signaled"}, val : Nat]
NoExit     == [kind |-> "NotExited", val |-> 0]

StopReasons == {"NeverStarted", "SupervisorTerminated", "Success", "Error",
                "Crashed", "Killed"}
ServiceStopReason == [why : StopReasons, exit : ExitReason \cup {NoExit}]

NeverStarted == [why |-> "NeverStarted", exit |-> NoExit]
NotStopped   == [why |-> "NotStopped", exit |-> NoExit]

(***************************************************************************)
(* The classification of a reaped process.  A fault signal counts as a     *)
(* crash even while the service is being stopped; everything else that     *)
(* happens while it is being stopped is the supervisor's doing.            *)
(***************************************************************************)
StopReasonWhy(er, state) ==
  IF er.kind = "Signaled" /\ is_crash_signal(er.val) THEN "Crashed"
  ELSE IF state = "Stopping" THEN "SupervisorTerminated"
  ELSE IF er.kind = "Signaled" THEN "Killed"
  ELSE IF er.val = 0 THEN "Success" ELSE "Error"

from_exit_reason_and_service_state(er, state) ==
  [why |-> StopReasonWhy(er, state), exit |-> er]

-----------------------------------------------------------------------------
(* Service records *)

LiveStates    == {"Running", "Stopping"}
ServiceStates == {"Absent", "Stopped"} \cup LiveStates

(***************************************************************************)
(* argv is represented by the configuration it was built from.  envp is    *)
(* not kept: Service::new and update_config store it exactly when they     *)
(* store the configuration.  "Absent" marks an id that the registry's      *)
(* services_map does not hold.                                             *)
(***************************************************************************)
ServiceRecord ==
  [name    : Names \cup {None},
   config  : Configs \cup {None},
   argv    : Configs \cup {None},
   state   : ServiceStates,
   pid     : Pids \cup {None},
   left    : Nat,
   reason  : ServiceStopReason \cup {NotStopped},
   pending : PendingActions]

NoService ==
  [name |-> None, config |-> None, argv |-> None, state |-> "Absent",
   pid |-> None, left |-> 0, reason |-> NotStopped, pending |-> "None"]

(* Service::new fails when an argument or an environment entry is no C string *)
ValidCStrings(cfg) == cfg.argv_ok /\ cfg.envp_ok

NewService(name, cfg) ==
  [name |-> name, config |-> cfg, argv |-> cfg, state |-> "Stopped",
   pid |-> None, left |-> 0, reason |-> NeverStarted, pending |-> "None"]

(* start_service after a successful fork: Running(pid) *)
Started(svc, pid) ==
  [svc EXCEPT !.state = "Running", !.pid = pid, !.reason = NotStopped]

(* stop_service after a successful kill: Stopping(pid, now + stop_timeout) *)
StopRequested(svc) ==
  [svc EXCEPT !.state = "Stopping", !.left = svc.config.stop_timeout]

(* mutant: reaping also drops the pending action *)
MutReaped(svc, er) ==
  [svc EXCEPT !.state = "Stopped", !.pid = None, !.left = 0, !.pending = "None",
              !.reason = from_exit_reason_and_service_state(er, svc.state)]

(* handle_sigchld on the service whose process was reaped *)
Reaped(svc, er) ==
  [svc EXCEPT !.state = "Stopped", !.pid = None, !.left = 0,
              !.reason = from_exit_reason_and_service_state(er, svc.state)]

(* mutant: argv is rebuilt, the stored definition is not replaced *)
MutUpdateConfig(svc, cfg) == IF cfg.argv_ok THEN [svc EXCEPT !.argv = cfg] ELSE svc

(* mutant: the definition is replaced, argv is not rebuilt *)
MutUpdateKeepsArgv(svc, cfg) ==
  IF ValidCStrings(cfg) THEN [svc EXCEPT !.config = cfg] ELSE svc

(***************************************************************************)
(* update_config assigns argv before it builds envp, and the configuration *)
(* last: each `?` leaves what was assigned before it.                      *)
(***************************************************************************)
update_config(svc, cfg) ==
  IF ~cfg.argv_ok THEN svc
  ELSE IF ~cfg.envp_ok THEN [svc EXCEPT !.argv = cfg]
  ELSE [svc EXCEPT !.argv = cfg, !.config = cfg]

(* mutant: the fallback wins over the pending action *)
MutTickDecision(svc) ==
  IF svc.config.on_exit # "None" THEN svc.config.on_exit ELSE "None"

(* the timer arm: the pending action, or else the on_exit fallback *)
TickDecision(svc) ==
  IF svc.pending # "None" THEN svc.pending
  ELSE IF svc.reason.why \in {"NeverStarted", "SupervisorTerminated"} THEN "None"
  ELSE svc.config.on_exit
=============================================================================

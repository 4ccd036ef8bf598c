----------------------------- MODULE Supervisor -----------------------------
(***************************************************************************)
(* svlopp's event loop (src/main.rs `run`) with the registry, reload,      *)
(* control and reaping code it calls (src/service.rs), composed with the   *)
(* kernel objects it talks to: the process table, the pending signals      *)
(* behind the signalfd, the periodic timer and the control FIFO.           *)
(*                                                                         *)
(* The supervisor is one sequential process.  pc says where it is; every   *)
(* `for` loop over a HashMap or a batch is a pc value plus the set of what *)
(* is still to be visited, so that any iteration order is a behaviour and  *)
(* an early return (`?`) leaves exactly the visited part done.  Kernel and *)
(* users move between any two of its steps.                                *)
(***************************************************************************)
EXTENDS Service, Sequences

CONSTANTS
  MaxId,         \* the largest u64: ServiceIdGen never hands it out
  ConfigFiles,   \* what the user may have written in the file when it is read
  Unparsable,    \* a content from_config_file rejects
  UserSignals,   \* signals users send to svlopp
  Ops,           \* control operations writers send
  ExitStatuses,  \* ways a process may end by itself or by another's signal
  Faults,        \* what may go wrong around the supervisor: see FaultKinds
  FifoCap,       \* commands the control FIFO holds
  Descendants    \* whether services fork processes of their own

FaultKinds ==
  {"start",   \* open or fork in start_service
   "stop",    \* kill in stop_service
   "kill",    \* kill in force_kill_service_process
   "group",   \* kill of the process group in handle_sigchld
   "status",  \* write_status_file
   "frame",   \* a writer's frame that does not decode
   "loop"}    \* epoll_wait, waitpid and the reads: errors that leave the loop

Ids  == 0 .. MaxId
NoId == -1
ConfigFile == [Names -> Configs \cup {None}]
ControlOps == {"Stop", "Start", "Restart"}

ASSUME SupervisorAssumption ==
  /\ MaxId \in Nat
  /\ ConfigFiles \subseteq ConfigFile \cup {Unparsable}
  /\ Unparsable \notin ConfigFile
  /\ UserSignals \subseteq {SIGHUP, SIGINT, SIGTERM}
  /\ Ops \subseteq ControlOps
  /\ ExitStatuses \subseteq ExitReason
  /\ Faults \subseteq FaultKinds
  /\ FifoCap \in Nat
  /\ Descendants \in BOOLEAN

VARIABLES
  (* the memory of the supervisor *)
  services,     \* services_map: id -> Service
  pids_map,     \* pid -> id
  next_id,      \* ServiceIdGen
  sv_state,     \* SupervisorState
  pc,           \* where the supervisor is
  events,       \* the rest of events_buf
  batch,        \* the rest of siginfo_buf
  todo,         \* names the current loop still has to visit
  ids,          \* ids the current loop still has to visit
  service_ids,  \* reload_services: name -> id, taken when the reload starts
  new_cfg,      \* the parsed configuration being applied
  reaped,       \* handle_sigchld: the pid whose group is to be killed next
  (* the outside world *)
  procs,        \* the kernel's process table
  sigpending,   \* signals pending for the signalfd
  timer,        \* whether the timerfd has expired since it was read
  fifo,         \* commands in the control FIFO
  status        \* the status file

registryVars == <<services, pids_map>>
reloadVars   == <<todo, service_ids, new_cfg>>
worldVars    == <<timer, fifo>>
vars == <<registryVars, next_id, sv_state, pc, events, batch, reloadVars, ids,
          reaped, procs, sigpending, worldVars, status>>

-----------------------------------------------------------------------------
(* The kernel's process table.                                             *)
(*                                                                         *)
(* `svc` and `cfg` record which service a process was forked for and with  *)
(* which definition; `grp` is the service whose process group it is in;    *)
(* `owed` is the part of the stop timeout that has not elapsed since the   *)
(* process was sent its stop signal.  They are history: no guard of the    *)
(* supervisor reads them.                                                  *)

NotAsked == -1
Process ==
  [st   : {"free", "alive", "doomed", "zombie"},  \* doomed: SIGKILL is pending
   pgid : Pids \cup {None},
   svc  : Ids \cup {NoId},
   grp  : Ids \cup {NoId},
   cfg  : Configs \cup {None},
   exit : ExitReason \cup {NoExit},
   owed : Nat \cup {NotAsked}]

NoProcess ==
  [st |-> "free", pgid |-> None, svc |-> NoId, grp |-> NoId, cfg |-> None,
   exit |-> NoExit, owed |-> NotAsked]

ServiceProcess(pid, i, cfg) ==
  [NoProcess EXCEPT !.st = "alive", !.pgid = pid, !.svc = i, !.grp = i, !.cfg = cfg]

(* a descendant that stays in a process group, and one that leads its own *)
GroupMember(pgid, grp) ==
  [NoProcess EXCEPT !.st = "alive", !.pgid = pgid, !.grp = grp]
GroupLeader(pid) == GroupMember(pid, NoId)

(* a number is reusable once neither a process nor a process group has it *)
FreePids ==
  {p \in Pids : procs[p].st = "free" /\ \A q \in Pids : procs[q].pgid # p}

Kill(proc) == IF proc.st = "alive" THEN [proc EXCEPT !.st = "doomed"] ELSE proc

-----------------------------------------------------------------------------
(* The registry and the status file *)

Registered == {i \in Ids : services[i].state # "Absent"}

(* mutant: a service that is being stopped counts as stopped *)
MutAllStopped == \A i \in Registered : services[i].state # "Running"

AllStopped == \A i \in Registered : services[i].state = "Stopped"

(* mutant: services that wait for their removal are left out of the index *)
MutIdsByName ==
  LET Kept == {i \in Registered : services[i].pending # "Remove"} IN
  [n \in Names |-> IF \E i \in Kept : services[i].name = n
                   THEN CHOOSE i \in Kept : services[i].name = n
                   ELSE NoId]

(* the id an entry of the registry has under a name, as reload looks it up *)
IdsByName ==
  [n \in Names |-> IF \E i \in Registered : services[i].name = n
                   THEN CHOOSE i \in Registered : services[i].name = n
                   ELSE NoId]

StatusRecord ==
  [name : Names \cup {None}, state : ServiceStates, pid : Pids \cup {None},
   reason : ServiceStopReason \cup {NotStopped}]
StatusLine(svc) ==
  [name |-> svc.name, state |-> svc.state, pid |-> svc.pid, reason |-> svc.reason]
format_status(svcs) == [i \in Ids |-> StatusLine(svcs[i])]
NoStatus == [i \in Ids |-> StatusLine(NoService)]

(* written to a temporary file and renamed; a failure is logged only *)
flush_status_file ==
  \/ status' = format_status(services')
  \/ "status" \in Faults /\ UNCHANGED status

(* mutants: no overflow check; the smallest id that is not in use *)
MutIdAvailable == TRUE
MutNextval == CHOOSE i \in Ids : /\ i \notin Registered
                                 /\ \A j \in Ids : j < i => j \in Registered

(* ServiceIdGen::nextval yields the counter unless checked_add overflows *)
IdAvailable == next_id + 1 <= MaxId
nextval == next_id

-----------------------------------------------------------------------------
(* start_service and stop_service, with the registration that follows them *)

(* mutant: the pid is not registered *)
MutStartOk(i, svc) ==
  \E pid \in FreePids :
    /\ services' = [services EXCEPT ![i] = Started(svc, pid)]
    /\ procs' = [procs EXCEPT ![pid] = ServiceProcess(pid, i, svc.config)]
    /\ UNCHANGED pids_map

(* a fork that succeeds: svc, to be stored under i, becomes Running(pid) *)
StartOk(i, svc) ==
  \E pid \in FreePids :
    /\ services' = [services EXCEPT ![i] = Started(svc, pid)]
    /\ pids_map' = [pids_map EXCEPT ![pid] = i]
    /\ procs' = [procs EXCEPT ![pid] = ServiceProcess(pid, i, svc.config)]

StartFails == "start" \in Faults \/ FreePids = {}

(* a stop signal that is delivered: svc, stored under i, becomes Stopping *)
StopOk(i, svc) ==
  /\ services' = [services EXCEPT ![i] = StopRequested(svc)]
  /\ procs' = [procs EXCEPT ![svc.pid].owed = svc.config.stop_timeout]
  /\ UNCHANGED pids_map

StopFails == "stop" \in Faults

(* svc is stored under i and nothing else of the registry changes *)
Store(i, svc) ==
  /\ services' = [services EXCEPT ![i] = svc]
  /\ UNCHANGED <<pids_map, procs>>

-----------------------------------------------------------------------------
(* Start of `run`: read the configuration, insert every service, start each *)

Defined(file) == {n \in Names : file[n] # None}
NoIds == [n \in Names |-> NoId]
NoCfg == [n \in Names |-> None]

(* `run` returns; main removes the run directory with the status file *)
Exit(how) == pc' = how /\ status' = NoStatus

Init ==
  /\ services = [i \in Ids |-> NoService]
  /\ pids_map = [p \in Pids |-> NoId]
  /\ next_id = 0
  /\ sv_state = "Running"
  /\ pc = "boot"
  /\ events = {} /\ batch = {} /\ todo = {} /\ ids = {}
  /\ service_ids = NoIds
  /\ new_cfg = NoCfg
  /\ reaped = None
  /\ procs = [p \in Pids |-> NoProcess]
  /\ sigpending = {}
  /\ timer = FALSE
  /\ fifo = <<>>
  /\ status = NoStatus

Boot ==
  /\ pc = "boot"
  /\ \/ /\ Unparsable \in ConfigFiles
        /\ Exit("exited_err")
        /\ UNCHANGED <<todo, new_cfg>>
     \/ /\ \E file \in ConfigFiles \ {Unparsable} : new_cfg' = file /\ todo' = Defined(file)
        /\ pc' = "load"
        /\ UNCHANGED status
  /\ UNCHANGED <<registryVars, next_id, sv_state, events, batch, service_ids,
                 ids, reaped, procs, sigpending, worldVars>>

LoadService(n) ==
  /\ pc = "load"
  /\ n \in todo
  /\ \/ /\ IdAvailable
        /\ ValidCStrings(new_cfg[n])
        /\ Store(nextval, NewService(n, new_cfg[n]))
        /\ next_id' = next_id + 1
        /\ todo' = todo \ {n}
        /\ UNCHANGED <<pc, status>>
     \/ /\ ~(IdAvailable /\ ValidCStrings(new_cfg[n]))
        /\ Exit("exited_err")
        /\ UNCHANGED <<registryVars, procs, next_id, todo>>
  /\ UNCHANGED <<sv_state, events, batch, service_ids, new_cfg, ids, reaped,
                 sigpending, worldVars>>

LoadDone ==
  /\ pc = "load"
  /\ todo = {}
  /\ pc' = "start"
  /\ ids' = Registered
  /\ new_cfg' = NoCfg
  /\ UNCHANGED <<registryVars, next_id, sv_state, events, batch, todo,
                 service_ids, reaped, procs, sigpending, worldVars, status>>

BootStart(i) ==
  /\ pc = "start"
  /\ i \in ids
  /\ ids' = ids \ {i}
  /\ \/ StartOk(i, services[i])
     \/ StartFails /\ UNCHANGED <<registryVars, procs>>
  /\ UNCHANGED <<next_id, sv_state, pc, events, batch, reloadVars, reaped,
                 sigpending, worldVars, status>>

BootDone ==
  /\ pc = "start"
  /\ ids = {}
  /\ pc' = "wait"
  /\ UNCHANGED registryVars
  /\ flush_status_file
  /\ UNCHANGED <<next_id, sv_state, events, batch, reloadVars, ids, reaped,
                 procs, sigpending, worldVars>>

-----------------------------------------------------------------------------
(* The epoll loop: one snapshot of the ready descriptors, each handled once *)

Ready ==
  (IF sigpending # {} THEN {"sfd"} ELSE {}) \cup
  (IF timer THEN {"tfd"} ELSE {}) \cup
  (IF fifo # <<>> THEN {"pfd"} ELSE {})

EpollWait ==
  /\ pc = "wait"
  /\ Ready # {}
  /\ events' = Ready
  /\ pc' = "dispatch"
  /\ UNCHANGED <<registryVars, next_id, sv_state, batch, reloadVars, ids,
                 reaped, procs, sigpending, worldVars, status>>

(* the system calls of the loop whose error ends `run` *)
LoopFails ==
  /\ pc \in {"wait", "dispatch", "reap"}
  /\ "loop" \in Faults
  /\ Exit("exited_err")
  /\ UNCHANGED <<registryVars, next_id, sv_state, events, batch, reloadVars,
                 ids, reaped, procs, sigpending, worldVars>>

(* where the loop goes when the handler of an event returns *)
AfterEvent == IF events' = {} THEN "wait" ELSE "dispatch"

(* standard signals coalesce: siginfo_buf always has room for all of them *)
ReadSignals ==
  /\ pc = "dispatch"
  /\ "sfd" \in events
  /\ events' = events \ {"sfd"}
  /\ batch' = sigpending
  /\ sigpending' = {}
  /\ pc' = "signals"
  /\ UNCHANGED <<registryVars, next_id, sv_state, reloadVars, ids, reaped,
                 procs, worldVars, status>>

(* the kernel hands out pending signals lowest number first *)
NextSignal(sig) == sig \in batch /\ \A other \in batch : sig <= other

SignalsDone ==
  /\ pc = "signals"
  /\ batch = {}
  /\ UNCHANGED registryVars
  /\ flush_status_file
  /\ UNCHANGED events
  /\ pc' = AfterEvent
  /\ UNCHANGED <<next_id, sv_state, batch, reloadVars, ids, reaped, procs,
                 sigpending, worldVars>>

-----------------------------------------------------------------------------
(* SIGHUP: reload_services *)

(* not while shutting down; a configuration that does not parse is logged *)
ReloadRefused ==
  /\ pc = "signals"
  /\ NextSignal(SIGHUP)
  /\ sv_state # "Running" \/ Unparsable \in ConfigFiles
  /\ batch' = batch \ {SIGHUP}
  /\ UNCHANGED <<registryVars, next_id, sv_state, pc, events, reloadVars, ids,
                 reaped, procs, sigpending, worldVars, status>>

ReloadBegin ==
  /\ pc = "signals"
  /\ NextSignal(SIGHUP)
  /\ sv_state = "Running"
  /\ batch' = batch \ {SIGHUP}
  /\ \E file \in ConfigFiles \ {Unparsable} : new_cfg' = file
  /\ service_ids' = IdsByName
  /\ todo' = {n \in Names : service_ids'[n] # NoId /\ new_cfg'[n] = None}
  /\ pc' = "remove"
  /\ UNCHANGED <<registryVars, next_id, sv_state, events, ids, reaped, procs,
                 sigpending, worldVars, status>>

(* the visit of n is over *)
ReloadContinues(n) ==
  /\ todo' = todo \ {n}
  /\ UNCHANGED <<pc, service_ids, new_cfg>>

(* reload_services returns, with an error or at its end *)
ReloadReturns ==
  /\ pc' = "signals"
  /\ todo' = {}
  /\ service_ids' = NoIds
  /\ new_cfg' = NoCfg

reloadFrame ==
  UNCHANGED <<sv_state, events, batch, ids, reaped, sigpending, worldVars, status>>

(* mutants: the service is marked and not asked to stop; the action is set *)
(* after stop_service, so that its `?` skips it                            *)
MutMarkOnly(n, i, svc, action) ==
  /\ svc.state \in LiveStates
  /\ Store(i, [svc EXCEPT !.pending = action])
  /\ ReloadContinues(n)
MutStopThenMark(n, i, svc, action) ==
  LET marked == [svc EXCEPT !.pending = action] IN
  \/ svc.state = "Running" /\ StopOk(i, marked) /\ ReloadContinues(n)
  \/ svc.state = "Running" /\ StopFails /\ Store(i, svc) /\ ReloadReturns
  \/ svc.state = "Stopping" /\ Store(i, marked) /\ ReloadContinues(n)

(* set the pending action, then stop_service: `?` leaves the former done *)
PendAndStop(n, i, svc, action) ==
  LET marked == [svc EXCEPT !.pending = action] IN
  \/ /\ svc.state = "Running"
     /\ StopOk(i, marked)
     /\ ReloadContinues(n)
  \/ /\ svc.state = "Running"
     /\ StopFails
     /\ Store(i, marked)
     /\ ReloadReturns
  \/ /\ svc.state = "Stopping"
     /\ Store(i, marked)
     /\ ReloadContinues(n)

(* mutant: a service is dropped from the registry although it is running *)
MutReloadRemove(n) ==
  /\ pc = "remove"
  /\ n \in todo
  /\ Store(service_ids[n], NoService)
  /\ ReloadContinues(n)
  /\ UNCHANGED next_id
  /\ reloadFrame

(* first loop: a service that the new configuration no longer has *)
ReloadRemove(n) ==
  LET i == service_ids[n]
      svc == services[i] IN
  /\ pc = "remove"
  /\ n \in todo
  /\ \/ /\ svc.state = "Stopped"
        /\ Store(i, NoService)
        /\ ReloadContinues(n)
     \/ PendAndStop(n, i, svc, "Remove")
  /\ UNCHANGED next_id
  /\ reloadFrame

ReloadRemoveDone ==
  /\ pc = "remove"
  /\ todo = {}
  /\ pc' = "apply"
  /\ todo' = Defined(new_cfg)
  /\ UNCHANGED <<registryVars, next_id, service_ids, new_cfg, procs>>
  /\ reloadFrame

(* second loop: a service the registry did not have when the reload began. *)
(* The id is spent even if the service then cannot be created or started.  *)
ReloadAdd(n) ==
  /\ pc = "apply"
  /\ n \in todo
  /\ service_ids[n] = NoId
  /\ \/ /\ IdAvailable
        /\ ValidCStrings(new_cfg[n])
        /\ StartOk(nextval, NewService(n, new_cfg[n]))
        /\ next_id' = next_id + 1
        /\ ReloadContinues(n)
     \/ /\ IdAvailable
        /\ ~ValidCStrings(new_cfg[n]) \/ StartFails
        /\ next_id' = next_id + 1
        /\ UNCHANGED <<registryVars, procs>>
        /\ ReloadReturns
     \/ /\ ~IdAvailable
        /\ UNCHANGED <<registryVars, procs, next_id>>
        /\ ReloadReturns
  /\ reloadFrame

(* second loop: a service whose definition changed *)
ReloadChange(n) ==
  LET i == service_ids[n]
      cfg == new_cfg[n]
      svc == update_config(services[i], cfg) IN
  /\ pc = "apply"
  /\ n \in todo
  /\ i \in Registered
  /\ services[i].config # cfg
  /\ \/ /\ ~ValidCStrings(cfg)
        /\ Store(i, svc)
        /\ ReloadReturns
     \/ /\ ValidCStrings(cfg)
        /\ svc.state = "Stopped"
        /\ StartOk(i, svc)
        /\ ReloadContinues(n)
     \/ /\ ValidCStrings(cfg)
        /\ svc.state = "Stopped"
        /\ StartFails
        /\ Store(i, svc)
        /\ ReloadReturns
     \/ /\ ValidCStrings(cfg)
        /\ PendAndStop(n, i, svc, "Restart")
  /\ UNCHANGED next_id
  /\ reloadFrame

ReloadUnchanged(n) ==
  LET i == service_ids[n] IN
  /\ pc = "apply"
  /\ n \in todo
  /\ i # NoId
  /\ ~(i \in Registered /\ services[i].config # new_cfg[n])
  /\ ReloadContinues(n)
  /\ UNCHANGED <<registryVars, procs, next_id>>
  /\ reloadFrame

ReloadDone ==
  /\ pc = "apply"
  /\ todo = {}
  /\ ReloadReturns
  /\ UNCHANGED <<registryVars, procs, next_id>>
  /\ reloadFrame

-----------------------------------------------------------------------------
(* SIGCHLD: handle_sigchld waits until no child is left to wait for *)

SigChld ==
  /\ pc = "signals"
  /\ NextSignal(SIGCHLD)
  /\ batch' = batch \ {SIGCHLD}
  /\ pc' = "reap"
  /\ UNCHANGED <<registryVars, next_id, sv_state, events, reloadVars, ids,
                 reaped, procs, sigpending, worldVars, status>>

Zombies == {p \in Pids : procs[p].st = "zombie"}

(* mutant: get_by_pid instead of take_by_pid *)
MutReap(p) ==
  LET i == pids_map[p] IN
  /\ pc = "reap"
  /\ p \in Zombies
  /\ procs' = [procs EXCEPT ![p] = NoProcess]
  /\ services' = IF i = NoId THEN services
                 ELSE [services EXCEPT ![i] = Reaped(services[i], procs[p].exit)]
  /\ UNCHANGED <<pids_map, next_id, sv_state, pc, events, batch, reloadVars, ids,
                 reaped, sigpending, worldVars, status>>

(* waitpid and take_by_pid; the process group is killed in the next step,  *)
(* when the number p may already belong to somebody else.  The new state   *)
(* of the service, assigned after that kill, is not observable before it.  *)
Reap(p) ==
  LET i == pids_map[p] IN
  /\ pc = "reap"
  /\ p \in Zombies
  /\ procs' = [procs EXCEPT ![p] = NoProcess]
  /\ \/ /\ i # NoId
        /\ pids_map' = [pids_map EXCEPT ![p] = NoId]
        /\ services' = [services EXCEPT ![i] = Reaped(services[i], procs[p].exit)]
        /\ reaped' = p
        /\ pc' = "killgroup"
     \/ /\ i = NoId        \* an adopted descendant
        /\ UNCHANGED <<registryVars, reaped, pc>>
  /\ UNCHANGED <<next_id, sv_state, events, batch, reloadVars, ids, sigpending,
                 worldVars, status>>

(* mutants: only the leader is killed; one child is reaped per SIGCHLD *)
MutKillGroup ==
  /\ pc = "killgroup"
  /\ procs' = [procs EXCEPT ![reaped] = Kill(@)]
  /\ reaped' = None
  /\ pc' = "reap"
  /\ UNCHANGED <<registryVars, next_id, sv_state, events, batch, reloadVars,
                 ids, sigpending, worldVars, status>>
MutReapOne ==
  /\ pc = "killgroup"
  /\ reaped' = None
  /\ pc' = "signals"
  /\ UNCHANGED <<registryVars, next_id, sv_state, events, batch, reloadVars,
                 ids, procs, sigpending, worldVars, status>>

KillGroup ==
  /\ pc = "killgroup"
  /\ \/ procs' = [q \in Pids |-> IF procs[q].pgid = reaped THEN Kill(procs[q])
                                 ELSE procs[q]]
     \/ "group" \in Faults /\ UNCHANGED procs
  /\ reaped' = None
  /\ pc' = "reap"
  /\ UNCHANGED <<registryVars, next_id, sv_state, events, batch, reloadVars,
                 ids, sigpending, worldVars, status>>

(* the check shared by the SIGCHLD and the SIGTERM/SIGINT arms *)
ExitIfAllStopped ==
  IF sv_state = "ShutdownRequested" /\ AllStopped
  THEN Exit("exited_ok")
  ELSE pc' = "signals" /\ UNCHANGED status

(* mutant: the SIGCHLD arm does not look whether the shutdown is complete *)
MutReapDone ==
  /\ pc = "reap"
  /\ Zombies = {}
  /\ pc' = "signals"
  /\ UNCHANGED <<registryVars, next_id, sv_state, events, batch, reloadVars,
                 ids, reaped, procs, sigpending, worldVars, status>>

ReapDone ==
  /\ pc = "reap"
  /\ Zombies = {}
  /\ ExitIfAllStopped
  /\ UNCHANGED <<registryVars, next_id, sv_state, events, batch, reloadVars,
                 ids, reaped, procs, sigpending, worldVars>>

-----------------------------------------------------------------------------
(* SIGTERM, SIGINT: request a shutdown; only the first one stops services *)

SigTerm(sig) ==
  /\ pc = "signals"
  /\ sig \in {SIGINT, SIGTERM}
  /\ NextSignal(sig)
  /\ batch' = batch \ {sig}
  /\ ids' = IF sv_state = "Running" THEN Registered ELSE {}
  /\ sv_state' = "ShutdownRequested"
  /\ pc' = "shutdown"
  /\ UNCHANGED <<registryVars, next_id, events, reloadVars, reaped, procs,
                 sigpending, worldVars, status>>

ShutdownStop(i) ==
  /\ pc = "shutdown"
  /\ i \in ids
  /\ ids' = ids \ {i}
  /\ \/ services[i].state = "Running" /\ StopOk(i, services[i])
     \/ /\ services[i].state # "Running" \/ StopFails
        /\ UNCHANGED <<registryVars, procs>>
  /\ UNCHANGED <<next_id, sv_state, pc, events, batch, reloadVars, reaped,
                 sigpending, worldVars, status>>

ShutdownDone ==
  /\ pc = "shutdown"
  /\ ids = {}
  /\ ExitIfAllStopped
  /\ UNCHANGED <<registryVars, next_id, sv_state, events, batch, reloadVars,
                 ids, reaped, procs, sigpending, worldVars>>

-----------------------------------------------------------------------------
(* The timer: kill what is overdue, apply pending actions and fallbacks *)

(* mutants: the deadline is not looked at; `now > kill_deadline` at a clock *)
(* that never passes it                                                     *)
MutOverdue(svc) == svc.state = "Stopping"
MutNeverOverdue(svc) == svc.state = "Stopping" /\ svc.left < 0

Overdue(svc) == svc.state = "Stopping" /\ svc.left = 0

(* `now` is read once: what is overdue is decided here for the whole tick. *)
(* Running services and those stopping in time are visited without effect. *)
ReadTimer ==
  /\ pc = "dispatch"
  /\ "tfd" \in events
  /\ events' = events \ {"tfd"}
  /\ timer' = FALSE
  /\ ids' = {i \in Registered : services[i].state = "Stopped" \/ Overdue(services[i])}
  /\ pc' = "tick"
  /\ UNCHANGED <<registryVars, next_id, sv_state, batch, reloadVars, reaped,
                 procs, sigpending, fifo, status>>

tickFrame ==
  UNCHANGED <<next_id, sv_state, pc, events, batch, reloadVars, reaped,
              sigpending, worldVars, status>>

TickKill(i) ==
  /\ pc = "tick"
  /\ i \in ids
  /\ services[i].state = "Stopping"
  /\ ids' = ids \ {i}
  /\ \/ procs' = [procs EXCEPT ![services[i].pid] = Kill(@)]
     \/ "kill" \in Faults /\ UNCHANGED procs
  /\ UNCHANGED registryVars
  /\ tickFrame

(* take_pending_action clears the action before it is carried out *)
TickStopped(i) ==
  LET svc == [services[i] EXCEPT !.pending = "None"]
      action == TickDecision(services[i]) IN
  /\ pc = "tick"
  /\ i \in ids
  /\ services[i].state = "Stopped"
  /\ ids' = ids \ {i}
  /\ \/ action = "None" /\ Store(i, svc)
     \/ action = "Remove" /\ Store(i, NoService)
     \/ action = "Restart" /\ StartOk(i, svc)
     \/ action = "Restart" /\ StartFails /\ Store(i, svc)
  /\ tickFrame

(* mutant: the timer arm does not flush the status file *)
MutTickDone ==
  /\ pc = "tick"
  /\ ids = {}
  /\ UNCHANGED events
  /\ pc' = AfterEvent
  /\ UNCHANGED <<registryVars, next_id, sv_state, batch, reloadVars, ids, reaped,
                 procs, sigpending, worldVars, status>>

TickDone ==
  /\ pc = "tick"
  /\ ids = {}
  /\ UNCHANGED registryVars
  /\ flush_status_file
  /\ UNCHANGED events
  /\ pc' = AfterEvent
  /\ UNCHANGED <<next_id, sv_state, batch, reloadVars, ids, reaped, procs,
                 sigpending, worldVars>>

-----------------------------------------------------------------------------
(* The control FIFO: one command per readiness event *)

(* a frame read_control_command rejects: logged, nothing is flushed *)
InvalidFrame == [op |-> "Invalid", id |-> NoId, name |-> None]

(* `name` is the service the writer meant; the supervisor never sees it *)
ControlCommand ==
  [op : ControlOps, id : Ids, name : Names] \cup {InvalidFrame}

(* read_control_command accepts a whole frame by its operation only: every *)
(* id decodes                                                              *)
Decodes(frame) == frame.op \in ControlOps

(* apply_control_op on a registered service *)
ControlStop(i, svc) ==
  /\ svc.state = "Running"
  /\ StopOk(i, svc) \/ (StopFails /\ UNCHANGED <<registryVars, procs>>)

ControlStart(i, svc) ==
  /\ svc.state = "Stopped" /\ svc.pending = "None"
  /\ StartOk(i, svc) \/ (StartFails /\ UNCHANGED <<registryVars, procs>>)

(* mutant: Restart overrides the action pending for a service being stopped *)
MutControlRestart(i, svc) ==
  LET marked == [svc EXCEPT !.pending = "Restart"] IN
  \/ svc.state = "Running" /\ StopOk(i, marked)
  \/ svc.state = "Stopping" /\ Store(i, marked)

ControlRestart(i, svc) ==
  LET marked == [svc EXCEPT !.pending = "Restart"] IN
  /\ svc.state = "Running" /\ svc.pending = "None"
  /\ StopOk(i, marked) \/ (StopFails /\ Store(i, marked))

(* an unknown id, or a request the current state does not admit *)
ControlIgnored(op, svc) ==
  /\ ~(op = "Stop" /\ svc.state = "Running")
  /\ ~(op \in {"Start", "Restart"} /\ svc.state = "Stopped" /\ svc.pending = "None")
  /\ ~(op = "Restart" /\ svc.state = "Running" /\ svc.pending = "None")
  /\ UNCHANGED <<registryVars, procs>>

apply_control_op(op, i, svc) ==
  \/ op = "Stop" /\ ControlStop(i, svc)
  \/ op \in {"Start", "Restart"} /\ ControlStart(i, svc)
  \/ op = "Restart" /\ ControlRestart(i, svc)
  \/ ControlIgnored(op, svc)

ReadControl ==
  /\ pc = "dispatch"
  /\ "pfd" \in events
  /\ fifo # <<>>
  /\ events' = events \ {"pfd"}
  /\ pc' = AfterEvent
  /\ fifo' = Tail(fifo)
  /\ \/ /\ Decodes(Head(fifo))
        /\ apply_control_op(Head(fifo).op, Head(fifo).id, services[Head(fifo).id])
        /\ flush_status_file
     \/ /\ ~Decodes(Head(fifo))
        /\ UNCHANGED <<registryVars, procs, status>>
  /\ UNCHANGED <<next_id, sv_state, batch, reloadVars, ids, reaped, sigpending,
                 timer>>

-----------------------------------------------------------------------------
(* The outside world, for as long as the supervisor runs *)

Exited == pc \in {"exited_ok", "exited_err"}

supervisorVars ==
  <<pids_map, next_id, sv_state, pc, events, batch, reloadVars, ids, reaped, status>>

(* a standard signal that is already pending is not queued again *)
SendSignal(sig) ==
  /\ ~Exited
  /\ sigpending' = sigpending \cup {sig}
  /\ UNCHANGED <<services, supervisorVars, procs, worldVars>>

(* writers resolve a name to an id in the status file, then write a frame *)
SendCommand(op, i) ==
  /\ ~Exited
  /\ Len(fifo) < FifoCap
  /\ status[i].state # "Absent"
  /\ fifo' = Append(fifo, [op |-> op, id |-> i, name |-> status[i].name])
  /\ UNCHANGED <<services, supervisorVars, procs, sigpending, timer>>

SendInvalidFrame ==
  /\ ~Exited
  /\ "frame" \in Faults
  /\ Len(fifo) < FifoCap
  /\ fifo' = Append(fifo, InvalidFrame)
  /\ UNCHANGED <<services, supervisorVars, procs, sigpending, timer>>

(* a process becomes a zombie and the supervisor is sent SIGCHLD *)
BecomeZombie(p, exit) ==
  /\ procs' = [procs EXCEPT ![p].st = "zombie", ![p].exit = exit]
  /\ sigpending' = sigpending \cup {SIGCHLD}
  /\ UNCHANGED <<services, supervisorVars, worldVars>>

ProcessExits(p, exit) ==
  /\ ~Exited
  /\ procs[p].st = "alive"
  /\ BecomeZombie(p, exit)

ProcessKilled(p) ==
  /\ ~Exited
  /\ procs[p].st = "doomed"
  /\ BecomeZombie(p, [kind |-> "Signaled", val |-> SIGKILL])

(* A descendant p of the live process q loses its parent and becomes a    *)
(* child of the subreaper; it is in the group of q unless it left it.     *)
Adopt(p, q) ==
  /\ ~Exited
  /\ Descendants
  /\ p \in FreePids
  /\ procs[q].st = "alive"
  /\ \E orphan \in {GroupMember(procs[q].pgid, procs[q].grp), GroupLeader(p)} :
       procs' = [procs EXCEPT ![p] = orphan]
  /\ UNCHANGED <<services, supervisorVars, sigpending, worldVars>>

TimerExpires ==
  /\ ~Exited
  /\ ~timer
  /\ timer' = TRUE
  /\ UNCHANGED <<services, supervisorVars, procs, sigpending, fifo>>

(* one unit of time passes; only running stop timeouts can tell *)
TimePasses ==
  /\ ~Exited
  /\ \E i \in Ids : services[i].left > 0
  /\ services' = [i \in Ids |-> IF services[i].left > 0
                                THEN [services[i] EXCEPT !.left = @ - 1]
                                ELSE services[i]]
  /\ procs' = [p \in Pids |-> IF procs[p].owed > 0
                              THEN [procs[p] EXCEPT !.owed = @ - 1]
                              ELSE procs[p]]
  /\ UNCHANGED <<supervisorVars, sigpending, worldVars>>

-----------------------------------------------------------------------------
SupervisorStep ==
  \/ Boot
  \/ \E n \in Names : LoadService(n)
  \/ LoadDone
  \/ \E i \in Ids : BootStart(i)
  \/ BootDone
  \/ EpollWait
  \/ LoopFails
  \/ ReadSignals
  \/ SignalsDone
  \/ ReloadRefused
  \/ ReloadBegin
  \/ \E n \in Names : ReloadRemove(n)
  \/ ReloadRemoveDone
  \/ \E n \in Names : ReloadAdd(n)
  \/ \E n \in Names : ReloadChange(n)
  \/ \E n \in Names : ReloadUnchanged(n)
  \/ ReloadDone
  \/ SigChld
  \/ \E p \in Pids : Reap(p)
  \/ KillGroup
  \/ ReapDone
  \/ \E sig \in {SIGINT, SIGTERM} : SigTerm(sig)
  \/ \E i \in Ids : ShutdownStop(i)
  \/ ShutdownDone
  \/ ReadTimer
  \/ \E i \in Ids : TickKill(i)
  \/ \E i \in Ids : TickStopped(i)
  \/ TickDone
  \/ ReadControl

WorldStep ==
  \/ \E sig \in UserSignals : SendSignal(sig)
  \/ \E op \in Ops, i \in Ids : SendCommand(op, i)
  \/ SendInvalidFrame
  \/ \E p \in Pids, exit \in ExitStatuses : ProcessExits(p, exit)
  \/ \E p \in Pids : ProcessKilled(p)
  \/ \E p, q \in Pids : Adopt(p, q)
  \/ TimerExpires
  \/ TimePasses

Terminated == Exited /\ UNCHANGED vars

Next == SupervisorStep \/ WorldStep \/ Terminated

Spec == Init /\ [][Next]_vars

(***************************************************************************)
(* The supervisor is a process the kernel keeps scheduling, the timer is   *)
(* periodic, time passes and SIGKILL takes effect.  Nothing is assumed of  *)
(* users or of what services do with their stop signal.                    *)
(***************************************************************************)
Fairness ==
  /\ WF_vars(SupervisorStep)
  /\ WF_vars(TimerExpires)
  /\ WF_vars(TimePasses)
  /\ \A p \in Pids : WF_vars(ProcessKilled(p))

FairSpec == Spec /\ Fairness

-----------------------------------------------------------------------------
(* Properties *)

PCs == {"boot", "load", "start", "wait", "dispatch", "signals", "remove", "apply",
        "reap", "killgroup", "shutdown", "tick", "exited_ok", "exited_err"}

(* Every variable has its type. *)
TypeOK ==
  /\ services \in [Ids -> ServiceRecord]
  /\ pids_map \in [Pids -> Ids \cup {NoId}]
  /\ next_id \in Ids
  /\ sv_state \in {"Running", "ShutdownRequested"}
  /\ pc \in PCs
  /\ events \subseteq {"sfd", "tfd", "pfd"}
  /\ batch \subseteq {SIGHUP, SIGINT, SIGTERM, SIGCHLD}
  /\ todo \subseteq Names
  /\ ids \subseteq Ids
  /\ service_ids \in [Names -> Ids \cup {NoId}]
  /\ new_cfg \in ConfigFile
  /\ reaped \in Pids \cup {None}
  /\ procs \in [Pids -> Process]
  /\ sigpending \subseteq {SIGHUP, SIGINT, SIGTERM, SIGCHLD}
  /\ timer \in BOOLEAN
  /\ fifo \in Seq(ControlCommand)
  /\ status \in [Ids -> StatusRecord]

-----------------------------------------------------------------------------
(* The parts of the inductive invariants that are no property of interest by *)
(* themselves: what each step relies on.                                     *)

(* an entry of the registry, a line of the status file and a zombie are complete *)
EntriesWhole ==
  /\ \A i \in Ids : services[i].state # "Absent" =>
       services[i].name \in Names /\ services[i].config \in Configs
  /\ \A i \in Ids : status[i].state # "Absent" => status[i].name \in Names
  /\ \A p \in Pids : procs[p].st = "zombie" => procs[p].exit \in ExitReason

(* what the loops have yet to visit is there to be visited *)
LoopsDefined ==
  /\ pc \in {"load", "apply"} => todo \subseteq Defined(new_cfg)
  /\ pc = "remove" => \A n \in todo : service_ids[n] # NoId

(* ids from next_id on have not been handed out *)
FreshIds == \A i \in Ids : i >= next_id => services[i] = NoService

(* the loop that starts the initial services visits none that runs *)
BootStopped ==
  /\ pc \in {"boot", "load"} => \A i \in Ids : services[i].state \in {"Absent", "Stopped"}
  /\ pc = "start" => \A i \in ids : services[i].state = "Stopped"

(* a pid the kernel may hand out is nobody's *)
FreeUnused == \A p \in Pids : procs[p].st = "free" => procs[p].svc = NoId

-----------------------------------------------------------------------------
(***************************************************************************)
(* No process that start_service forked is ever lost or supervised twice:  *)
(* until it is reaped, pids_map leads from its pid to the id it was forked *)
(* for, and that service is registered, Running or Stopping, with that     *)
(* pid.  Reload, control commands and the timer all start and drop         *)
(* services and keep two maps in step by hand.                             *)
(***************************************************************************)
EveryChildSupervised ==
  /\ \A p \in Pids : procs[p].svc = pids_map[p]
  /\ \A p \in Pids, i \in Ids : pids_map[p] = i <=> services[i].pid = p
  /\ \A i \in Ids : services[i].state \in LiveStates <=> services[i].pid # None

(* Names are unique in the registry, which reload_services relies on when  *)
(* it indexes the registry by name and when it adds what it did not find.  *)
OneServicePerName ==
  \A i, j \in Registered : services[i].name = services[j].name => i = j

(* A command never reaches another service than the one its writer looked  *)
(* up in the status file, however long it waits in the FIFO while reloads  *)
(* remove and add services: ids are not reused.                            *)
CommandsReachTheirService ==
  \A k \in 1 .. Len(fifo) :
    LET cmd == fifo[k] IN
    Decodes(cmd) /\ cmd.id \in Registered => services[cmd.id].name = cmd.name

(* A dead child is never forgotten: as long as one is waiting to be reaped, *)
(* the supervisor is reaping or still has a SIGCHLD ahead of it, although   *)
(* SIGCHLDs coalesce and children die while others are being reaped.        *)
DeadChildNoticed ==
  Zombies # {} =>
    SIGCHLD \in sigpending \cup batch \/ pc \in {"reap", "killgroup"} \/ Exited

(* Whenever the supervisor goes to sleep, the status file shows the         *)
(* registry as it is.                                                       *)
StatusCurrent == pc = "wait" => status = format_status(services)

(* A successful exit leaves no service process behind, alive or zombie. *)
CleanExit == pc = "exited_ok" => \A p \in Pids : procs[p].svc = NoId

(* Once a service process has been reaped and its group killed, no process *)
(* of that group runs on: the cleanup of orphans misses none that stayed   *)
(* in the group, and the number of a group with members is not reused.     *)
OrphansCleaned ==
  \A q \in Pids : procs[q].st = "alive" /\ procs[q].grp # NoId =>
    \/ procs[procs[q].pgid].svc = procs[q].grp
    \/ pc = "killgroup" /\ reaped = procs[q].pgid

(* When reload_services returns Ok, the registry holds every service of the *)
(* configuration with its new definition, and of the others only those that *)
(* are on their way out.                                                    *)
ReloadApplied ==
  pc = "apply" /\ todo = {} =>
    /\ \A n \in Defined(new_cfg) : \E i \in Registered :
         services[i].name = n /\ services[i].config = new_cfg[n]
    /\ \A i \in Registered : new_cfg[services[i].name] = None =>
         services[i].pending = "Remove" /\ services[i].state \in LiveStates

(* A process that runs on with an outdated definition is on its way out and *)
(* its service has an action pending for it, unless the stop signal could   *)
(* not be sent.  reload_services compares definitions and never looks at    *)
(* processes: once it has stored the new one, the pending action is all     *)
(* that remembers that the process is outdated, through later reloads that  *)
(* find nothing changed, commands, ticks and reloads cut short.             *)
OutdatedReplaced ==
  \A i \in Registered :
    services[i].state \in LiveStates /\ procs[services[i].pid].cfg # services[i].config =>
      services[i].pending # "None" /\ (services[i].state = "Stopping" \/ StopFails)

(* The command line a service is started with is that of its definition,   *)
(* with one exception: after a reload that was refused because of the       *)
(* environment, which update_config builds second, it is the one of the     *)
(* refused definition.  Every other failed or successful reload, in any     *)
(* order, leaves the two in step.                                           *)
ArgvOfDefinition ==
  \A i \in Registered :
    \/ services[i].argv = services[i].config
    \/ services[i].argv.argv_ok /\ ~services[i].argv.envp_ok

(* SIGKILL is never sent to a service process before the stop timeout has   *)
(* elapsed since its stop signal.                                           *)
NoEarlyKill ==
  [][\A p \in Pids :
       procs[p].svc # NoId /\ procs[p].st = "alive" /\ procs'[p].st = "doomed"
         => procs[p].owed = 0]_vars

(* A removal decided by a reload is carried out unless a later reload finds *)
(* the service configured again: neither control commands nor the timer     *)
(* undo it.                                                                 *)
RemovalSticks ==
  [][\A i \in Ids :
       services[i].pending = "Remove" /\ services'[i].pending # "Remove"
         => services'[i].state = "Absent" \/ pc = "apply"]_vars

(* A restart that is pending is not lost before it is tried: it goes with   *)
(* the service, gives way to a removal, or was tried by a tick whose        *)
(* start_service failed.  Only the last case drops it, and then nothing     *)
(* else of the service changes.                                             *)
RestartSticks ==
  [][\A i \in Ids :
       services[i].pending = "Restart" /\ services'[i].pending # "Restart" =>
         \/ services'[i].state \in {"Running", "Absent"}
         \/ services'[i].pending = "Remove"
         \/ /\ pc = "tick" /\ StartFails
            /\ services'[i] = [services[i] EXCEPT !.pending = "None"]]_vars

(* A service that is asked to stop eventually stops, whether or not it      *)
(* reacts to its stop signal.                                               *)
StopCompletes ==
  \A i \in Ids : services[i].state = "Stopping" ~> services[i].state # "Stopping"

(* A service that waits for a restart is eventually started again, unless   *)
(* it is removed or the supervisor exits first.                             *)
RestartHappens ==
  \A i \in Ids :
    services[i].pending = "Restart" /\ services[i].state # "Running"
      ~> services[i].state \in {"Running", "Absent"} \/ services[i].pending = "Remove" \/ Exited

(* A requested shutdown ends with the supervisor's exit. *)
ShutdownCompletes == sv_state = "ShutdownRequested" ~> Exited

(* The on_exit fallback is not taken for a process the supervisor stopped: *)
(* what the timer will do with the service is what was pending.             *)
FallbackNotAfterStop ==
  [][\A i \in Ids :
       services[i].state = "Stopping" /\ services'[i].state = "Stopped"
         => TickDecision(services'[i]) = services'[i].pending]_vars

(* After a reload no configured service is on its way out of the registry. *)
ReloadKeepsConfigured ==
  pc = "apply" /\ todo = {} =>
    \A i \in Registered : new_cfg[services[i].name] # None => services[i].pending # "Remove"

(* A process is stopped the way the definition it was started with says. *)
StopUsesRunningConfig ==
  [][\A i \in Ids :
       services[i].state = "Running" /\ services'[i].state = "Stopping"
         => services'[i].config = procs[services[i].pid].cfg]_vars
=============================================================================

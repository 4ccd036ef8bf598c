-------------------------- MODULE SupervisorProofs --------------------------
(***************************************************************************)
(* Theorems about Supervisor, for every value of its constants.            *)
(***************************************************************************)
EXTENDS Supervisor, SequenceTheorems, TLAPS

USE DEF Ids, NoId

-----------------------------------------------------------------------------
(* The records and what the operations of service.rs make of them *)

(* Service::new yields a service record. *)
LEMMA NewServiceType ==
  ASSUME NEW n \in Names, NEW cfg \in Configs
  PROVE  /\ NewService(n, cfg) \in ServiceRecord
         /\ NewService(n, cfg).state = "Stopped"
         /\ NewService(n, cfg).pid = None
         /\ NewService(n, cfg).name = n
         /\ NewService(n, cfg).config = cfg
         /\ NewService(n, cfg).pending = "None"
BY DEF NewService, ServiceRecord, ServiceStates, PendingActions, NeverStarted,
       ServiceStopReason, StopReasons, NoExit

(* The placeholder for an id that is not registered. *)
LEMMA NoServiceType ==
  /\ NoService \in ServiceRecord
  /\ NoService.state = "Absent"
  /\ NoService.pid = None
  /\ NoService.pending = "None"
BY DEF NoService, ServiceRecord, ServiceStates, PendingActions, NotStopped

(* start_service changes the state and the pid of a service only. *)
LEMMA StartedType ==
  ASSUME NEW svc \in ServiceRecord, NEW pid \in Pids
  PROVE  /\ Started(svc, pid) \in ServiceRecord
         /\ Started(svc, pid).state = "Running"
         /\ Started(svc, pid).pid = pid
         /\ Started(svc, pid).name = svc.name
         /\ Started(svc, pid).config = svc.config
         /\ Started(svc, pid).pending = svc.pending
         /\ Started(svc, pid).left = svc.left
BY DEF Started, ServiceRecord, ServiceStates, LiveStates, NotStopped

(* stop_service changes the state and the deadline of a service only. *)
LEMMA StopRequestedType ==
  ASSUME NEW svc \in ServiceRecord, svc.config \in Configs
  PROVE  /\ StopRequested(svc) \in ServiceRecord
         /\ svc.config.stop_timeout \in Nat
         /\ StopRequested(svc).state = "Stopping"
         /\ StopRequested(svc).left = svc.config.stop_timeout
         /\ StopRequested(svc).pid = svc.pid
         /\ StopRequested(svc).name = svc.name
         /\ StopRequested(svc).config = svc.config
         /\ StopRequested(svc).pending = svc.pending
<1>1. svc.config.stop_timeout \in Nat
  BY ServiceAssumption DEF ServiceConfig
<1> QED
  BY <1>1 DEF StopRequested, ServiceRecord, ServiceStates, LiveStates

(* The classification of an exit is a stop reason other than NeverStarted. *)
LEMMA StopReasonType ==
  ASSUME NEW er \in ExitReason, NEW state
  PROVE  from_exit_reason_and_service_state(er, state) \in ServiceStopReason
BY DEF from_exit_reason_and_service_state, StopReasonWhy, ServiceStopReason, StopReasons

(* handle_sigchld leaves a stopped service without a pid. *)
LEMMA ReapedType ==
  ASSUME NEW svc \in ServiceRecord, NEW er \in ExitReason
  PROVE  /\ Reaped(svc, er) \in ServiceRecord
         /\ Reaped(svc, er).state = "Stopped"
         /\ Reaped(svc, er).pid = None
         /\ Reaped(svc, er).name = svc.name
         /\ Reaped(svc, er).config = svc.config
         /\ Reaped(svc, er).pending = svc.pending
<1>1. from_exit_reason_and_service_state(er, svc.state) \in ServiceStopReason
  BY StopReasonType
<1> QED
  BY <1>1 DEF Reaped, ServiceRecord, ServiceStates

(* update_config changes the definition and argv of a service only, and    *)
(* the definition only when every string of it is a C string.              *)
LEMMA UpdateConfigType ==
  ASSUME NEW svc \in ServiceRecord, NEW cfg \in Configs
  PROVE  /\ update_config(svc, cfg) \in ServiceRecord
         /\ update_config(svc, cfg).config = IF ValidCStrings(cfg) THEN cfg ELSE svc.config
         /\ update_config(svc, cfg).state = svc.state
         /\ update_config(svc, cfg).pid = svc.pid
         /\ update_config(svc, cfg).name = svc.name
         /\ update_config(svc, cfg).pending = svc.pending
         /\ update_config(svc, cfg).left = svc.left
BY DEF update_config, ServiceRecord, ValidCStrings

(* Marking a service with a pending action changes nothing else. *)
LEMMA PendingType ==
  ASSUME NEW svc \in ServiceRecord, NEW action \in PendingActions
  PROVE  LET marked == [svc EXCEPT !.pending = action] IN
         /\ marked \in ServiceRecord
         /\ marked.pending = action
         /\ marked.state = svc.state
         /\ marked.pid = svc.pid
         /\ marked.name = svc.name
         /\ marked.config = svc.config
         /\ marked.left = svc.left
BY DEF ServiceRecord

(* The kernel's processes. *)
LEMMA NoProcessType ==
  NoProcess \in Process /\ NoProcess.svc = NoId /\ NoProcess.st = "free"
BY DEF NoProcess, Process, NotAsked

(* A forked service process is alive and belongs to its service. *)
LEMMA ServiceProcessType ==
  ASSUME NEW p \in Pids, NEW i \in Ids, NEW cfg \in Configs
  PROVE  /\ ServiceProcess(p, i, cfg) \in Process
         /\ ServiceProcess(p, i, cfg).svc = i
         /\ ServiceProcess(p, i, cfg).st = "alive"
BY DEF ServiceProcess, NoProcess, Process, NotAsked

(* An adopted descendant is alive and belongs to no service. *)
LEMMA GroupMemberType ==
  ASSUME NEW g \in Pids \cup {None}, NEW i \in Ids \cup {NoId}
  PROVE  /\ GroupMember(g, i) \in Process
         /\ GroupMember(g, i).svc = NoId
         /\ GroupMember(g, i).st = "alive"
BY DEF GroupMember, NoProcess, Process, NotAsked

(* SIGKILL neither frees nor ends a process by itself, and keeps its owner. *)
LEMMA KillType ==
  ASSUME NEW proc \in Process
  PROVE  /\ Kill(proc) \in Process
         /\ Kill(proc).svc = proc.svc
         /\ Kill(proc).exit = proc.exit
         /\ Kill(proc).st = "free" <=> proc.st = "free"
         /\ Kill(proc).st = "zombie" <=> proc.st = "zombie"
BY DEF Kill, Process

(* A line of the status file shows a service's name and state. *)
LEMMA StatusLineType ==
  ASSUME NEW svc \in ServiceRecord
  PROVE  /\ StatusLine(svc) \in StatusRecord
         /\ StatusLine(svc).state = svc.state
         /\ StatusLine(svc).name = svc.name
BY DEF StatusLine, StatusRecord, ServiceRecord

-----------------------------------------------------------------------------
(* Type correctness.  The type of a service's deadline depends on its       *)
(* definition being there, and the type of a command's name on the name in  *)
(* the status file: the inductive invariant adds that entries are whole and *)
(* that the loops visit what exists.                                        *)

RegistryOK ==
  /\ services \in [Ids -> ServiceRecord]
  /\ pids_map \in [Pids -> Ids \cup {NoId}]
  /\ procs \in [Pids -> Process]
  /\ \A i \in Ids : services[i].state # "Absent" =>
       services[i].name \in Names /\ services[i].config \in Configs
  /\ \A p \in Pids : procs[p].st = "zombie" => procs[p].exit \in ExitReason

ControlOK ==
  /\ next_id \in Ids
  /\ sv_state \in {"Running", "ShutdownRequested"}
  /\ pc \in PCs
  /\ events \subseteq {"sfd", "tfd", "pfd"}
  /\ batch \subseteq {SIGHUP, SIGINT, SIGTERM, SIGCHLD}
  /\ todo \subseteq Names
  /\ ids \subseteq Ids
  /\ service_ids \in [Names -> Ids \cup {NoId}]
  /\ new_cfg \in ConfigFile
  /\ reaped \in Pids \cup {None}
  /\ sigpending \subseteq {SIGHUP, SIGINT, SIGTERM, SIGCHLD}
  /\ timer \in BOOLEAN
  /\ LoopsDefined

FifoOK == fifo \in Seq(ControlCommand)

StatusOK ==
  /\ status \in [Ids -> StatusRecord]
  /\ \A i \in Ids : status[i].state # "Absent" => status[i].name \in Names

TypeInv == RegistryOK /\ ControlOK /\ FifoOK /\ StatusOK /\ BootStopped

(* The inductive invariant is type correctness and the facts it needs. *)
LEMMA TypeInvMeaning ==
  TypeInv <=> TypeOK /\ EntriesWhole /\ LoopsDefined /\ BootStopped
BY DEF TypeInv, RegistryOK, ControlOK, FifoOK, StatusOK, TypeOK, EntriesWhole

(* Storing a whole record keeps the registry well typed. *)
LEMMA StoreOK ==
  ASSUME RegistryOK, NEW i \in Ids, NEW svc \in ServiceRecord, Store(i, svc),
         svc.state # "Absent" => svc.name \in Names /\ svc.config \in Configs
  PROVE  RegistryOK'
BY DEF RegistryOK, Store

(* So does starting a service that is stored whole. *)
LEMMA StartOK ==
  ASSUME RegistryOK, NEW i \in Ids, NEW svc \in ServiceRecord, StartOk(i, svc),
         svc.name \in Names, svc.config \in Configs
  PROVE  RegistryOK'
<1>1. PICK pid \in FreePids :
        /\ services' = [services EXCEPT ![i] = Started(svc, pid)]
        /\ pids_map' = [pids_map EXCEPT ![pid] = i]
        /\ procs' = [procs EXCEPT ![pid] = ServiceProcess(pid, i, svc.config)]
  BY DEF StartOk
<1>2. pid \in Pids
  BY DEF FreePids
<1>3. /\ ServiceProcess(pid, i, svc.config) \in Process
      /\ ServiceProcess(pid, i, svc.config).st = "alive"
  BY <1>2, ServiceProcessType
<1>4. /\ Started(svc, pid) \in ServiceRecord
      /\ Started(svc, pid).name \in Names
      /\ Started(svc, pid).config \in Configs
  BY <1>2, StartedType
<1> QED
  BY <1>1, <1>2, <1>3, <1>4 DEF RegistryOK

(* And requesting its stop. *)
LEMMA StopOK ==
  ASSUME RegistryOK, NEW i \in Ids, NEW svc \in ServiceRecord, StopOk(i, svc),
         svc.name \in Names, svc.config \in Configs
  PROVE  RegistryOK'
<1>1. /\ StopRequested(svc) \in ServiceRecord
      /\ svc.config.stop_timeout \in Nat
      /\ StopRequested(svc).name \in Names
      /\ StopRequested(svc).config \in Configs
  BY StopRequestedType
<1>2. procs' \in [Pids -> Process]
  <2>1. procs' = [procs EXCEPT ![svc.pid].owed = svc.config.stop_timeout]
    BY DEF StopOk
  <2>2. ASSUME NEW proc \in Process
        PROVE  [proc EXCEPT !.owed = svc.config.stop_timeout] \in Process
    BY <1>1 DEF Process
  <2> QED  BY <2>1, <2>2 DEF RegistryOK
<1>4. \A p \in Pids : procs'[p].st = procs[p].st /\ procs'[p].exit = procs[p].exit
  BY DEF StopOk, RegistryOK, Process
<1>3. /\ services' = [services EXCEPT ![i] = StopRequested(svc)]
      /\ pids_map' = pids_map
  BY DEF StopOk
<1> QED
  BY <1>1, <1>2, <1>3, <1>4 DEF RegistryOK

(* What is written to the status file is well formed. *)
LEMMA FlushOK ==
  ASSUME StatusOK, RegistryOK', flush_status_file
  PROVE  StatusOK'
<1>1. CASE status' = format_status(services')
  <2>1. ASSUME NEW i \in Ids
        PROVE  /\ StatusLine(services'[i]) \in StatusRecord
               /\ StatusLine(services'[i]).state = services'[i].state
               /\ StatusLine(services'[i]).name = services'[i].name
    <3>1. services'[i] \in ServiceRecord
      BY DEF RegistryOK
    <3> QED  BY <3>1, StatusLineType
  <2> QED
    BY <1>1, <2>1 DEF StatusOK, RegistryOK, format_status
<1>2. CASE UNCHANGED status
  BY <1>2 DEF StatusOK
<1> QED
  BY <1>1, <1>2 DEF flush_status_file

(* As is its removal with the run directory. *)
LEMMA NoStatusOK ==
  ASSUME status' = NoStatus
  PROVE  StatusOK'
<1>1. /\ StatusLine(NoService) \in StatusRecord
      /\ StatusLine(NoService).state = "Absent"
  BY NoServiceType, StatusLineType
<1> QED
  BY <1>1 DEF StatusOK, NoStatus

(* The initial state. *)
LEMMA TypeInit == Init => TypeInv
<1> SUFFICES ASSUME Init PROVE TypeInv
  OBVIOUS
<1>1. RegistryOK
  BY NoServiceType, NoProcessType DEF Init, RegistryOK
<1>2. ControlOK
  <2>1. timer \in BOOLEAN
    BY DEF Init
  <2>2. next_id \in Ids
    BY SupervisorAssumption DEF Init
  <2> QED
    BY <2>1, <2>2 DEF Init, ControlOK, LoopsDefined, PCs, NoIds, NoCfg, ConfigFile
<1>3. FifoOK
  BY DEF Init, FifoOK
<1>4. StatusOK
  BY StatusLineType, NoServiceType DEF Init, StatusOK, NoStatus
<1>5. BootStopped
  BY NoServiceType DEF Init, BootStopped
<1> QED  BY <1>1, <1>2, <1>3, <1>4, <1>5 DEF TypeInv

(* Reading the configuration and the initial services. *)
LEMMA TypeBoot == ASSUME TypeInv, Boot PROVE TypeInv'
<1>1. RegistryOK' /\ FifoOK' /\ BootStopped'
  BY DEF Boot, Exit, TypeInv, RegistryOK, FifoOK, BootStopped, registryVars, worldVars
<1>2. CASE Exit("exited_err") /\ UNCHANGED <<todo, new_cfg>>
  <2>1. StatusOK'
    BY <1>2, NoStatusOK DEF Exit
  <2>2. ControlOK'
    BY <1>2 DEF Boot, Exit, TypeInv, ControlOK, PCs, LoopsDefined, worldVars
  <2> QED  BY <1>1, <2>1, <2>2 DEF TypeInv
<1>3. CASE /\ \E file \in ConfigFiles \ {Unparsable} : new_cfg' = file /\ todo' = Defined(file)
           /\ pc' = "load"
           /\ UNCHANGED status
  <2>1. StatusOK'
    BY <1>3 DEF TypeInv, StatusOK
  <2>2. ControlOK'
    BY <1>3, SupervisorAssumption
    DEF Boot, TypeInv, ControlOK, PCs, LoopsDefined, Defined, worldVars
  <2> QED  BY <1>1, <2>1, <2>2 DEF TypeInv
<1> QED  BY <1>2, <1>3 DEF Boot

(* Loading one service of the initial configuration keeps the types. *)
LEMMA TypeLoadService ==
  ASSUME TypeInv, NEW n \in Names, LoadService(n) PROVE TypeInv'
<1>0. FifoOK'
  BY DEF LoadService, TypeInv, FifoOK, worldVars
<1>1. CASE /\ IdAvailable
           /\ Store(nextval, NewService(n, new_cfg[n]))
           /\ next_id' = next_id + 1
           /\ todo' = todo \ {n}
           /\ UNCHANGED <<pc, status>>
  <2>1. new_cfg[n] \in Configs
    BY DEF LoadService, TypeInv, ControlOK, LoopsDefined, Defined, ConfigFile
  <2>2. nextval \in Ids
    BY DEF nextval, TypeInv, ControlOK
  <2>3. RegistryOK'
    BY <1>1, <2>1, <2>2, NewServiceType, StoreOK DEF TypeInv
  <2>4. StatusOK'
    BY <1>1 DEF TypeInv, StatusOK
  <2>5. ControlOK'
    BY <1>1, SupervisorAssumption DEF LoadService, TypeInv, ControlOK, LoopsDefined, IdAvailable, worldVars
  <2>6. BootStopped'
    BY <1>1, <2>1, <2>2, NewServiceType
    DEF LoadService, TypeInv, RegistryOK, BootStopped, Store
  <2> QED  BY <1>0, <2>3, <2>4, <2>5, <2>6 DEF TypeInv
<1>2. CASE Exit("exited_err") /\ UNCHANGED <<registryVars, procs, next_id, todo>>
  <2>1. StatusOK'
    BY <1>2, NoStatusOK DEF Exit
  <2>2. RegistryOK'
    BY <1>2 DEF TypeInv, RegistryOK, registryVars
  <2>3. ControlOK'
    BY <1>2 DEF LoadService, Exit, TypeInv, ControlOK, PCs, LoopsDefined, worldVars
  <2>4. BootStopped'
    BY <1>2 DEF BootStopped, Exit
  <2> QED  BY <1>0, <2>1, <2>2, <2>3, <2>4 DEF TypeInv
<1> QED  BY <1>1, <1>2 DEF LoadService

(* The end of the loading loop keeps the types. *)
LEMMA TypeLoadDone == ASSUME TypeInv, LoadDone PROVE TypeInv'
BY DEF LoadDone, TypeInv, RegistryOK, ControlOK, FifoOK, StatusOK, BootStopped, PCs,
       LoopsDefined, Registered, NoCfg, ConfigFile, registryVars, worldVars

(* Starting one initial service keeps the types. *)
LEMMA TypeBootStart ==
  ASSUME TypeInv, NEW i \in Ids, BootStart(i) PROVE TypeInv'
<1>1. /\ services[i] \in ServiceRecord
      /\ services[i].name \in Names
      /\ services[i].config \in Configs
  BY DEF BootStart, TypeInv, RegistryOK, BootStopped
<1>2. FifoOK' /\ StatusOK' /\ ControlOK'
  BY DEF BootStart, TypeInv, FifoOK, StatusOK, ControlOK, LoopsDefined, reloadVars, worldVars
<1>3. CASE StartOk(i, services[i])
  <2>1. RegistryOK'
    BY <1>1, <1>3, StartOK DEF TypeInv
  <2>2. BootStopped'
    BY <1>3 DEF BootStart, StartOk, TypeInv, RegistryOK, ControlOK, BootStopped
  <2> QED  BY <1>2, <2>1, <2>2 DEF TypeInv
<1>4. CASE UNCHANGED <<registryVars, procs>>
  BY <1>2, <1>4 DEF BootStart, TypeInv, RegistryOK, BootStopped, registryVars
<1> QED  BY <1>3, <1>4 DEF BootStart

(* The first flush of the status file keeps the types. *)
LEMMA TypeBootDone == ASSUME TypeInv, BootDone PROVE TypeInv'
<1>1. RegistryOK' /\ FifoOK' /\ ControlOK' /\ BootStopped'
  BY DEF BootDone, TypeInv, RegistryOK, FifoOK, ControlOK, LoopsDefined, BootStopped, PCs,
         registryVars, reloadVars, worldVars
<1>2. StatusOK'
  BY <1>1, FlushOK DEF BootDone, TypeInv
<1> QED  BY <1>1, <1>2 DEF TypeInv


(* The steps of the event loop that touch neither the registry nor the     *)
(* processes: epoll, the choice of the next signal, the ends of loops.     *)
LEMMA TypeLoopSteps ==
  ASSUME TypeInv,
         \/ EpollWait \/ LoopFails \/ ReadSignals \/ ReloadRefused \/ ReloadBegin
         \/ ReloadRemoveDone \/ \E n \in Names : ReloadUnchanged(n)
         \/ ReloadDone \/ SigChld \/ ReapDone
         \/ \E sig \in {SIGINT, SIGTERM} : SigTerm(sig)
         \/ ShutdownDone \/ ReadTimer
  PROVE  TypeInv'
<1> USE DEF TypeInv, RegistryOK, ControlOK, FifoOK, BootStopped, LoopsDefined, PCs,
            registryVars, reloadVars, worldVars
<1>1. CASE EpollWait
  BY <1>1 DEF EpollWait, Ready, StatusOK
<1>2. CASE LoopFails
  <2>1. StatusOK'
    BY <1>2, NoStatusOK DEF LoopFails, Exit
  <2> QED  BY <1>2, <2>1 DEF LoopFails, Exit
<1>3. CASE ReadSignals
  BY <1>3 DEF ReadSignals, StatusOK
<1>4. CASE ReloadRefused
  BY <1>4 DEF ReloadRefused, StatusOK
<1>5. CASE ReloadBegin
  <2>1. IdsByName \in [Names -> Ids \cup {NoId}]
    <3>1. ASSUME NEW n \in Names, \E i \in Registered : services[i].name = n
          PROVE  (CHOOSE i \in Registered : services[i].name = n) \in Ids
      BY <3>1 DEF Registered
    <3> QED  BY <3>1 DEF IdsByName
  <2>2. new_cfg' \in ConfigFile
    BY <1>5, SupervisorAssumption DEF ReloadBegin
  <2> QED  BY <1>5, <2>1, <2>2 DEF ReloadBegin, StatusOK
<1>6. CASE ReloadRemoveDone
  BY <1>6 DEF ReloadRemoveDone, reloadFrame, Defined, StatusOK
<1>7. CASE \E n \in Names : ReloadUnchanged(n)
  BY <1>7 DEF ReloadUnchanged, ReloadContinues, reloadFrame, StatusOK
<1>8. CASE ReloadDone
  BY <1>8 DEF ReloadDone, ReloadReturns, reloadFrame, NoIds, NoCfg, ConfigFile, StatusOK
<1>9. CASE SigChld
  BY <1>9 DEF SigChld, StatusOK
<1>10. CASE ReapDone \/ ShutdownDone
  <2>1. StatusOK'
    BY <1>10, NoStatusOK DEF ReapDone, ShutdownDone, ExitIfAllStopped, Exit, StatusOK
  <2> QED  BY <1>10, <2>1 DEF ReapDone, ShutdownDone, ExitIfAllStopped, Exit
<1>11. CASE \E sig \in {SIGINT, SIGTERM} : SigTerm(sig)
  BY <1>11 DEF SigTerm, Registered, StatusOK
<1>12. CASE ReadTimer
  BY <1>12 DEF ReadTimer, Registered, StatusOK
<1> QED
  BY <1>1, <1>2, <1>3, <1>4, <1>5, <1>6, <1>7, <1>8, <1>9, <1>10, <1>11, <1>12

(* The ends of an event's handler, where the status file is written. *)
LEMMA TypeFlushSteps ==
  ASSUME TypeInv, SignalsDone \/ TickDone
  PROVE  TypeInv'
<1>1. RegistryOK' /\ ControlOK' /\ FifoOK' /\ BootStopped'
  BY DEF SignalsDone, TickDone, TypeInv, RegistryOK, ControlOK, FifoOK, BootStopped,
         LoopsDefined, PCs, AfterEvent, registryVars, reloadVars, worldVars
<1>2. StatusOK'
  BY <1>1, FlushOK DEF SignalsDone, TickDone, TypeInv
<1> QED  BY <1>1, <1>2 DEF TypeInv

(* What a reload leaves of its own variables, whether it goes on or returns. *)
LEMMA ReloadLoopOK ==
  ASSUME TypeInv, pc \in {"remove", "apply"}, next_id' \in Ids, reloadFrame,
         NEW n \in Names, ReloadContinues(n) \/ ReloadReturns
  PROVE  ControlOK' /\ FifoOK' /\ StatusOK' /\ (pc' \notin {"boot", "load", "start"})
BY DEF TypeInv, ControlOK, FifoOK, StatusOK, LoopsDefined, PCs, ReloadContinues,
       ReloadReturns, reloadFrame, NoIds, NoCfg, ConfigFile, reloadVars, worldVars

(* Marking and stopping a service during a reload keeps the types. *)
LEMMA TypePendAndStop ==
  ASSUME RegistryOK, NEW n, NEW i \in Ids, NEW svc \in ServiceRecord,
         NEW action \in PendingActions, svc.name \in Names, svc.config \in Configs,
         PendAndStop(n, i, svc, action)
  PROVE  RegistryOK' /\ (ReloadContinues(n) \/ ReloadReturns)
<1> DEFINE marked == [svc EXCEPT !.pending = action]
<1>1. marked \in ServiceRecord /\ marked.name \in Names /\ marked.config \in Configs
  BY PendingType
<1>2. StopOk(i, marked) \/ Store(i, marked)
  BY DEF PendAndStop
<1>3. ReloadContinues(n) \/ ReloadReturns
  BY DEF PendAndStop
<1> HIDE DEF marked
<1> QED  BY <1>1, <1>2, <1>3, StopOK, StoreOK

(* The first loop of reload_services keeps the types. *)
LEMMA TypeReloadRemove ==
  ASSUME TypeInv, NEW n \in Names, ReloadRemove(n) PROVE TypeInv'
<1> DEFINE i == service_ids[n]
<1>1. i \in Ids /\ services[i] \in ServiceRecord
  BY DEF ReloadRemove, TypeInv, ControlOK, LoopsDefined, RegistryOK
<1>2. RegistryOK' /\ (ReloadContinues(n) \/ ReloadReturns)
  <2>1. CASE Store(i, NoService) /\ ReloadContinues(n)
    BY <1>1, <2>1, NoServiceType, StoreOK DEF TypeInv
  <2>2. CASE PendAndStop(n, i, services[i], "Remove")
    <3>1. services[i].state # "Absent"
      BY <2>2 DEF PendAndStop
    <3>2. services[i].name \in Names /\ services[i].config \in Configs
      BY <1>1, <3>1 DEF TypeInv, RegistryOK
    <3>3. "Remove" \in PendingActions
      BY DEF PendingActions
    <3> QED  BY <1>1, <2>2, <3>2, <3>3, TypePendAndStop DEF TypeInv
  <2> QED  BY <2>1, <2>2 DEF ReloadRemove
<1>3. ControlOK' /\ FifoOK' /\ StatusOK' /\ (pc' \notin {"boot", "load", "start"})
  <2>1. next_id' \in Ids
    BY DEF ReloadRemove, TypeInv, ControlOK
  <2> QED  BY <1>2, <2>1, ReloadLoopOK DEF ReloadRemove
<1> QED  BY <1>2, <1>3 DEF TypeInv, BootStopped

(* Adding a service during a reload keeps the types. *)
LEMMA TypeReloadAdd ==
  ASSUME TypeInv, NEW n \in Names, ReloadAdd(n) PROVE TypeInv'
<1>1. new_cfg[n] \in Configs
  BY DEF ReloadAdd, TypeInv, ControlOK, LoopsDefined, Defined, ConfigFile
<1>2. RegistryOK'
  <2>1. CASE StartOk(nextval, NewService(n, new_cfg[n]))
    <3>1. nextval \in Ids
      BY DEF nextval, TypeInv, ControlOK
    <3> QED  BY <1>1, <2>1, <3>1, NewServiceType, StartOK DEF TypeInv
  <2>2. CASE UNCHANGED <<registryVars, procs>>
    BY <2>2 DEF TypeInv, RegistryOK, registryVars
  <2> QED  BY <2>1, <2>2 DEF ReloadAdd
<1>3. next_id' \in Ids
  BY SupervisorAssumption DEF ReloadAdd, TypeInv, ControlOK, IdAvailable
<1>4. ControlOK' /\ FifoOK' /\ StatusOK' /\ (pc' \notin {"boot", "load", "start"})
  BY <1>3, ReloadLoopOK DEF ReloadAdd
<1> QED  BY <1>2, <1>4 DEF TypeInv, BootStopped

(* Changing a service during a reload keeps the types. *)
LEMMA TypeReloadChange ==
  ASSUME TypeInv, NEW n \in Names, ReloadChange(n) PROVE TypeInv'
<1> DEFINE i == service_ids[n]
           svc == update_config(services[i], new_cfg[n])
<1>1. new_cfg[n] \in Configs
  BY DEF ReloadChange, TypeInv, ControlOK, LoopsDefined, Defined, ConfigFile
<1>2. /\ i \in Ids /\ services[i] \in ServiceRecord
      /\ services[i].name \in Names /\ services[i].config \in Configs
  BY DEF ReloadChange, Registered, TypeInv, RegistryOK
<1>3. svc \in ServiceRecord /\ svc.name \in Names /\ svc.config \in Configs
  BY <1>1, <1>2, UpdateConfigType
<1>4. \/ Store(i, svc) /\ ReloadReturns
      \/ StartOk(i, svc) /\ ReloadContinues(n)
      \/ PendAndStop(n, i, svc, "Restart")
  BY DEF ReloadChange
<1>5. next_id' = next_id /\ reloadFrame /\ pc = "apply"
  BY DEF ReloadChange
<1> HIDE DEF i, svc
<1>6. RegistryOK' /\ (ReloadContinues(n) \/ ReloadReturns)
  <2>1. CASE Store(i, svc) /\ ReloadReturns
    BY <1>2, <1>3, <2>1, StoreOK DEF TypeInv
  <2>2. CASE StartOk(i, svc) /\ ReloadContinues(n)
    BY <1>2, <1>3, <2>2, StartOK DEF TypeInv
  <2>3. CASE PendAndStop(n, i, svc, "Restart")
    <3>1. "Restart" \in PendingActions
      BY DEF PendingActions
    <3> QED  BY <1>2, <1>3, <2>3, <3>1, TypePendAndStop DEF TypeInv
  <2> QED  BY <1>4, <2>1, <2>2, <2>3
<1>7. ControlOK' /\ FifoOK' /\ StatusOK' /\ (pc' \notin {"boot", "load", "start"})
  <2>1. next_id' \in Ids
    BY <1>5 DEF TypeInv, ControlOK
  <2> QED  BY <1>5, <1>6, <2>1, ReloadLoopOK
<1> QED  BY <1>6, <1>7 DEF TypeInv, BootStopped

(* Reaping: the pid of a zombie leads to a registered service, if to any. *)
LEMMA TypeReap ==
  ASSUME TypeInv, EveryChildSupervised, NEW p \in Pids, Reap(p) PROVE TypeInv'
<1> DEFINE i == pids_map[p]
<1>1. ControlOK' /\ FifoOK' /\ StatusOK' /\ BootStopped'
  BY DEF Reap, TypeInv, ControlOK, FifoOK, StatusOK, BootStopped, LoopsDefined, PCs,
         reloadVars, worldVars
<1>2. procs' \in [Pids -> Process]
  BY NoProcessType DEF Reap, TypeInv, RegistryOK
<1>3. CASE i # NoId /\ services' = [services EXCEPT ![i] = Reaped(services[i], procs[p].exit)]
  <2>1. i \in Ids /\ services[i] \in ServiceRecord
    BY <1>3 DEF TypeInv, RegistryOK
  <2>2. procs[p].exit \in ExitReason
    BY DEF Reap, TypeInv, RegistryOK, Zombies
  <2>3. /\ Reaped(services[i], procs[p].exit) \in ServiceRecord
        /\ Reaped(services[i], procs[p].exit).name = services[i].name
        /\ Reaped(services[i], procs[p].exit).config = services[i].config
    BY <2>1, <2>2, ReapedType
  <2>4. services[i].name \in Names /\ services[i].config \in Configs
    BY <2>1, ServiceAssumption DEF EveryChildSupervised, LiveStates, TypeInv, RegistryOK
  <2>5. RegistryOK'
    BY <1>2, <1>3, <2>1, <2>3, <2>4, NoProcessType DEF Reap, TypeInv, RegistryOK
  <2> QED  BY <1>1, <2>5 DEF TypeInv
<1>4. CASE UNCHANGED registryVars
  BY <1>1, <1>2, <1>4, NoProcessType DEF Reap, TypeInv, RegistryOK, registryVars
<1> QED  BY <1>3, <1>4 DEF Reap

(* Killing a group dooms processes and changes nothing else. *)
LEMMA TypeKillGroup == ASSUME TypeInv, KillGroup PROVE TypeInv'
<1>1. ControlOK' /\ FifoOK' /\ StatusOK' /\ BootStopped'
  BY DEF KillGroup, TypeInv, ControlOK, FifoOK, StatusOK, BootStopped, LoopsDefined, PCs,
         registryVars, reloadVars, worldVars
<1>2. RegistryOK'
  BY KillType DEF KillGroup, TypeInv, RegistryOK, registryVars
<1> QED  BY <1>1, <1>2 DEF TypeInv

(* Stopping one service for the shutdown keeps the types. *)
LEMMA TypeShutdownStop ==
  ASSUME TypeInv, NEW i \in Ids, ShutdownStop(i) PROVE TypeInv'
<1>1. ControlOK' /\ FifoOK' /\ StatusOK' /\ BootStopped'
  BY DEF ShutdownStop, TypeInv, ControlOK, FifoOK, StatusOK, BootStopped, LoopsDefined, PCs,
         reloadVars, worldVars
<1>2. CASE services[i].state = "Running" /\ StopOk(i, services[i])
  <2>1. /\ services[i] \in ServiceRecord
        /\ services[i].name \in Names /\ services[i].config \in Configs
    BY <1>2 DEF TypeInv, RegistryOK
  <2> QED  BY <1>1, <1>2, <2>1, StopOK DEF TypeInv
<1>3. CASE UNCHANGED <<registryVars, procs>>
  BY <1>1, <1>3 DEF TypeInv, RegistryOK, registryVars
<1> QED  BY <1>2, <1>3 DEF ShutdownStop

(* Killing an overdue service keeps the types. *)
LEMMA TypeTickKill ==
  ASSUME TypeInv, NEW i \in Ids, TickKill(i) PROVE TypeInv'
<1>1. ControlOK' /\ FifoOK' /\ StatusOK' /\ BootStopped'
  BY DEF TickKill, tickFrame, TypeInv, ControlOK, FifoOK, StatusOK, BootStopped,
         LoopsDefined, PCs, registryVars, reloadVars, worldVars
<1>2. RegistryOK'
  BY KillType DEF TickKill, TypeInv, RegistryOK, registryVars
<1> QED  BY <1>1, <1>2 DEF TypeInv

(* Applying the action of a stopped service keeps the types. *)
LEMMA TypeTickStopped ==
  ASSUME TypeInv, NEW i \in Ids, TickStopped(i) PROVE TypeInv'
<1> DEFINE svc == [services[i] EXCEPT !.pending = "None"]
<1>1. ControlOK' /\ FifoOK' /\ StatusOK' /\ BootStopped'
  BY DEF TickStopped, tickFrame, TypeInv, ControlOK, FifoOK, StatusOK, BootStopped,
         LoopsDefined, PCs, reloadVars, worldVars
<1>2. svc \in ServiceRecord /\ svc.name \in Names /\ svc.config \in Configs
  <2>1. /\ services[i] \in ServiceRecord
        /\ services[i].name \in Names /\ services[i].config \in Configs
    BY DEF TickStopped, TypeInv, RegistryOK
  <2>2. "None" \in PendingActions
    BY DEF PendingActions
  <2> QED  BY <2>1, <2>2, PendingType
<1>3. Store(i, svc) \/ Store(i, NoService) \/ StartOk(i, svc)
  BY DEF TickStopped
<1> HIDE DEF svc
<1>4. RegistryOK'
  BY <1>2, <1>3, NoServiceType, StoreOK, StartOK DEF TypeInv
<1> QED  BY <1>1, <1>4 DEF TypeInv

(* A control operation on a registered service, or on none. *)
LEMMA TypeControlOp ==
  ASSUME RegistryOK, NEW op, NEW i \in Ids, apply_control_op(op, i, services[i])
  PROVE  RegistryOK'
<1> DEFINE marked == [services[i] EXCEPT !.pending = "Restart"]
<1>1. \/ services[i].state # "Absent" /\ StopOk(i, services[i])
      \/ services[i].state # "Absent" /\ StartOk(i, services[i])
      \/ services[i].state # "Absent" /\ StopOk(i, marked)
      \/ services[i].state # "Absent" /\ Store(i, marked)
      \/ UNCHANGED <<registryVars, procs>>
  BY DEF apply_control_op, ControlStop, ControlStart, ControlRestart, ControlIgnored
<1>2. services[i] \in ServiceRecord
  BY DEF RegistryOK
<1>3. services[i].state # "Absent" =>
        services[i].name \in Names /\ services[i].config \in Configs
  BY DEF RegistryOK
<1>4. /\ marked \in ServiceRecord
      /\ marked.name = services[i].name /\ marked.config = services[i].config
  <2>1. "Restart" \in PendingActions
    BY DEF PendingActions
  <2> QED  BY <1>2, <2>1, PendingType
<1> HIDE DEF marked
<1>5. CASE UNCHANGED <<registryVars, procs>>
  BY <1>5 DEF RegistryOK, registryVars
<1> QED  BY <1>1, <1>2, <1>3, <1>4, <1>5, StopOK, StartOK, StoreOK

(* Reading and applying a command keeps the types. *)
LEMMA TypeReadControl == ASSUME TypeInv, ReadControl PROVE TypeInv'
<1>1. Head(fifo) \in ControlCommand /\ Tail(fifo) \in Seq(ControlCommand)
  BY HeadTailProperties DEF ReadControl, TypeInv, FifoOK
<1>2. FifoOK'
  BY <1>1 DEF ReadControl, FifoOK
<1>3. ControlOK' /\ BootStopped'
  BY DEF ReadControl, AfterEvent, TypeInv, ControlOK, BootStopped, LoopsDefined, PCs,
         reloadVars
<1>4. CASE /\ Decodes(Head(fifo))
           /\ apply_control_op(Head(fifo).op, Head(fifo).id, services[Head(fifo).id])
           /\ flush_status_file
  <2>1. Head(fifo).id \in Ids
    BY <1>1, <1>4 DEF ControlCommand, Decodes, InvalidFrame, ControlOps
  <2>2. RegistryOK'
    BY <1>4, <2>1, TypeControlOp DEF TypeInv
  <2>3. StatusOK'
    BY <1>4, <2>2, FlushOK DEF TypeInv
  <2> QED  BY <1>2, <1>3, <2>2, <2>3 DEF TypeInv
<1>5. CASE UNCHANGED <<registryVars, procs, status>>
  BY <1>2, <1>3, <1>5 DEF TypeInv, RegistryOK, StatusOK, registryVars
<1> QED  BY <1>4, <1>5 DEF ReadControl

(* What users, writers and the kernel do leaves the supervisor's memory be. *)
LEMMA TypeWorld == ASSUME TypeInv, WorldStep PROVE TypeInv'
<1> DEFINE Rest == ControlOK' /\ FifoOK' /\ StatusOK' /\ BootStopped'
<1> USE DEF supervisorVars, reloadVars, worldVars
<1>1. CASE \E sig \in UserSignals : SendSignal(sig)
  BY <1>1, SupervisorAssumption DEF SendSignal, TypeInv, RegistryOK, ControlOK, FifoOK, StatusOK,
     BootStopped, LoopsDefined
<1>2. CASE \E op \in Ops, i \in Ids : SendCommand(op, i)
  <2>1. PICK op \in Ops, i \in Ids : SendCommand(op, i)
    BY <1>2
  <2>2. [op |-> op, id |-> i, name |-> status[i].name] \in ControlCommand
    BY <2>1, SupervisorAssumption DEF SendCommand, TypeInv, StatusOK, ControlCommand
  <2>3. FifoOK'
    BY <2>1, <2>2, AppendProperties DEF SendCommand, TypeInv, FifoOK
  <2> QED
    BY <2>1, <2>3 DEF SendCommand, TypeInv, RegistryOK, ControlOK, StatusOK, BootStopped,
       LoopsDefined
<1>3. CASE SendInvalidFrame
  <2>1. InvalidFrame \in ControlCommand
    BY DEF ControlCommand
  <2>2. FifoOK'
    BY <1>3, <2>1, AppendProperties DEF SendInvalidFrame, TypeInv, FifoOK
  <2> QED
    BY <1>3, <2>2 DEF SendInvalidFrame, TypeInv, RegistryOK, ControlOK, StatusOK, BootStopped,
       LoopsDefined
<1>4. ASSUME NEW p \in Pids, NEW exit \in ExitReason, BecomeZombie(p, exit)
      PROVE  TypeInv'
  <2>1. Rest
    BY <1>4 DEF BecomeZombie, TypeInv, ControlOK, FifoOK, StatusOK, BootStopped, LoopsDefined
  <2>2. /\ procs' \in [Pids -> Process]
        /\ \A q \in Pids : procs'[q].st = "zombie" => procs'[q].exit \in ExitReason
    <3>1. procs' = [procs EXCEPT ![p] = [@ EXCEPT !.st = "zombie", !.exit = exit]]
      BY <1>4 DEF BecomeZombie, TypeInv, RegistryOK
    <3>2. ASSUME NEW proc \in Process
          PROVE  LET dead == [proc EXCEPT !.st = "zombie", !.exit = exit] IN
                 dead \in Process /\ dead.exit \in ExitReason
      BY <1>4 DEF Process
    <3> QED  BY <3>1, <3>2 DEF TypeInv, RegistryOK
  <2>3. RegistryOK'
    BY <1>4, <2>2 DEF BecomeZombie, TypeInv, RegistryOK
  <2> QED  BY <2>1, <2>3 DEF TypeInv
<1>5. CASE \E p \in Pids, exit \in ExitStatuses : ProcessExits(p, exit)
  BY <1>4, <1>5, SupervisorAssumption DEF ProcessExits
<1>6. CASE \E p \in Pids : ProcessKilled(p)
  <2>1. [kind |-> "Signaled", val |-> SIGKILL] \in ExitReason
    BY DEF ExitReason, SIGKILL
  <2> QED  BY <1>4, <1>6, <2>1 DEF ProcessKilled
<1>7. CASE \E p, q \in Pids : Adopt(p, q)
  <2>1. PICK p \in Pids, q \in Pids : Adopt(p, q)
    BY <1>7
  <2>2. Rest
    BY <2>1 DEF Adopt, TypeInv, ControlOK, FifoOK, StatusOK, BootStopped, LoopsDefined
  <2>3. procs[q].pgid \in Pids \cup {None} /\ procs[q].grp \in Ids \cup {NoId}
    BY DEF TypeInv, RegistryOK, Process
  <2>4. PICK orphan \in {GroupMember(procs[q].pgid, procs[q].grp), GroupLeader(p)} :
          procs' = [procs EXCEPT ![p] = orphan]
    BY <2>1 DEF Adopt
  <2>5. orphan \in Process /\ orphan.st = "alive"
    BY <2>3, <2>4, GroupMemberType DEF GroupLeader
  <2>6. RegistryOK'
    BY <2>1, <2>4, <2>5 DEF Adopt, TypeInv, RegistryOK
  <2> QED  BY <2>2, <2>6 DEF TypeInv
<1>8. CASE TimerExpires
  BY <1>8 DEF TimerExpires, TypeInv, RegistryOK, ControlOK, FifoOK, StatusOK, BootStopped,
     LoopsDefined
<1>9. CASE TimePasses
  <2>1. ASSUME NEW i \in Ids
        PROVE  /\ services'[i] \in ServiceRecord
               /\ services'[i].state = services[i].state
               /\ services'[i].name = services[i].name
               /\ services'[i].config = services[i].config
    BY <1>9 DEF TimePasses, TypeInv, RegistryOK, ServiceRecord
  <2>2. ASSUME NEW p \in Pids
        PROVE  /\ procs'[p] \in Process
               /\ procs'[p].st = procs[p].st
               /\ procs'[p].exit = procs[p].exit
    BY <1>9 DEF TimePasses, TypeInv, RegistryOK, Process, NotAsked
  <2>3. DOMAIN services' = Ids /\ DOMAIN procs' = Pids
    BY <1>9 DEF TimePasses
  <2>4. Rest
    BY <1>9, <2>1 DEF TimePasses, TypeInv, RegistryOK, ControlOK, FifoOK, StatusOK, BootStopped,
       LoopsDefined
  <2>5. services' \in [Ids -> ServiceRecord] /\ procs' \in [Pids -> Process]
    BY <1>9, <2>1, <2>2, <2>3 DEF TimePasses
  <2>6. RegistryOK'
    BY <1>9, <2>1, <2>2, <2>5 DEF TimePasses, TypeInv, RegistryOK
  <2> QED  BY <2>4, <2>6 DEF TypeInv
<1> QED
  BY <1>1, <1>2, <1>3, <1>5, <1>6, <1>7, <1>8, <1>9 DEF WorldStep

(* One step per action of Next. *)
LEMMA TypeNext ==
  ASSUME TypeInv, EveryChildSupervised, [Next]_vars PROVE TypeInv'
<1>1. CASE SupervisorStep
  BY <1>1, TypeBoot, TypeLoadService, TypeLoadDone, TypeBootStart, TypeBootDone,
     TypeLoopSteps, TypeFlushSteps, TypeReloadRemove, TypeReloadAdd, TypeReloadChange,
     TypeReap, TypeKillGroup, TypeShutdownStop, TypeTickKill, TypeTickStopped,
     TypeReadControl, Zenon DEF SupervisorStep
<1>2. CASE WorldStep
  BY <1>2, TypeWorld
<1>3. CASE UNCHANGED vars
  BY <1>3 DEF vars, registryVars, reloadVars, worldVars, TypeInv, RegistryOK, ControlOK,
     FifoOK, StatusOK, BootStopped, LoopsDefined
<1> QED  BY <1>1, <1>2, <1>3 DEF Next, Terminated

-----------------------------------------------------------------------------
(* Supervision.  EveryChildSupervised is inductive once the kernel's free    *)
(* pids are known to be nobody's and unused ids to be unregistered: a start  *)
(* must find neither an old pid under the id nor an old id under the pid.    *)

Supervised == EveryChildSupervised /\ FreeUnused
Inv == TypeInv /\ Supervised /\ FreshIds

(* Storing a record that agrees with the old one on the pid. *)
LEMMA StoreSupervised ==
  ASSUME RegistryOK, Supervised, NEW i \in Ids, NEW svc \in ServiceRecord, Store(i, svc),
         svc.pid = services[i].pid,
         svc.state \in LiveStates <=> services[i].state \in LiveStates
  PROVE  Supervised'
BY DEF Supervised, EveryChildSupervised, FreeUnused, RegistryOK, Store

(* Starting a service that has no process. *)
LEMMA StartSupervised ==
  ASSUME RegistryOK, Supervised, NEW i \in Ids, NEW svc \in ServiceRecord, StartOk(i, svc),
         svc.config \in Configs, services[i].pid = None
  PROVE  Supervised'
<1>1. PICK pid \in FreePids :
        /\ services' = [services EXCEPT ![i] = Started(svc, pid)]
        /\ pids_map' = [pids_map EXCEPT ![pid] = i]
        /\ procs' = [procs EXCEPT ![pid] = ServiceProcess(pid, i, svc.config)]
  BY DEF StartOk
<1>2. pid \in Pids /\ procs[pid].st = "free"
  BY DEF FreePids
<1>3. pids_map[pid] = NoId
  BY <1>2 DEF Supervised, EveryChildSupervised, FreeUnused
<1>4. /\ ServiceProcess(pid, i, svc.config).svc = i
      /\ ServiceProcess(pid, i, svc.config).st = "alive"
  BY <1>2, ServiceProcessType
<1>5. Started(svc, pid).pid = pid /\ Started(svc, pid).state \in LiveStates
  BY <1>2, StartedType DEF LiveStates
<1>6. /\ services' \in [Ids -> ServiceRecord] /\ pids_map' \in [Pids -> Ids \cup {NoId}]
      /\ procs' \in [Pids -> Process]
  <2>1. Started(svc, pid) \in ServiceRecord /\ ServiceProcess(pid, i, svc.config) \in Process
    BY <1>2, StartedType, ServiceProcessType
  <2> QED  BY <1>1, <1>2, <2>1 DEF RegistryOK
<1>7. \A p \in Pids : procs'[p].svc = pids_map'[p]
  BY <1>1, <1>2, <1>4, <1>6 DEF Supervised, EveryChildSupervised, RegistryOK
<1>8. \A p \in Pids, j \in Ids : pids_map'[p] = j <=> services'[j].pid = p
  <2> SUFFICES ASSUME NEW p \in Pids, NEW j \in Ids
               PROVE  pids_map'[p] = j <=> services'[j].pid = p
    OBVIOUS
  <2>1. pids_map[p] = j <=> services[j].pid = p
    BY DEF Supervised, EveryChildSupervised
  <2>2. services[j].pid # pid
    BY <1>2, <1>3 DEF Supervised, EveryChildSupervised
  <2>3. pids_map[p] # i
    BY ServiceAssumption DEF Supervised, EveryChildSupervised
  <2> QED  BY <1>1, <1>2, <1>5, <2>1, <2>2, <2>3 DEF RegistryOK
<1>9. \A j \in Ids : services'[j].state \in LiveStates <=> services'[j].pid # None
  BY <1>1, <1>2, <1>5, ServiceAssumption DEF Supervised, EveryChildSupervised, RegistryOK
<1>10. FreeUnused'
  BY <1>1, <1>2, <1>4 DEF Supervised, FreeUnused, RegistryOK
<1> QED  BY <1>7, <1>8, <1>9, <1>10 DEF Supervised, EveryChildSupervised

(* Requesting the stop of a service that runs. *)
LEMMA StopSupervised ==
  ASSUME RegistryOK, Supervised, NEW i \in Ids, NEW svc \in ServiceRecord, StopOk(i, svc),
         svc.config \in Configs, svc.pid = services[i].pid, services[i].state \in LiveStates
  PROVE  Supervised'
<1>1. /\ services' = [services EXCEPT ![i] = StopRequested(svc)]
      /\ pids_map' = pids_map
      /\ procs' = [procs EXCEPT ![svc.pid].owed = svc.config.stop_timeout]
  BY DEF StopOk
<1>2. StopRequested(svc).pid = services[i].pid /\ StopRequested(svc).state \in LiveStates
  BY StopRequestedType DEF LiveStates
<1>3. \A p \in Pids : procs'[p].svc = procs[p].svc /\ procs'[p].st = procs[p].st
  BY <1>1 DEF RegistryOK, Process
<1> QED
  BY <1>1, <1>2, <1>3 DEF Supervised, EveryChildSupervised, FreeUnused, RegistryOK

(* A registered id has been handed out. *)
LEMMA RegisteredNotFresh ==
  ASSUME FreshIds, next_id \in Nat, NEW i \in Ids, services[i].state # "Absent"
  PROVE  i < next_id
BY NoServiceType DEF FreshIds

(* Steps that leave the registry alone, and of the processes what they are *)
(* supervised for.                                                         *)
LEMMA SupervisionKept ==
  ASSUME Inv, UNCHANGED <<services, pids_map, next_id>>,
         \A p \in Pids : /\ procs'[p].svc = procs[p].svc
                         /\ procs'[p].st = "free" => procs[p].st = "free"
  PROVE  Supervised' /\ FreshIds'
BY DEF Inv, Supervised, EveryChildSupervised, FreeUnused, FreshIds

(* The three ways in which the code writes one service record. *)
LEMMA SupervisionWritten ==
  ASSUME Inv, NEW i \in Ids, NEW svc \in ServiceRecord, UNCHANGED next_id,
         services[i].state # "Absent", svc.config \in Configs, svc.pid = services[i].pid,
         \/ /\ Store(i, svc)
            /\ svc.state \in LiveStates <=> services[i].state \in LiveStates
         \/ StartOk(i, svc) /\ services[i].state = "Stopped"
         \/ StopOk(i, svc) /\ services[i].state = "Running"
  PROVE  Supervised' /\ FreshIds'
<1>1. services[i].state = "Stopped" => services[i].pid = None
  BY DEF Inv, Supervised, EveryChildSupervised, LiveStates
<1>2. Supervised'
  BY <1>1, StoreSupervised, StartSupervised, StopSupervised DEF Inv, TypeInv, LiveStates
<1>3. next_id \in Nat /\ i < next_id
  BY SupervisorAssumption, RegisteredNotFresh DEF Inv, TypeInv, ControlOK
<1>4. PICK new : services' = [services EXCEPT ![i] = new]
  BY DEF Store, StartOk, StopOk
<1>5. FreshIds'
  <2>1. FreshIds /\ services \in [Ids -> ServiceRecord]
    BY DEF Inv, TypeInv, RegistryOK
  <2> QED  BY <1>3, <1>4, <2>1 DEF FreshIds
<1> QED  BY <1>2, <1>5

(* A registered service, as the handlers that act on one find it. *)
LEMMA RegisteredRecord ==
  ASSUME Inv, NEW i \in Ids, services[i].state # "Absent"
  PROVE  services[i] \in ServiceRecord /\ services[i].config \in Configs
BY DEF Inv, TypeInv, RegistryOK

(* A new service is put under an id that was never used. *)
LEMMA SupervisionNew ==
  ASSUME Inv, NEW n \in Names, NEW cfg \in Configs, IdAvailable, next_id' = next_id + 1,
         \/ Store(nextval, NewService(n, cfg))
         \/ StartOk(nextval, NewService(n, cfg))
  PROVE  Supervised' /\ FreshIds'
<1>1. next_id \in Ids /\ next_id \in Nat /\ nextval = next_id
  BY SupervisorAssumption DEF Inv, TypeInv, ControlOK, nextval
<1>2. services[next_id] = NoService
  BY <1>1 DEF Inv, FreshIds
<1>3. services[next_id].pid = None /\ services[next_id].state \notin LiveStates
  BY <1>2, NoServiceType DEF LiveStates
<1>4. /\ NewService(n, cfg) \in ServiceRecord /\ NewService(n, cfg).config \in Configs
      /\ NewService(n, cfg).pid = None /\ NewService(n, cfg).state \notin LiveStates
  BY NewServiceType DEF LiveStates
<1>5. Supervised'
  BY <1>1, <1>3, <1>4, StoreSupervised, StartSupervised DEF Inv, TypeInv
<1>6. PICK new : services' = [services EXCEPT ![next_id] = new]
  BY <1>1 DEF Store, StartOk
<1>7. FreshIds'
  <2>1. FreshIds /\ services \in [Ids -> ServiceRecord]
    BY DEF Inv, TypeInv, RegistryOK
  <2> QED  BY <1>1, <1>6, <2>1 DEF FreshIds
<1> QED  BY <1>5, <1>7

(* Dropping a stopped service from the registry. *)
LEMMA SupervisionRemoved ==
  ASSUME Inv, NEW i \in Ids, UNCHANGED next_id, services[i].state = "Stopped",
         Store(i, NoService)
  PROVE  Supervised' /\ FreshIds'
<1>1. services[i].pid = None /\ services[i].state \notin LiveStates
  BY DEF Inv, Supervised, EveryChildSupervised, LiveStates
<1>2. Supervised'
  BY <1>1, NoServiceType, StoreSupervised DEF Inv, TypeInv, LiveStates
<1>3. FreshIds'
  BY DEF Inv, TypeInv, RegistryOK, FreshIds, Store
<1> QED  BY <1>2, <1>3

(* The loops of reload_services keep every child supervised. *)
LEMMA SupervisionReload ==
  ASSUME Inv, NEW n \in Names, ReloadRemove(n) \/ ReloadAdd(n) \/ ReloadChange(n)
  PROVE  Supervised' /\ FreshIds'
<1> DEFINE i == service_ids[n]
<1>1. ASSUME NEW svc \in ServiceRecord, NEW action \in PendingActions, i \in Ids,
             UNCHANGED next_id, PendAndStop(n, i, svc, action), svc.config \in Configs,
             services[i].state = svc.state, services[i].pid = svc.pid
      PROVE  Supervised' /\ FreshIds'
  <2> DEFINE marked == [svc EXCEPT !.pending = action]
  <2>1. /\ marked \in ServiceRecord /\ marked.config \in Configs
        /\ marked.pid = services[i].pid /\ marked.state = services[i].state
    BY <1>1, PendingType
  <2>2. /\ services[i].state # "Absent"
        /\ \/ StopOk(i, marked) /\ services[i].state = "Running"
           \/ Store(i, marked)
    BY <1>1 DEF PendAndStop
  <2> HIDE DEF marked, i
  <2> QED  BY <1>1, <2>1, <2>2, SupervisionWritten
<1>2. CASE ReloadRemove(n)
  <2>1. i \in Ids /\ services[i] \in ServiceRecord
    BY <1>2 DEF ReloadRemove, Inv, TypeInv, ControlOK, LoopsDefined, RegistryOK
  <2>2. CASE services[i].state = "Stopped" /\ Store(i, NoService)
    BY <1>2, <2>1, <2>2, SupervisionRemoved DEF ReloadRemove
  <2>3. CASE PendAndStop(n, i, services[i], "Remove")
    <3>1. services[i].state # "Absent" /\ "Remove" \in PendingActions
      BY <2>3 DEF PendAndStop, PendingActions
    <3>2. UNCHANGED next_id
      BY <1>2 DEF ReloadRemove
    <3> QED  BY <1>1, <2>1, <2>3, <3>1, <3>2, RegisteredRecord
  <2> QED  BY <1>2, <2>2, <2>3 DEF ReloadRemove
<1>3. CASE ReloadAdd(n)
  <2>1. new_cfg[n] \in Configs
    BY <1>3 DEF ReloadAdd, Inv, TypeInv, ControlOK, LoopsDefined, Defined, ConfigFile
  <2>2. CASE IdAvailable /\ StartOk(nextval, NewService(n, new_cfg[n])) /\ next_id' = next_id + 1
    BY <2>1, <2>2, SupervisionNew
  <2>3. CASE UNCHANGED <<registryVars, procs>> /\ next_id' \in {next_id, next_id + 1}
    <3>1. next_id \in Nat
      BY SupervisorAssumption DEF Inv, TypeInv, ControlOK
    <3> QED
      BY <2>3, <3>1 DEF Inv, Supervised, EveryChildSupervised, FreeUnused, FreshIds, registryVars
  <2> QED  BY <1>3, <2>2, <2>3 DEF ReloadAdd
<1>4. CASE ReloadChange(n)
  <2> DEFINE svc == update_config(services[i], new_cfg[n])
  <2>1. new_cfg[n] \in Configs
    BY <1>4 DEF ReloadChange, Inv, TypeInv, ControlOK, LoopsDefined, Defined, ConfigFile
  <2>2. i \in Ids /\ services[i].state # "Absent"
    BY <1>4 DEF ReloadChange, Registered
  <2>3. /\ svc \in ServiceRecord /\ svc.config \in Configs
        /\ svc.state = services[i].state /\ svc.pid = services[i].pid
    BY <2>1, <2>2, RegisteredRecord, UpdateConfigType
  <2>4. \/ Store(i, svc)
        \/ StartOk(i, svc) /\ svc.state = "Stopped"
        \/ PendAndStop(n, i, svc, "Restart")
    BY <1>4 DEF ReloadChange
  <2>5. UNCHANGED next_id /\ "Restart" \in PendingActions
    BY <1>4 DEF ReloadChange, PendingActions
  <2> HIDE DEF svc, i
  <2>6. CASE Store(i, svc) \/ (StartOk(i, svc) /\ svc.state = "Stopped")
    BY <2>2, <2>3, <2>5, <2>6, SupervisionWritten
  <2>7. CASE PendAndStop(n, i, svc, "Restart")
    BY <1>1, <2>2, <2>3, <2>5, <2>7
  <2> QED  BY <2>4, <2>6, <2>7
<1> QED  BY <1>2, <1>3, <1>4

(* The pid that is reaped leads to the service that has it, and to no other. *)
LEMMA SupervisionReap ==
  ASSUME Inv, NEW p \in Pids, Reap(p)
  PROVE  Supervised' /\ FreshIds'
<1> DEFINE i == pids_map[p]
<1>1. /\ procs' = [procs EXCEPT ![p] = NoProcess]
      /\ NoProcess.svc = NoId
      /\ next_id' = next_id
  BY NoProcessType DEF Reap
<1>2. CASE /\ i # NoId
           /\ pids_map' = [pids_map EXCEPT ![p] = NoId]
           /\ services' = [services EXCEPT ![i] = Reaped(services[i], procs[p].exit)]
  <2>1. i \in Ids /\ services[i] \in ServiceRecord /\ procs[p].exit \in ExitReason
    BY <1>2 DEF Inv, TypeInv, RegistryOK, Reap, Zombies
  <2>2. /\ Reaped(services[i], procs[p].exit).pid = None
        /\ Reaped(services[i], procs[p].exit).state \notin LiveStates
    BY <2>1, ReapedType DEF LiveStates
  <2>3. services[i].pid = p
    BY <2>1 DEF Inv, Supervised, EveryChildSupervised
  <2>4. i < next_id
    <3>1. services[i].state # "Absent" /\ next_id \in Nat
      BY <2>1, <2>3, ServiceAssumption, SupervisorAssumption
      DEF Inv, Supervised, EveryChildSupervised, LiveStates, TypeInv, ControlOK
    <3> QED  BY <2>1, <3>1, RegisteredNotFresh DEF Inv
  <2>5. Supervised'
    <3> USE DEF Inv, TypeInv, RegistryOK, Supervised, EveryChildSupervised
    <3>1. \A q \in Pids : procs'[q].svc = pids_map'[q]
      BY <1>1, <1>2
    <3>2. \A q \in Pids, j \in Ids : pids_map'[q] = j <=> services'[j].pid = q
      <4> SUFFICES ASSUME NEW q \in Pids, NEW j \in Ids
                   PROVE  pids_map'[q] = j <=> services'[j].pid = q
        OBVIOUS
      <4>1. pids_map[q] = j <=> services[j].pid = q
        OBVIOUS
      <4>2. CASE j = i
        BY <1>2, <2>1, <2>2, <2>3, <4>1, <4>2, ServiceAssumption
      <4>3. CASE j # i
        BY <1>2, <2>1, <4>1, <4>3
      <4> QED  BY <4>2, <4>3
    <3>3. \A j \in Ids : services'[j].state \in LiveStates <=> services'[j].pid # None
      BY <1>2, <2>1, <2>2
    <3>4. FreeUnused'
      BY <1>1 DEF FreeUnused
    <3> QED  BY <3>1, <3>2, <3>3, <3>4
  <2>6. FreshIds'
    <3>1. FreshIds /\ services \in [Ids -> ServiceRecord] /\ next_id \in Nat
      BY SupervisorAssumption DEF Inv, TypeInv, RegistryOK, ControlOK
    <3> HIDE DEF i
    <3> QED  BY <1>1, <1>2, <2>1, <2>4, <3>1 DEF FreshIds
  <2> QED  BY <2>5, <2>6
<1>3. CASE i = NoId /\ UNCHANGED registryVars
  BY <1>1, <1>3 DEF Inv, TypeInv, RegistryOK, Supervised, EveryChildSupervised, FreeUnused,
     FreshIds, registryVars
<1> QED  BY <1>2, <1>3 DEF Reap

(* The timer arm. *)
LEMMA SupervisionTick ==
  ASSUME Inv, NEW i \in Ids, TickKill(i) \/ TickStopped(i)
  PROVE  Supervised' /\ FreshIds'
<1>1. CASE TickKill(i)
  <2>1. \A p \in Pids : /\ procs'[p].svc = procs[p].svc
                        /\ procs'[p].st = "free" => procs[p].st = "free"
    BY <1>1, KillType DEF TickKill, Inv, TypeInv, RegistryOK
  <2> QED  BY <1>1, <2>1, SupervisionKept DEF TickKill, tickFrame, registryVars
<1>2. CASE TickStopped(i)
  <2> DEFINE svc == [services[i] EXCEPT !.pending = "None"]
  <2>1. services[i].state = "Stopped" /\ next_id' = next_id /\ "None" \in PendingActions
    BY <1>2 DEF TickStopped, tickFrame, PendingActions
  <2>2. /\ svc \in ServiceRecord /\ svc.config \in Configs
        /\ svc.pid = services[i].pid /\ svc.state = services[i].state
    BY <2>1, RegisteredRecord, PendingType
  <2>3. Store(i, svc) \/ Store(i, NoService) \/ StartOk(i, svc)
    BY <1>2 DEF TickStopped
  <2> HIDE DEF svc
  <2> QED  BY <2>1, <2>2, <2>3, SupervisionWritten, SupervisionRemoved
<1> QED  BY <1>1, <1>2

(* The control FIFO. *)
LEMMA SupervisionControl ==
  ASSUME Inv, ReadControl
  PROVE  Supervised' /\ FreshIds'
<1>1. UNCHANGED next_id
  BY DEF ReadControl
<1>2. CASE UNCHANGED <<registryVars, procs>>
  BY <1>1, <1>2, SupervisionKept DEF registryVars
<1>3. CASE /\ Decodes(Head(fifo))
           /\ apply_control_op(Head(fifo).op, Head(fifo).id, services[Head(fifo).id])
           /\ ~UNCHANGED <<registryVars, procs>>
  <2> DEFINE i == Head(fifo).id
             marked == [services[i] EXCEPT !.pending = "Restart"]
  <2>1. i \in Ids
    <3>1. Head(fifo) \in ControlCommand
      BY HeadTailProperties DEF ReadControl, Inv, TypeInv, FifoOK
    <3> QED  BY <1>3, <3>1 DEF ControlCommand, Decodes, InvalidFrame, ControlOps
  <2>2. /\ services[i].state # "Absent"
        /\ \/ StopOk(i, services[i]) /\ services[i].state = "Running"
           \/ StartOk(i, services[i]) /\ services[i].state = "Stopped"
           \/ StopOk(i, marked) /\ services[i].state = "Running"
           \/ Store(i, marked)
    BY <1>3 DEF apply_control_op, ControlStop, ControlStart, ControlRestart, ControlIgnored
  <2>3. services[i] \in ServiceRecord /\ services[i].config \in Configs
    BY <2>1, <2>2, RegisteredRecord
  <2>4. /\ marked \in ServiceRecord /\ marked.config \in Configs
        /\ marked.pid = services[i].pid /\ marked.state = services[i].state
    <3>1. "Restart" \in PendingActions
      BY DEF PendingActions
    <3> QED  BY <2>3, <3>1, PendingType
  <2> HIDE DEF i, marked
  <2> QED  BY <1>1, <2>1, <2>2, <2>3, <2>4, SupervisionWritten
<1> QED  BY <1>2, <1>3 DEF ReadControl

(* Kernel and users. *)
LEMMA SupervisionWorld ==
  ASSUME Inv, WorldStep
  PROVE  Supervised' /\ FreshIds'
<1> USE DEF supervisorVars
<1>1. CASE \/ \E sig \in UserSignals : SendSignal(sig)
           \/ \E op \in Ops, i \in Ids : SendCommand(op, i)
           \/ SendInvalidFrame \/ TimerExpires
  BY <1>1, SupervisionKept DEF SendSignal, SendCommand, SendInvalidFrame, TimerExpires
<1>2. ASSUME NEW p \in Pids, NEW exit, BecomeZombie(p, exit)
      PROVE  Supervised' /\ FreshIds'
  <2>1. \A q \in Pids : /\ procs'[q].svc = procs[q].svc
                        /\ procs'[q].st = "free" => procs[q].st = "free"
    BY <1>2 DEF BecomeZombie, Inv, TypeInv, RegistryOK, Process
  <2> QED  BY <1>2, <2>1, SupervisionKept DEF BecomeZombie
<1>3. CASE \E p, q \in Pids : Adopt(p, q)
  <2>1. PICK p \in Pids, q \in Pids : Adopt(p, q)
    BY <1>3
  <2>2. procs[p].svc = NoId
    BY <2>1 DEF Adopt, FreePids, Inv, Supervised, FreeUnused
  <2>3. procs[q].pgid \in Pids \cup {None} /\ procs[q].grp \in Ids \cup {NoId}
    BY DEF Inv, TypeInv, RegistryOK, Process
  <2>4. PICK orphan \in {GroupMember(procs[q].pgid, procs[q].grp), GroupLeader(p)} :
          procs' = [procs EXCEPT ![p] = orphan]
    BY <2>1 DEF Adopt
  <2>5. orphan.svc = NoId /\ orphan.st = "alive"
    BY <2>3, <2>4, GroupMemberType DEF GroupLeader
  <2>6. \A r \in Pids : /\ procs'[r].svc = procs[r].svc
                        /\ procs'[r].st = "free" => procs[r].st = "free"
    BY <2>2, <2>4, <2>5 DEF Inv, TypeInv, RegistryOK
  <2> QED  BY <2>1, <2>6, SupervisionKept DEF Adopt
<1>4. CASE TimePasses
  <2>1. \A i \in Ids : /\ services'[i].state = services[i].state
                       /\ services'[i].pid = services[i].pid
                       /\ services[i] = NoService => services'[i] = NoService
    BY <1>4 DEF TimePasses, Inv, TypeInv, RegistryOK, ServiceRecord, NoService
  <2>2. \A p \in Pids : procs'[p].svc = procs[p].svc /\ procs'[p].st = procs[p].st
    BY <1>4 DEF TimePasses, Inv, TypeInv, RegistryOK, Process
  <2>3. UNCHANGED <<pids_map, next_id>>
    BY <1>4 DEF TimePasses
  <2> QED
    BY <2>1, <2>2, <2>3 DEF Inv, Supervised, EveryChildSupervised, FreeUnused, FreshIds
<1> QED
  BY <1>1, <1>2, <1>3, <1>4 DEF WorldStep, ProcessExits, ProcessKilled

(* One step per action of Next. *)
LEMMA SupervisionNext ==
  ASSUME Inv, [Next]_vars
  PROVE  Supervised' /\ FreshIds'
<1>1. CASE \/ Boot \/ LoadDone \/ BootDone \/ EpollWait \/ LoopFails \/ ReadSignals
           \/ SignalsDone \/ ReloadRefused \/ ReloadBegin \/ ReloadRemoveDone
           \/ (\E n \in Names : ReloadUnchanged(n)) \/ ReloadDone \/ SigChld \/ ReapDone
           \/ (\E sig \in {SIGINT, SIGTERM} : SigTerm(sig)) \/ ShutdownDone
           \/ ReadTimer \/ TickDone \/ UNCHANGED vars
  <2>1. UNCHANGED <<services, pids_map, next_id, procs>>
    BY <1>1 DEF Boot, LoadDone, BootDone, EpollWait, LoopFails, ReadSignals, SignalsDone,
       ReloadRefused, ReloadBegin, ReloadRemoveDone, ReloadUnchanged, ReloadDone, SigChld,
       ReapDone, SigTerm, ShutdownDone, ReadTimer, TickDone, vars, registryVars
  <2> QED  BY <2>1, SupervisionKept
<1>2. CASE \E n \in Names : LoadService(n)
  <2>1. PICK n \in Names : LoadService(n)
    BY <1>2
  <2>2. new_cfg[n] \in Configs
    BY <2>1 DEF LoadService, Inv, TypeInv, ControlOK, LoopsDefined, Defined, ConfigFile
  <2>3. CASE UNCHANGED <<registryVars, procs, next_id>>
    BY <2>3, SupervisionKept DEF registryVars
  <2>4. CASE /\ IdAvailable /\ Store(nextval, NewService(n, new_cfg[n]))
             /\ next_id' = next_id + 1
    BY <2>2, <2>4, SupervisionNew
  <2> QED  BY <2>1, <2>3, <2>4 DEF LoadService
<1>3. CASE \E i \in Ids : BootStart(i)
  <2>1. PICK i \in Ids : BootStart(i)
    BY <1>3
  <2>2. services[i].state = "Stopped" /\ next_id' = next_id
    BY <2>1 DEF BootStart, Inv, TypeInv, BootStopped
  <2>3. CASE StartOk(i, services[i])
    BY <2>2, <2>3, RegisteredRecord, SupervisionWritten
  <2>4. CASE UNCHANGED <<registryVars, procs>>
    BY <2>2, <2>4, SupervisionKept DEF registryVars
  <2> QED  BY <2>1, <2>3, <2>4 DEF BootStart
<1>4. CASE \E n \in Names : ReloadRemove(n) \/ ReloadAdd(n) \/ ReloadChange(n)
  BY <1>4, SupervisionReload
<1>5. CASE \E p \in Pids : Reap(p)
  BY <1>5, SupervisionReap
<1>6. CASE KillGroup
  <2>1. \A p \in Pids : /\ procs'[p].svc = procs[p].svc
                        /\ procs'[p].st = "free" => procs[p].st = "free"
    BY <1>6, KillType DEF KillGroup, Inv, TypeInv, RegistryOK
  <2> QED  BY <1>6, <2>1, SupervisionKept DEF KillGroup, registryVars
<1>7. CASE \E i \in Ids : ShutdownStop(i)
  <2>1. PICK i \in Ids : ShutdownStop(i)
    BY <1>7
  <2>2. UNCHANGED next_id
    BY <2>1 DEF ShutdownStop
  <2>3. CASE services[i].state = "Running" /\ StopOk(i, services[i])
    BY <2>2, <2>3, RegisteredRecord, SupervisionWritten
  <2>4. CASE UNCHANGED <<registryVars, procs>>
    BY <2>2, <2>4, SupervisionKept DEF registryVars
  <2> QED  BY <2>1, <2>3, <2>4 DEF ShutdownStop
<1>8. CASE \E i \in Ids : TickKill(i) \/ TickStopped(i)
  BY <1>8, SupervisionTick
<1>9. CASE ReadControl
  BY <1>9, SupervisionControl
<1>10. CASE WorldStep
  BY <1>10, SupervisionWorld
<1> QED
  BY <1>1, <1>2, <1>3, <1>4, <1>5, <1>6, <1>7, <1>8, <1>9, <1>10, Zenon
  DEF Next, SupervisorStep, Terminated

-----------------------------------------------------------------------------
(* The invariant holds in every reachable state. *)
LEMMA InvInit == Init => Inv
<1> SUFFICES ASSUME Init PROVE Inv
  OBVIOUS
<1>1. Supervised
  BY NoServiceType, NoProcessType, ServiceAssumption
  DEF Init, Supervised, EveryChildSupervised, FreeUnused, LiveStates
<1>2. FreshIds
  BY DEF Init, FreshIds
<1> QED  BY <1>1, <1>2, TypeInit DEF Inv

(* Every step keeps the invariant. *)
LEMMA InvNext == Inv /\ [Next]_vars => Inv'
BY TypeNext, SupervisionNext DEF Inv, Supervised

(* The inductive invariant holds in every reachable state of Spec. *)
THEOREM Invariance == Spec => []Inv
BY InvInit, InvNext, PTL DEF Spec

(***************************************************************************)
(* Every variable of the supervisor and of the kernel keeps its type.      *)
(***************************************************************************)
THEOREM TypeCorrect == Spec => []TypeOK
<1>1. Inv => TypeOK
  BY TypeInvMeaning DEF Inv
<1> QED  BY <1>1, Invariance, PTL

(***************************************************************************)
(* No child of the supervisor is lost or supervised twice, in any number   *)
(* of services, pids and reloads and whatever fails.                       *)
(***************************************************************************)
THEOREM Supervision == Spec => []EveryChildSupervised
<1>1. Inv => EveryChildSupervised
  BY DEF Inv, Supervised
<1> QED  BY <1>1, Invariance, PTL
=============================================================================

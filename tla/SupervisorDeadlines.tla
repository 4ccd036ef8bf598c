------------------------ MODULE SupervisorDeadlines ------------------------
(***************************************************************************)
(* No service process is sent SIGKILL before its stop timeout has elapsed. *)
(*                                                                         *)
(* The deadline in a service record is compared with what is really left   *)
(* of the timeout of its process, from the moment that stop_service set    *)
(* both until the process is reaped; and the group kill of handle_sigchld, *)
(* which looks at no deadline, never meets a service process.              *)
(***************************************************************************)
EXTENDS SupervisorProofs

USE DEF Ids, NoId

(* the deadline of a service is the one its process is owed *)
Owed ==
  \A i \in Ids : services[i].state = "Stopping" =>
    procs[services[i].pid].owed = services[i].left

(* child_exec makes every service process lead its own group *)
Leads == \A p \in Pids : procs[p].svc # NoId => procs[p].pgid = p

(* what a tick is going to kill is overdue, whatever happens meanwhile *)
TickOverdue ==
  pc = "tick" => \A i \in ids : services[i].state = "Stopping" => services[i].left = 0

(* the number whose group is about to be killed is not a service's again *)
GroupVacant == pc = "killgroup" => reaped \in Pids /\ procs[reaped].svc = NoId

DeadlineInv == Owed /\ Leads /\ TickOverdue /\ GroupVacant

-----------------------------------------------------------------------------
(* The processes *)

(* A signal changes neither the owner nor the group nor the timeout. *)
LEMMA KillKeeps ==
  ASSUME NEW proc \in Process
  PROVE  /\ Kill(proc).svc = proc.svc
         /\ Kill(proc).pgid = proc.pgid
         /\ Kill(proc).owed = proc.owed
BY DEF Kill, Process

(* The process of a service is nobody else's, and its number is taken. *)
LEMMA OwnProcess ==
  ASSUME Inv, NEW i \in Ids, services[i].state \in LiveStates
  PROVE  /\ services[i].pid \in Pids
         /\ procs[services[i].pid].svc = i
         /\ services[i].pid \notin FreePids
         /\ \A j \in Ids : services[j].pid = services[i].pid => j = i
<1>1. services[i].pid \in Pids
  BY DEF Inv, TypeInv, RegistryOK, ServiceRecord, Supervised, EveryChildSupervised
<1>2. procs[services[i].pid].svc = i
  BY <1>1 DEF Inv, Supervised, EveryChildSupervised
<1>3. services[i].pid \notin FreePids
  BY <1>2 DEF FreePids, Inv, Supervised, FreeUnused
<1>4. \A j \in Ids : services[j].pid = services[i].pid => j = i
  BY <1>1 DEF Inv, Supervised, EveryChildSupervised
<1> QED  BY <1>1, <1>2, <1>3, <1>4

(* Steps that change neither deadlines nor timeouts. *)
LEMMA DeadlinesKept ==
  ASSUME Inv, Owed, Leads, UNCHANGED services,
         \A p \in Pids : /\ procs'[p].svc = procs[p].svc
                         /\ procs[p].svc # NoId => /\ procs'[p].pgid = procs[p].pgid
                                                   /\ procs'[p].owed = procs[p].owed
  PROVE  Owed' /\ Leads'
<1>1. Leads'
  BY DEF Leads
<1>2. Owed'
  <2> SUFFICES ASSUME NEW i \in Ids, services[i].state = "Stopping"
               PROVE  procs'[services[i].pid].owed = services[i].left
    BY DEF Owed
  <2>1. services[i].pid \in Pids /\ procs[services[i].pid].svc = i
    BY OwnProcess DEF LiveStates
  <2> QED  BY <2>1 DEF Owed
<1> QED  BY <1>1, <1>2

(* A record is stored that is not being stopped, or was so before. *)
LEMMA DeadlinesStored ==
  ASSUME Inv, Owed, Leads, NEW i \in Ids, NEW svc, Store(i, svc),
         svc.state = "Stopping" =>
           /\ services[i].state = "Stopping"
           /\ svc.pid = services[i].pid /\ svc.left = services[i].left
  PROVE  Owed' /\ Leads'
BY DEF Owed, Leads, Store, Inv, TypeInv, RegistryOK

(* A process is forked under a number that was free. *)
LEMMA DeadlinesStarted ==
  ASSUME Inv, Owed, Leads, NEW i \in Ids, NEW svc \in ServiceRecord, StartOk(i, svc),
         svc.config \in Configs
  PROVE  Owed' /\ Leads'
<1>1. PICK pid \in FreePids :
        /\ services' = [services EXCEPT ![i] = Started(svc, pid)]
        /\ procs' = [procs EXCEPT ![pid] = ServiceProcess(pid, i, svc.config)]
  BY DEF StartOk
<1>2. pid \in Pids
  BY DEF FreePids
<1>3. Started(svc, pid).state = "Running"
  BY <1>2, StartedType
<1>4. ServiceProcess(pid, i, svc.config).pgid = pid
  BY DEF ServiceProcess, NoProcess
<1>5. Leads'
  BY <1>1, <1>2, <1>4 DEF Leads, Inv, TypeInv, RegistryOK
<1>6. Owed'
  <2> SUFFICES ASSUME NEW j \in Ids, services'[j].state = "Stopping"
               PROVE  procs'[services'[j].pid].owed = services'[j].left
    BY DEF Owed
  <2>1. j # i /\ services'[j] = services[j]
    BY <1>1, <1>3 DEF Inv, TypeInv, RegistryOK
  <2>2. services[j].pid # pid /\ services[j].pid \in Pids
    BY <2>1, OwnProcess DEF LiveStates
  <2> QED  BY <1>1, <2>1, <2>2 DEF Owed, Inv, TypeInv, RegistryOK
<1> QED  BY <1>5, <1>6

(* stop_service sets the deadline and the timeout of one process. *)
LEMMA DeadlinesSet ==
  ASSUME Inv, Owed, Leads, NEW i \in Ids, NEW svc \in ServiceRecord, StopOk(i, svc),
         svc.config \in Configs, services[i].state \in LiveStates, svc.pid = services[i].pid
  PROVE  Owed' /\ Leads'
<1>1. /\ services' = [services EXCEPT ![i] = StopRequested(svc)]
      /\ procs' = [procs EXCEPT ![svc.pid].owed = svc.config.stop_timeout]
  BY DEF StopOk
<1>2. /\ StopRequested(svc).left = svc.config.stop_timeout
      /\ StopRequested(svc).pid = svc.pid
  BY StopRequestedType
<1>3. svc.pid \in Pids /\ \A j \in Ids : services[j].pid = svc.pid => j = i
  BY OwnProcess
<1>4. /\ procs'[svc.pid].owed = svc.config.stop_timeout
      /\ \A p \in Pids : p # svc.pid => procs'[p] = procs[p]
      /\ \A p \in Pids : procs'[p].svc = procs[p].svc /\ procs'[p].pgid = procs[p].pgid
  BY <1>1, <1>3 DEF Inv, TypeInv, RegistryOK, Process
<1>5. Leads'
  BY <1>4 DEF Leads
<1>6. Owed'
  <2> SUFFICES ASSUME NEW j \in Ids, services'[j].state = "Stopping"
               PROVE  procs'[services'[j].pid].owed = services'[j].left
    BY DEF Owed
  <2>1. CASE j = i
    <3>1. services'[i] = StopRequested(svc)
      BY <1>1 DEF Inv, TypeInv, RegistryOK
    <3> QED  BY <1>2, <1>4, <2>1, <3>1
  <2>2. CASE j # i
    <3>1. services'[j] = services[j]
      BY <1>1, <2>2 DEF Inv, TypeInv, RegistryOK
    <3>2. services[j].pid # svc.pid /\ services[j].pid \in Pids
      BY <1>3, <2>2, <3>1, OwnProcess DEF LiveStates
    <3> QED  BY <1>4, <3>1, <3>2 DEF Owed
  <2> QED  BY <2>1, <2>2
<1> QED  BY <1>5, <1>6

-----------------------------------------------------------------------------
(* The actions *)

(* The loops of reload_services keep deadlines and timeouts equal. *)
LEMMA DeadlinesReload ==
  ASSUME Inv, Owed, Leads, NEW n \in Names, ReloadRemove(n) \/ ReloadAdd(n) \/ ReloadChange(n)
  PROVE  Owed' /\ Leads'
<1> DEFINE i == service_ids[n]
<1>1. ASSUME NEW svc \in ServiceRecord, NEW action \in PendingActions, i \in Ids,
             svc.config \in Configs, PendAndStop(n, i, svc, action),
             services[i].state = svc.state, services[i].pid = svc.pid,
             services[i].left = svc.left
      PROVE  Owed' /\ Leads'
  <2> DEFINE marked == [svc EXCEPT !.pending = action]
  <2>1. /\ marked \in ServiceRecord /\ marked.config \in Configs
        /\ marked.state = services[i].state /\ marked.pid = services[i].pid
        /\ marked.left = services[i].left
    BY <1>1, PendingType
  <2>2. services[i].state \in LiveStates /\ (StopOk(i, marked) \/ Store(i, marked))
    BY <1>1 DEF PendAndStop, LiveStates
  <2> HIDE DEF marked, i
  <2> QED  BY <1>1, <2>1, <2>2, DeadlinesStored, DeadlinesSet
<1>2. CASE ReloadRemove(n)
  <2>1. i \in Ids /\ services[i] \in ServiceRecord
    BY <1>2 DEF ReloadRemove, Inv, TypeInv, ControlOK, LoopsDefined, RegistryOK
  <2>2. CASE Store(i, NoService)
    <3> HIDE DEF i
    <3> QED  BY <2>1, <2>2, NoServiceType, DeadlinesStored
  <2>3. CASE PendAndStop(n, i, services[i], "Remove")
    <3>1. services[i].state # "Absent" /\ "Remove" \in PendingActions
      BY <2>3 DEF PendAndStop, PendingActions
    <3> QED  BY <1>1, <2>1, <2>3, <3>1, RegisteredRecord
  <2> QED  BY <1>2, <2>2, <2>3 DEF ReloadRemove
<1>3. CASE ReloadAdd(n)
  <2>1. new_cfg[n] \in Configs /\ next_id \in Ids
    BY <1>3 DEF ReloadAdd, Inv, TypeInv, ControlOK, LoopsDefined, Defined, ConfigFile
  <2>2. CASE StartOk(nextval, NewService(n, new_cfg[n]))
    <3>1. /\ NewService(n, new_cfg[n]) \in ServiceRecord
          /\ NewService(n, new_cfg[n]).config \in Configs
      BY <2>1, NewServiceType
    <3> QED  BY <2>1, <2>2, <3>1, DeadlinesStarted DEF nextval
  <2>3. CASE UNCHANGED <<registryVars, procs>>
    BY <2>3 DEF Owed, Leads, registryVars
  <2> QED  BY <1>3, <2>2, <2>3 DEF ReloadAdd
<1>4. CASE ReloadChange(n)
  <2> DEFINE svc == update_config(services[i], new_cfg[n])
  <2>1. new_cfg[n] \in Configs
    BY <1>4 DEF ReloadChange, Inv, TypeInv, ControlOK, LoopsDefined, Defined, ConfigFile
  <2>2. i \in Ids /\ services[i].state # "Absent"
    BY <1>4 DEF ReloadChange, Registered
  <2>3. /\ svc \in ServiceRecord /\ svc.config \in Configs
        /\ svc.state = services[i].state /\ svc.pid = services[i].pid
        /\ svc.left = services[i].left
    BY <2>1, <2>2, RegisteredRecord, UpdateConfigType
  <2>4. \/ Store(i, svc)
        \/ StartOk(i, svc)
        \/ PendAndStop(n, i, svc, "Restart")
    BY <1>4 DEF ReloadChange
  <2>5. "Restart" \in PendingActions
    BY DEF PendingActions
  <2> HIDE DEF svc, i
  <2>6. CASE Store(i, svc) \/ StartOk(i, svc)
    BY <2>2, <2>3, <2>6, DeadlinesStored, DeadlinesStarted
  <2>7. CASE PendAndStop(n, i, svc, "Restart")
    BY <1>1, <2>2, <2>3, <2>5, <2>7
  <2> QED  BY <2>4, <2>6, <2>7
<1> QED  BY <1>2, <1>3, <1>4

(* Reaping clears one process and leaves its number without a service. *)
LEMMA DeadlinesReap ==
  ASSUME Inv, Owed, Leads, NEW p \in Pids, Reap(p)
  PROVE  /\ Owed' /\ Leads'
         /\ pc' = "killgroup" => reaped' = p /\ procs'[p].svc = NoId
<1>1. /\ procs'[p] = NoProcess /\ NoProcess.svc = NoId
      /\ \A q \in Pids : q # p => procs'[q] = procs[q]
  BY NoProcessType DEF Reap, Inv, TypeInv, RegistryOK
<1>2. Leads'
  BY <1>1 DEF Leads
<1>3. pc' = "killgroup" => reaped' = p /\ procs'[p].svc = NoId
  BY <1>1 DEF Reap
<1>4. \A j \in Ids : services'[j].state = "Stopping" =>
        services'[j] = services[j] /\ services[j].pid # p /\ services[j].pid \in Pids
  <2>1. CASE pids_map[p] = NoId /\ UNCHANGED services
    BY <2>1, OwnProcess DEF LiveStates, Inv, Supervised, EveryChildSupervised
  <2>2. CASE /\ pids_map[p] # NoId
             /\ services' = [services EXCEPT ![pids_map[p]] =
                               Reaped(services[pids_map[p]], procs[p].exit)]
    <3> DEFINE i == pids_map[p]
    <3>1. i \in Ids /\ services[i] \in ServiceRecord /\ procs[p].exit \in ExitReason
      BY <2>2 DEF Reap, Zombies, Inv, TypeInv, RegistryOK
    <3>2. Reaped(services[i], procs[p].exit).state = "Stopped"
      BY <3>1, ReapedType
    <3>3. \A j \in Ids : services[j].pid = p => j = i
      BY DEF Inv, Supervised, EveryChildSupervised
    <3>4. \A j \in Ids : services'[j].state = "Stopping" => j # i /\ services'[j] = services[j]
      BY <2>2, <3>1, <3>2 DEF Inv, TypeInv, RegistryOK
    <3> QED  BY <3>3, <3>4, OwnProcess DEF LiveStates
  <2> QED  BY <2>1, <2>2 DEF Reap, registryVars
<1>5. Owed'
  BY <1>1, <1>4 DEF Owed
<1> QED  BY <1>2, <1>3, <1>5

(* Applying actions to stopped services sets no deadline. *)
LEMMA DeadlinesTick ==
  ASSUME Inv, Owed, Leads, NEW i \in Ids, TickStopped(i)
  PROVE  Owed' /\ Leads'
<1> DEFINE svc == [services[i] EXCEPT !.pending = "None"]
<1>1. services[i].state = "Stopped" /\ "None" \in PendingActions
  BY DEF TickStopped, PendingActions
<1>2. svc \in ServiceRecord /\ svc.config \in Configs /\ svc.state = "Stopped"
  BY <1>1, RegisteredRecord, PendingType
<1>3. Store(i, NoService) \/ Store(i, svc) \/ StartOk(i, svc)
  BY DEF TickStopped
<1> HIDE DEF svc
<1> QED  BY <1>2, <1>3, NoServiceType, DeadlinesStored, DeadlinesStarted

(* Commands set the deadline and the timeout together. *)
LEMMA DeadlinesControl ==
  ASSUME Inv, Owed, Leads, ReadControl
  PROVE  Owed' /\ Leads'
<1> DEFINE i == Head(fifo).id
           marked == [services[i] EXCEPT !.pending = "Restart"]
<1>1. CASE UNCHANGED <<services, procs>>
  BY <1>1 DEF Owed, Leads
<1>2. CASE ~UNCHANGED <<services, procs>>
  <2>1. /\ Decodes(Head(fifo))
        /\ services[i].state # "Absent"
        /\ \/ services[i].state = "Running" /\ StopOk(i, services[i])
           \/ StartOk(i, services[i])
           \/ services[i].state = "Running" /\ (StopOk(i, marked) \/ Store(i, marked))
    BY <1>2 DEF ReadControl, apply_control_op, ControlStop, ControlStart, ControlRestart,
                ControlIgnored, registryVars
  <2>2. i \in Ids
    <3>1. Head(fifo) \in ControlCommand
      BY HeadTailProperties DEF ReadControl, Inv, TypeInv, FifoOK
    <3> QED  BY <2>1, <3>1 DEF ControlCommand, Decodes, InvalidFrame, ControlOps
  <2>3. services[i] \in ServiceRecord /\ services[i].config \in Configs
    BY <2>1, <2>2, RegisteredRecord
  <2>4. /\ marked \in ServiceRecord /\ marked.config = services[i].config
        /\ marked.pid = services[i].pid /\ marked.state = services[i].state
    <3>1. "Restart" \in PendingActions
      BY DEF PendingActions
    <3> QED  BY <2>3, <3>1, PendingType
  <2> HIDE DEF i, marked
  <2> QED
    BY <2>1, <2>2, <2>3, <2>4, DeadlinesStored, DeadlinesStarted, DeadlinesSet DEF LiveStates
<1> QED  BY <1>1, <1>2

(* Time runs alike for a deadline and for what is left of the timeout. *)
LEMMA DeadlinesWorld ==
  ASSUME Inv, Owed, Leads, WorldStep
  PROVE  /\ Owed' /\ Leads'
         /\ \A p \in Pids : procs'[p].svc = procs[p].svc
         /\ \A i \in Ids : /\ services'[i].state = services[i].state
                           /\ services[i].left = 0 => services'[i].left = 0
<1> DEFINE Goal == /\ Owed' /\ Leads'
                   /\ \A p \in Pids : procs'[p].svc = procs[p].svc
                   /\ \A i \in Ids : /\ services'[i].state = services[i].state
                                     /\ services[i].left = 0 => services'[i].left = 0
<1>1. CASE UNCHANGED <<services, procs>>
  BY <1>1 DEF Owed, Leads
<1>2. ASSUME NEW p \in Pids, NEW exit, BecomeZombie(p, exit)
      PROVE  Goal
  <2>1. \A q \in Pids : /\ procs'[q].svc = procs[q].svc
                        /\ procs'[q].pgid = procs[q].pgid
                        /\ procs'[q].owed = procs[q].owed
    BY <1>2 DEF BecomeZombie, Inv, TypeInv, RegistryOK, Process
  <2> QED  BY <1>2, <2>1, DeadlinesKept DEF BecomeZombie
<1>3. CASE \E p, q \in Pids : Adopt(p, q)
  <2>1. PICK p \in Pids, q \in Pids : Adopt(p, q)
    BY <1>3
  <2>2. procs[p].svc = NoId
    BY <2>1 DEF Adopt, FreePids, Inv, Supervised, FreeUnused
  <2>3. procs[q].pgid \in Pids \cup {None} /\ procs[q].grp \in Ids \cup {NoId}
    BY DEF Inv, TypeInv, RegistryOK, Process
  <2>4. PICK orphan \in {GroupMember(procs[q].pgid, procs[q].grp), GroupLeader(p)} :
          procs' = [procs EXCEPT ![p] = orphan]
    BY <2>1 DEF Adopt
  <2>5. orphan.svc = NoId
    BY <2>3, <2>4, GroupMemberType DEF GroupLeader
  <2>6. \A r \in Pids : /\ procs'[r].svc = procs[r].svc
                        /\ procs[r].svc # NoId => procs'[r] = procs[r]
    BY <2>2, <2>4, <2>5 DEF Inv, TypeInv, RegistryOK
  <2> QED  BY <2>1, <2>6, DeadlinesKept DEF Adopt
<1>4. CASE TimePasses
  <2>1. \A i \in Ids : /\ services'[i].state = services[i].state
                       /\ services'[i].pid = services[i].pid
                       /\ services[i].left \in Nat
                       /\ services'[i].left = IF services[i].left > 0 THEN services[i].left - 1
                                              ELSE services[i].left
    BY <1>4 DEF TimePasses, Inv, TypeInv, RegistryOK, ServiceRecord
  <2>2. \A p \in Pids : /\ procs'[p].svc = procs[p].svc /\ procs'[p].pgid = procs[p].pgid
                        /\ procs'[p].owed = IF procs[p].owed > 0 THEN procs[p].owed - 1
                                            ELSE procs[p].owed
    BY <1>4 DEF TimePasses, Inv, TypeInv, RegistryOK, Process
  <2>3. Leads'
    BY <2>2 DEF Leads
  <2>4. Owed'
    <3> SUFFICES ASSUME NEW i \in Ids, services[i].state = "Stopping"
                 PROVE  procs'[services[i].pid].owed = services'[i].left
      BY <2>1 DEF Owed
    <3>1. services[i].pid \in Pids
      BY OwnProcess DEF LiveStates
    <3>2. procs[services[i].pid].owed = services[i].left
      BY DEF Owed
    <3> QED  BY <2>1, <2>2, <3>1, <3>2
  <2> QED  BY <2>1, <2>2, <2>3, <2>4
<1> QED
  BY <1>1, <1>2, <1>3, <1>4 DEF WorldStep, SendSignal, SendCommand, SendInvalidFrame, ProcessExits,
     ProcessKilled, TimerExpires

(* SIGKILL is sent to service processes by the timer arm only. *)
LEMMA KillGroupSpares ==
  ASSUME Inv, DeadlineInv, KillGroup
  PROVE  \A p \in Pids : procs[p].svc # NoId => procs'[p] = procs[p]
<1> SUFFICES ASSUME NEW p \in Pids, procs[p].svc # NoId
             PROVE  procs'[p] = procs[p]
  OBVIOUS
<1>1. procs[p].pgid = p /\ reaped # p
  BY DEF KillGroup, DeadlineInv, Leads, GroupVacant
<1> QED  BY <1>1 DEF KillGroup

(* One step per action of Next. *)
LEMMA DeadlinesNext ==
  ASSUME Inv, DeadlineInv, [Next]_vars
  PROVE  Owed' /\ Leads'
<1> USE DEF DeadlineInv
<1>1. CASE \/ Boot \/ LoadDone \/ BootDone \/ EpollWait \/ LoopFails \/ ReadSignals
           \/ SignalsDone \/ ReloadRefused \/ ReloadBegin \/ ReloadRemoveDone
           \/ (\E n \in Names : ReloadUnchanged(n)) \/ ReloadDone \/ SigChld \/ ReapDone
           \/ (\E sig \in {SIGINT, SIGTERM} : SigTerm(sig)) \/ ShutdownDone
           \/ ReadTimer \/ TickDone \/ UNCHANGED vars
  <2>1. UNCHANGED <<services, procs>>
    BY <1>1 DEF Boot, LoadDone, BootDone, EpollWait, LoopFails, ReadSignals, SignalsDone,
       ReloadRefused, ReloadBegin, ReloadRemoveDone, ReloadUnchanged, ReloadDone, SigChld,
       ReapDone, SigTerm, ShutdownDone, ReadTimer, TickDone, vars, registryVars
  <2> QED  BY <2>1 DEF Owed, Leads
<1>2. CASE \E n \in Names : LoadService(n)
  <2>1. PICK n \in Names : LoadService(n)
    BY <1>2
  <2>2. new_cfg[n] \in Configs /\ next_id \in Ids
    BY <2>1 DEF LoadService, Inv, TypeInv, ControlOK, LoopsDefined, Defined, ConfigFile
  <2>3. CASE UNCHANGED <<registryVars, procs, next_id>>
    BY <2>3 DEF registryVars, Owed, Leads
  <2>4. CASE Store(nextval, NewService(n, new_cfg[n]))
    BY <2>2, <2>4, NewServiceType, DeadlinesStored DEF nextval
  <2> QED  BY <2>1, <2>3, <2>4 DEF LoadService
<1>3. CASE \E i \in Ids : BootStart(i) \/ ShutdownStop(i)
  <2>1. PICK i \in Ids : BootStart(i) \/ ShutdownStop(i)
    BY <1>3
  <2>2. CASE UNCHANGED <<services, procs>>
    BY <2>2 DEF Owed, Leads
  <2>3. CASE services[i].state = "Stopped" /\ StartOk(i, services[i])
    BY <2>3, RegisteredRecord, DeadlinesStarted
  <2>4. CASE services[i].state = "Running" /\ StopOk(i, services[i])
    BY <2>4, RegisteredRecord, DeadlinesSet DEF LiveStates
  <2> QED
    BY <2>1, <2>2, <2>3, <2>4 DEF BootStart, ShutdownStop, registryVars, Inv, TypeInv, BootStopped
<1>4. CASE \E n \in Names : ReloadRemove(n) \/ ReloadAdd(n) \/ ReloadChange(n)
  BY <1>4, DeadlinesReload
<1>5. CASE \E p \in Pids : Reap(p)
  BY <1>5, DeadlinesReap
<1>6. CASE KillGroup \/ \E i \in Ids : TickKill(i)
  <2>1. \A p \in Pids : procs'[p] = procs[p] \/ procs'[p] = Kill(procs[p])
    BY <1>6 DEF KillGroup, TickKill, Inv, TypeInv, RegistryOK
  <2>2. \A p \in Pids : /\ procs'[p].svc = procs[p].svc
                        /\ procs'[p].pgid = procs[p].pgid
                        /\ procs'[p].owed = procs[p].owed
    BY <2>1, KillKeeps DEF Inv, TypeInv, RegistryOK
  <2> QED  BY <1>6, <2>2, DeadlinesKept DEF KillGroup, TickKill, registryVars
<1>7. CASE \E i \in Ids : TickStopped(i)
  BY <1>7, DeadlinesTick
<1>8. CASE ReadControl
  BY <1>8, DeadlinesControl
<1>9. CASE WorldStep
  BY <1>9, DeadlinesWorld
<1> QED
  BY <1>1, <1>2, <1>3, <1>4, <1>5, <1>6, <1>7, <1>8, <1>9, Zenon
  DEF Next, SupervisorStep, Terminated

(* Only three kinds of steps lead to, or stay in, a tick or a group kill. *)
LEMMA WhereKillsHappen ==
  ASSUME [Next]_vars, pc' \in {"tick", "killgroup"}
  PROVE  \/ ReadTimer \/ (\E p \in Pids : Reap(p)) \/ (\E i \in Ids : TickKill(i) \/ TickStopped(i))
         \/ (WorldStep \/ UNCHANGED vars) /\ UNCHANGED <<pc, ids, reaped>>
<1> USE DEF Exited, Exit, ReloadContinues, ReloadReturns, AfterEvent, vars
<1>1. CASE ReapDone \/ ShutdownDone
  BY <1>1 DEF ReapDone, ShutdownDone, ExitIfAllStopped
<1>2. CASE Boot \/ LoadDone \/ BootDone \/ EpollWait \/ LoopFails \/ ReadSignals \/ SignalsDone
  BY <1>2 DEF Boot, LoadDone, BootDone, EpollWait, LoopFails, ReadSignals, SignalsDone
<1>3. CASE ReloadRefused \/ ReloadBegin \/ ReloadRemoveDone \/ ReloadDone \/ SigChld \/ KillGroup
           \/ TickDone \/ ReadControl
  BY <1>3 DEF ReloadRefused, ReloadBegin, ReloadRemoveDone, ReloadDone, SigChld, KillGroup,
              TickDone, ReadControl
<1>4. CASE \E n \in Names : LoadService(n) \/ ReloadRemove(n) \/ ReloadAdd(n) \/ ReloadChange(n)
                            \/ ReloadUnchanged(n)
  BY <1>4 DEF LoadService, ReloadRemove, ReloadAdd, ReloadChange, ReloadUnchanged, PendAndStop
<1>5. CASE \/ \E i \in Ids : BootStart(i) \/ ShutdownStop(i)
           \/ \E sig \in {SIGINT, SIGTERM} : SigTerm(sig)
  BY <1>5 DEF BootStart, ShutdownStop, SigTerm
<1>6. CASE WorldStep
  BY <1>6 DEF WorldStep, SendSignal, SendCommand, SendInvalidFrame, ProcessExits, ProcessKilled,
              BecomeZombie, Adopt, TimerExpires, TimePasses, supervisorVars
<1>7. CASE Terminated \/ UNCHANGED vars
  BY <1>7 DEF Terminated
<1> QED
  BY <1>1, <1>2, <1>3, <1>4, <1>5, <1>6, <1>7, Zenon DEF Next, SupervisorStep

(* Every step keeps what ticks and group kills rely on. *)
LEMMA TickNext ==
  ASSUME Inv, DeadlineInv, [Next]_vars
  PROVE  TickOverdue' /\ GroupVacant'
<1>1. CASE pc' \notin {"tick", "killgroup"}
  BY <1>1 DEF TickOverdue, GroupVacant
<1>2. CASE ReadTimer
  <2>1. pc' = "tick" /\ UNCHANGED services
    BY <1>2 DEF ReadTimer, registryVars
  <2>2. \A i \in ids' : services[i].state = "Stopping" => services[i].left = 0
    BY <1>2 DEF ReadTimer, Overdue
  <2> QED  BY <2>1, <2>2 DEF TickOverdue, GroupVacant
<1>3. CASE \E p \in Pids : Reap(p)
  <2>1. PICK p \in Pids : Reap(p)
    BY <1>3
  <2>2. pc' # "tick"
    BY <2>1 DEF Reap
  <2>3. pc' = "killgroup" => reaped' = p /\ procs'[p].svc = NoId
    BY <2>1, DeadlinesReap DEF DeadlineInv
  <2> QED  BY <2>2, <2>3 DEF TickOverdue, GroupVacant
<1>4. CASE \E i \in Ids : TickKill(i) \/ TickStopped(i)
  <2>1. PICK i \in Ids : TickKill(i) \/ TickStopped(i)
    BY <1>4
  <2>2. pc = "tick" /\ pc' = "tick" /\ ids' = ids \ {i}
    BY <2>1 DEF TickKill, TickStopped, tickFrame
  <2>3. \A j \in Ids : j # i => services'[j] = services[j]
    BY <2>1 DEF TickKill, TickStopped, Store, StartOk, registryVars, Inv, TypeInv, RegistryOK
  <2>4. ids \subseteq Ids
    BY DEF Inv, TypeInv, ControlOK
  <2> QED  BY <2>2, <2>3, <2>4 DEF DeadlineInv, TickOverdue, GroupVacant
<1>5. CASE WorldStep /\ UNCHANGED <<pc, ids, reaped>>
  <2>1. ids \subseteq Ids
    BY DEF Inv, TypeInv, ControlOK
  <2>2. /\ \A p \in Pids : procs'[p].svc = procs[p].svc
        /\ \A i \in Ids : /\ services'[i].state = services[i].state
                          /\ services[i].left = 0 => services'[i].left = 0
    BY <1>5, DeadlinesWorld DEF DeadlineInv
  <2> QED  BY <1>5, <2>1, <2>2 DEF DeadlineInv, TickOverdue, GroupVacant
<1>6. CASE UNCHANGED vars
  BY <1>6 DEF vars, registryVars, DeadlineInv, TickOverdue, GroupVacant
<1> QED  BY <1>1, <1>2, <1>3, <1>4, <1>5, <1>6, WhereKillsHappen

(* The deadlines are right in every reachable state. *)
LEMMA DeadlinesRight == Spec => []DeadlineInv
<1>1. Init => DeadlineInv
  BY NoServiceType, NoProcessType DEF Init, DeadlineInv, Owed, Leads, TickOverdue, GroupVacant
<1>2. Inv /\ DeadlineInv /\ [Next]_vars => DeadlineInv'
  BY DeadlinesNext, TickNext DEF DeadlineInv
<1> QED  BY <1>1, <1>2, Invariance, PTL DEF Spec

(* No other step sends SIGKILL. *)
NoSigkill == \A p \in Pids : procs'[p].st = "doomed" => procs[p].st = "doomed"

(* SIGKILL is sent by the timer arm and by the cleanup of orphans only. *)
LEMMA OnlyKillsKill ==
  ASSUME Inv, [Next]_vars
  PROVE  NoSigkill \/ KillGroup \/ \E i \in Ids : TickKill(i)
<1> USE DEF NoSigkill
<1>1. CASE UNCHANGED procs
  BY <1>1
<1>2. ASSUME NEW i, NEW svc, StartOk(i, svc)
      PROVE  NoSigkill
  <2>1. PICK pid \in Pids : procs' = [procs EXCEPT ![pid] = ServiceProcess(pid, i, svc.config)]
    BY <1>2 DEF StartOk, FreePids
  <2>2. ServiceProcess(pid, i, svc.config).st = "alive"
    BY DEF ServiceProcess, NoProcess
  <2> QED  BY <2>1, <2>2 DEF Inv, TypeInv, RegistryOK
<1>3. ASSUME NEW i, NEW svc, StopOk(i, svc)
      PROVE  NoSigkill
  BY <1>3 DEF StopOk, Inv, TypeInv, RegistryOK, Process
<1>4. ASSUME NEW i, NEW svc, Store(i, svc)
      PROVE  NoSigkill
  BY <1>1, <1>4 DEF Store
<1>5. CASE \E p \in Pids : Reap(p)
  BY <1>5, NoProcessType DEF Reap, NoProcess, Inv, TypeInv, RegistryOK
<1>6. CASE \E n \in Names : LoadService(n) \/ ReloadRemove(n) \/ ReloadAdd(n) \/ ReloadChange(n)
                            \/ ReloadUnchanged(n)
  <2>1. \/ UNCHANGED procs
        \/ \E i, svc : StartOk(i, svc) \/ StopOk(i, svc) \/ Store(i, svc)
    BY <1>6 DEF LoadService, ReloadRemove, ReloadAdd, ReloadChange, ReloadUnchanged, PendAndStop
  <2> QED  BY <1>1, <1>2, <1>3, <1>4, <2>1
<1>7. CASE \E i \in Ids : BootStart(i) \/ ShutdownStop(i) \/ TickStopped(i)
  <2>1. \/ UNCHANGED procs
        \/ \E i, svc : StartOk(i, svc) \/ StopOk(i, svc) \/ Store(i, svc)
    BY <1>7 DEF BootStart, ShutdownStop, TickStopped
  <2> QED  BY <1>1, <1>2, <1>3, <1>4, <2>1
<1>8. CASE ReadControl
  <2>1. \/ UNCHANGED procs
        \/ \E i, svc : StartOk(i, svc) \/ StopOk(i, svc) \/ Store(i, svc)
    BY <1>8 DEF ReadControl, apply_control_op, ControlStop, ControlStart, ControlRestart,
                ControlIgnored
  <2> QED  BY <1>1, <1>2, <1>3, <1>4, <2>1
<1>9. CASE \/ Boot \/ LoadDone \/ BootDone \/ EpollWait \/ LoopFails \/ ReadSignals
           \/ SignalsDone \/ ReloadRefused \/ ReloadBegin \/ ReloadRemoveDone \/ ReloadDone
           \/ SigChld \/ ReapDone \/ (\E sig \in {SIGINT, SIGTERM} : SigTerm(sig))
           \/ ShutdownDone \/ ReadTimer \/ TickDone \/ Terminated \/ UNCHANGED vars
  BY <1>1, <1>9 DEF Boot, LoadDone, BootDone, EpollWait, LoopFails, ReadSignals, SignalsDone,
     ReloadRefused, ReloadBegin, ReloadRemoveDone, ReloadDone, SigChld, ReapDone, SigTerm,
     ShutdownDone, ReadTimer, TickDone, Terminated, vars
<1>10. CASE WorldStep
  <2>1. ASSUME NEW p \in Pids, NEW exit, BecomeZombie(p, exit)
        PROVE  NoSigkill
    BY <2>1 DEF BecomeZombie, Inv, TypeInv, RegistryOK, Process
  <2>2. CASE \E p, q \in Pids : Adopt(p, q)
    <3>1. PICK p \in Pids, q \in Pids : Adopt(p, q)
      BY <2>2
    <3>2. procs[q].pgid \in Pids \cup {None} /\ procs[q].grp \in Ids \cup {NoId}
      BY DEF Inv, TypeInv, RegistryOK, Process
    <3>3. PICK orphan \in {GroupMember(procs[q].pgid, procs[q].grp), GroupLeader(p)} :
            procs' = [procs EXCEPT ![p] = orphan]
      BY <3>1 DEF Adopt
    <3>4. orphan.st = "alive"
      BY <3>2, <3>3, GroupMemberType DEF GroupLeader
    <3> QED  BY <3>3, <3>4 DEF Inv, TypeInv, RegistryOK
  <2>3. CASE TimePasses
    BY <2>3 DEF TimePasses, Inv, TypeInv, RegistryOK, Process
  <2> QED
    BY <1>1, <1>10, <2>1, <2>2, <2>3 DEF WorldStep, SendSignal, SendCommand, SendInvalidFrame,
       ProcessExits, ProcessKilled, TimerExpires
<1> QED
  BY <1>5, <1>6, <1>7, <1>8, <1>9, <1>10, Zenon DEF Next, SupervisorStep

(***************************************************************************)
(* SIGKILL is never sent to a service process before its stop timeout has  *)
(* elapsed since the stop signal (the first of the two guarantees about    *)
(* deadlines in svlopp's README): neither a tick that races with a new     *)
(* stop or with the reuse of a pid, nor the cleanup of orphans does.       *)
(***************************************************************************)
THEOREM DeadlinesRespected == Spec => NoEarlyKill
<1>1. Inv /\ DeadlineInv /\ [Next]_vars =>
        [\A p \in Pids :
           procs[p].svc # NoId /\ procs[p].st = "alive" /\ procs'[p].st = "doomed"
             => procs[p].owed = 0]_vars
  <2> SUFFICES ASSUME Inv, DeadlineInv, [Next]_vars, NEW p \in Pids,
                      procs[p].svc # NoId, procs[p].st = "alive", procs'[p].st = "doomed"
               PROVE  procs[p].owed = 0
    OBVIOUS
  <2>1. CASE NoSigkill \/ KillGroup
    BY <2>1, KillGroupSpares DEF NoSigkill
  <2>2. CASE \E i \in Ids : TickKill(i)
    <3>1. PICK i \in Ids : TickKill(i)
      BY <2>2
    <3>2. services[i].state = "Stopping" /\ services[i].left = 0
      BY <3>1 DEF TickKill, DeadlineInv, TickOverdue
    <3>3. services[i].pid = p
      BY <3>1 DEF TickKill, Inv, TypeInv, RegistryOK
    <3> QED  BY <3>2, <3>3 DEF DeadlineInv, Owed
  <2> QED  BY <2>1, <2>2, OnlyKillsKill
<1> QED  BY <1>1, Invariance, DeadlinesRight, PTL DEF Spec, NoEarlyKill
=============================================================================

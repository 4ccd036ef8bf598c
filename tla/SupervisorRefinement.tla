------------------------ MODULE SupervisorRefinement ------------------------
(***************************************************************************)
(* Supervisor implements Lifecycle, for every value of the constants, and  *)
(* what else follows from a list of the ways in which a step of the        *)
(* supervisor or of the world may write the registry.                      *)
(***************************************************************************)
EXTENDS SupervisorLifecycle, SupervisorSafety

USE DEF Ids, NoId

-----------------------------------------------------------------------------
(* The ways in which a step writes the registry *)

(* at most an id is spent *)
Untouched ==
  /\ UNCHANGED <<services, pids_map>>
  /\ \A p \in Pids : procs'[p].svc = procs[p].svc
  /\ \A p \in Pids : procs[p].svc # NoId => procs'[p].cfg = procs[p].cfg
  /\ next_id' \in {next_id, next_id + 1}

(* svc, a new version of services[i], is stored, started or asked to stop.  *)
(* A new definition comes with an action for the process of the old one,   *)
(* which is asked to stop if that can be done.                             *)
Redefined(i, svc) == svc.config # services[i].config

Written(i, svc) ==
  /\ UNCHANGED next_id
  /\ Redefined(i, svc) => services[i].state = "Stopped" \/ svc.pending # "None"
  /\ \/ /\ Store(i, svc)
        /\ Redefined(i, svc) => services[i].state # "Running" \/ StopFails
     \/ services[i].state = "Stopped" /\ StartOk(i, svc)
     \/ services[i].state = "Running" /\ StopOk(i, svc)

(* the versions a reload, a command and the shutdown make of a record; a   *)
(* restart is asked for with a command or a new definition                 *)
Marked(svc, action) == [svc EXCEPT !.pending = action]
Versions(svc) ==
  {svc, Marked(svc, "Restart"), Marked(svc, "Remove")}
    \cup UNION {{update_config(svc, cfg), Marked(update_config(svc, cfg), "Restart")} :
                  cfg \in Configs}

(* take_pending_action and what the timer arm does with a stopped service *)
Ticked(i) ==
  LET svc == Marked(services[i], "None") IN
  /\ pc = "tick"
  /\ services[i].state = "Stopped"
  /\ UNCHANGED next_id
  /\ \/ Store(i, svc) /\ (TickDecision(services[i]) = "None" \/ StartFails)
     \/ StartOk(i, svc)

Dropped(i) ==
  /\ services[i].state = "Stopped"
  /\ Store(i, NoService)
  /\ UNCHANGED next_id

(* under the id that is next *)
Created(n, cfg) ==
  /\ ValidCStrings(cfg)
  /\ next_id' = next_id + 1
  /\ \/ Store(nextval, NewService(n, cfg))
     \/ StartOk(nextval, NewService(n, cfg))

RegistryStep ==
  \/ Untouched
  \/ TimePasses
  \/ \E i \in Registered :
       Dropped(i) \/ Ticked(i) \/ \E svc \in Versions(services[i]) : Written(i, svc)
  \/ \E n \in Names, cfg \in Configs : Created(n, cfg)
  \/ \E p \in Pids : Reap(p) /\ pids_map[p] # NoId

(* Marking a record with an action changes nothing else. *)
LEMMA MarkedType ==
  ASSUME NEW svc \in ServiceRecord, NEW action \in PendingActions
  PROVE  /\ Marked(svc, action) \in ServiceRecord
         /\ Marked(svc, action).pending = action
         /\ Marked(svc, action).state = svc.state
         /\ Marked(svc, action).pid = svc.pid
         /\ Marked(svc, action).name = svc.name
         /\ Marked(svc, action).config = svc.config
         /\ Marked(svc, action).argv = svc.argv
BY DEF Marked, ServiceRecord

(* The loops of reload_services. *)
LEMMA RegistryReload ==
  ASSUME Inv, NEW n \in Names, ReloadRemove(n) \/ ReloadAdd(n) \/ ReloadChange(n)
  PROVE  RegistryStep
<1> DEFINE i == service_ids[n]
<1>1. CASE ReloadRemove(n)
  <2>1. i \in Ids /\ UNCHANGED next_id
    BY <1>1 DEF ReloadRemove, Inv, TypeInv, ControlOK, LoopsDefined
  <2>2. \/ services[i].state = "Stopped" /\ Store(i, NoService)
        \/ services[i].state = "Running" /\ StopOk(i, Marked(services[i], "Remove"))
        \/ services[i].state # "Absent" /\ Store(i, Marked(services[i], "Remove"))
    BY <1>1 DEF ReloadRemove, PendAndStop, Marked
  <2>3. i \in Registered
    BY <2>1, <2>2 DEF Registered
  <2>4. Dropped(i) \/ Written(i, Marked(services[i], "Remove"))
    <3>1. Marked(services[i], "Remove").config = services[i].config
      BY <2>1, MarkedType DEF Inv, TypeInv, RegistryOK, PendingActions
    <3> QED  BY <2>1, <2>2, <3>1 DEF Dropped, Written, Redefined
  <2>5. Marked(services[i], "Remove") \in Versions(services[i])
    BY DEF Versions
  <2> QED  BY <2>3, <2>4, <2>5 DEF RegistryStep
<1>2. CASE ReloadAdd(n)
  <2>1. new_cfg[n] \in Configs
    BY <1>2 DEF ReloadAdd, Inv, TypeInv, ControlOK, LoopsDefined, Defined, ConfigFile
  <2>2. Created(n, new_cfg[n]) \/ Untouched
    BY <1>2 DEF ReloadAdd, Created, Untouched, registryVars
  <2> QED  BY <2>1, <2>2 DEF RegistryStep
<1>3. CASE ReloadChange(n)
  <2> DEFINE svc == update_config(services[i], new_cfg[n])
  <2>1. new_cfg[n] \in Configs
    BY <1>3 DEF ReloadChange, Inv, TypeInv, ControlOK, LoopsDefined, Defined, ConfigFile
  <2>2. i \in Registered /\ UNCHANGED next_id
    BY <1>3 DEF ReloadChange
  <2>3. /\ svc \in ServiceRecord /\ svc.state = services[i].state
        /\ ~ValidCStrings(new_cfg[n]) => svc.config = services[i].config
    BY <2>1, <2>2, RegisteredRecord, UpdateConfigType DEF Registered
  <2>4. Written(i, svc) \/ Written(i, Marked(svc, "Restart"))
    <3>1. \/ ~ValidCStrings(new_cfg[n]) /\ Store(i, svc)
          \/ svc.state = "Stopped" /\ (Store(i, svc) \/ StartOk(i, svc))
          \/ svc.state = "Running" /\ StopOk(i, Marked(svc, "Restart"))
          \/ svc.state = "Running" /\ StopFails /\ Store(i, Marked(svc, "Restart"))
          \/ svc.state = "Stopping" /\ Store(i, Marked(svc, "Restart"))
      BY <1>3 DEF ReloadChange, PendAndStop, Marked
    <3> HIDE DEF svc, i
    <3>2. Marked(svc, "Restart").pending = "Restart"
      BY <2>3, MarkedType DEF PendingActions
    <3>3. CASE svc.state = "Stopped" \/ ~ValidCStrings(new_cfg[n])
      BY <2>2, <2>3, <3>1, <3>2, <3>3 DEF Written, Redefined
    <3>4. CASE svc.state # "Stopped" /\ ValidCStrings(new_cfg[n])
      BY <2>2, <2>3, <3>1, <3>2, <3>4 DEF Written, Redefined
    <3> QED  BY <3>3, <3>4
  <2>5. svc \in Versions(services[i]) /\ Marked(svc, "Restart") \in Versions(services[i])
    BY <2>1 DEF Versions
  <2> QED  BY <2>2, <2>4, <2>5 DEF RegistryStep
<1> QED  BY <1>1, <1>2, <1>3

(* The timer arm. *)
LEMMA RegistryTick ==
  ASSUME Inv, NEW i \in Ids, TickStopped(i)
  PROVE  RegistryStep
<1>1. services[i].state = "Stopped" /\ pc = "tick" /\ UNCHANGED next_id
  BY DEF TickStopped, tickFrame
<1>2. Dropped(i) \/ Ticked(i)
  BY <1>1 DEF TickStopped, Dropped, Ticked, Marked
<1> QED  BY <1>1, <1>2 DEF RegistryStep, Registered

(* The control FIFO. *)
LEMMA RegistryControl ==
  ASSUME Inv, ReadControl
  PROVE  RegistryStep
<1> DEFINE i == Head(fifo).id
<1>1. UNCHANGED next_id
  BY DEF ReadControl
<1>2. CASE UNCHANGED <<registryVars, procs>>
  BY <1>1, <1>2 DEF RegistryStep, Untouched, registryVars
<1>3. CASE ~UNCHANGED <<registryVars, procs>>
  <2>1. /\ Decodes(Head(fifo))
        /\ apply_control_op(Head(fifo).op, i, services[i])
    BY <1>3 DEF ReadControl
  <2>2. i \in Ids
    <3>1. Head(fifo) \in ControlCommand
      BY HeadTailProperties DEF ReadControl, Inv, TypeInv, FifoOK
    <3> QED  BY <2>1, <3>1 DEF ControlCommand, Decodes, InvalidFrame, ControlOps
  <2>3. \/ services[i].state = "Running" /\ StopOk(i, services[i])
        \/ services[i].state = "Stopped" /\ StartOk(i, services[i])
        \/ /\ services[i].state = "Running"
           /\ StopOk(i, Marked(services[i], "Restart")) \/ Store(i, Marked(services[i], "Restart"))
    BY <1>3, <2>1 DEF apply_control_op, ControlStop, ControlStart, ControlRestart,
                      ControlIgnored, Marked
  <2>4. i \in Registered
    BY <2>2, <2>3 DEF Registered
  <2>5. Written(i, services[i]) \/ Written(i, Marked(services[i], "Restart"))
    <3>1. Marked(services[i], "Restart").config = services[i].config
      BY <2>2, MarkedType DEF Inv, TypeInv, RegistryOK, PendingActions
    <3> QED  BY <1>1, <2>3, <3>1 DEF Written, Redefined
  <2>6. /\ services[i] \in Versions(services[i])
        /\ Marked(services[i], "Restart") \in Versions(services[i])
    BY DEF Versions
  <2> QED  BY <2>4, <2>5, <2>6 DEF RegistryStep
<1> QED  BY <1>2, <1>3

(* Kernel and users. *)
LEMMA RegistryWorld ==
  ASSUME Inv, WorldStep
  PROVE  RegistryStep
<1>1. CASE TimePasses
  BY <1>1 DEF RegistryStep
<1>2. CASE \E p, q \in Pids : Adopt(p, q)
  <2>1. PICK p \in Pids, q \in Pids : Adopt(p, q)
    BY <1>2
  <2>2. procs[p].svc = NoId
    BY <2>1 DEF Adopt, FreePids, Inv, Supervised, FreeUnused
  <2>3. PICK orphan \in {GroupMember(procs[q].pgid, procs[q].grp), GroupLeader(p)} :
          procs' = [procs EXCEPT ![p] = orphan]
    BY <2>1 DEF Adopt
  <2>4. orphan.svc = NoId
    BY <2>3 DEF GroupLeader, GroupMember, NoProcess
  <2>5. \A r \in Pids : /\ procs'[r].svc = procs[r].svc
                        /\ procs[r].svc # NoId => procs'[r].cfg = procs[r].cfg
    BY <2>2, <2>3, <2>4 DEF Inv, TypeInv, RegistryOK
  <2> QED  BY <2>1, <2>5 DEF Adopt, supervisorVars, RegistryStep, Untouched
<1>3. ASSUME NEW p \in Pids, NEW exit, BecomeZombie(p, exit)
      PROVE  RegistryStep
  BY <1>3 DEF BecomeZombie, supervisorVars, RegistryStep, Untouched, Inv, TypeInv, RegistryOK,
     Process
<1>4. CASE UNCHANGED <<services, supervisorVars, procs>>
  BY <1>4 DEF supervisorVars, RegistryStep, Untouched
<1> QED
  BY <1>1, <1>2, <1>3, <1>4 DEF WorldStep, SendSignal, SendCommand, SendInvalidFrame,
     ProcessExits, ProcessKilled, TimerExpires

(* One step per action of Next. *)
LEMMA RegistryNext ==
  ASSUME Inv, [Next]_vars
  PROVE  RegistryStep
<1>1. CASE \/ Boot \/ LoadDone \/ BootDone \/ EpollWait \/ LoopFails \/ ReadSignals
           \/ SignalsDone \/ ReloadRefused \/ ReloadBegin \/ ReloadRemoveDone
           \/ (\E n \in Names : ReloadUnchanged(n)) \/ ReloadDone \/ SigChld \/ ReapDone
           \/ (\E sig \in {SIGINT, SIGTERM} : SigTerm(sig)) \/ ShutdownDone
           \/ ReadTimer \/ TickDone \/ UNCHANGED vars
  <2>1. UNCHANGED <<services, pids_map, next_id, procs>>
    BY <1>1 DEF Boot, LoadDone, BootDone, EpollWait, LoopFails, ReadSignals, SignalsDone,
       ReloadRefused, ReloadBegin, ReloadRemoveDone, ReloadUnchanged, ReloadDone, SigChld,
       ReapDone, SigTerm, ShutdownDone, ReadTimer, TickDone, vars, registryVars
  <2> QED  BY <2>1 DEF RegistryStep, Untouched
<1>2. CASE \E n \in Names : LoadService(n)
  <2>1. PICK n \in Names : LoadService(n)
    BY <1>2
  <2>2. new_cfg[n] \in Configs
    BY <2>1 DEF LoadService, Inv, TypeInv, ControlOK, LoopsDefined, Defined, ConfigFile
  <2>3. Created(n, new_cfg[n]) \/ Untouched
    BY <2>1 DEF LoadService, Created, Untouched, registryVars
  <2> QED  BY <2>2, <2>3 DEF RegistryStep
<1>3. CASE \E i \in Ids : BootStart(i) \/ ShutdownStop(i)
  <2>1. PICK i \in Ids : BootStart(i) \/ ShutdownStop(i)
    BY <1>3
  <2>2. Untouched \/ (services[i].state # "Absent" /\ Written(i, services[i]))
    BY <2>1 DEF BootStart, ShutdownStop, Untouched, Written, Redefined, registryVars,
       Inv, TypeInv, BootStopped
  <2>3. services[i] \in Versions(services[i])
    BY DEF Versions
  <2> QED  BY <2>2, <2>3 DEF RegistryStep, Registered
<1>4. CASE \E n \in Names : ReloadRemove(n) \/ ReloadAdd(n) \/ ReloadChange(n)
  BY <1>4, RegistryReload
<1>5. CASE \E p \in Pids : Reap(p)
  <2>1. PICK p \in Pids : Reap(p)
    BY <1>5
  <2>2. CASE pids_map[p] # NoId
    BY <2>1, <2>2 DEF RegistryStep
  <2>3. CASE pids_map[p] = NoId
    <3>1. procs[p].svc = NoId
      BY <2>3 DEF Inv, Supervised, EveryChildSupervised
    <3>2. Untouched
      BY <2>1, <2>3, <3>1, NoProcessType DEF Reap, Untouched, registryVars, Inv, TypeInv, RegistryOK
    <3> QED  BY <3>2 DEF RegistryStep
  <2> QED  BY <2>2, <2>3
<1>6. CASE KillGroup \/ \E i \in Ids : TickKill(i)
  <2>1. \A p \in Pids : procs'[p] = procs[p] \/ procs'[p] = Kill(procs[p])
    BY <1>6 DEF KillGroup, TickKill, Inv, TypeInv, RegistryOK
  <2>2. \A p \in Pids : procs'[p].svc = procs[p].svc /\ procs'[p].cfg = procs[p].cfg
    BY <2>1 DEF Inv, TypeInv, RegistryOK, Kill, Process
  <2> QED
    BY <1>6, <2>2 DEF KillGroup, TickKill, tickFrame, registryVars, RegistryStep, Untouched
<1>7. CASE \E i \in Ids : TickStopped(i)
  BY <1>7, RegistryTick
<1>8. CASE ReadControl
  BY <1>8, RegistryControl
<1>9. CASE WorldStep
  BY <1>9, RegistryWorld
<1> QED
  BY <1>1, <1>2, <1>3, <1>4, <1>5, <1>6, <1>7, <1>8, <1>9, Zenon
  DEF Next, SupervisorStep, Terminated

-----------------------------------------------------------------------------
(* Restarts and command lines *)

(* What the versions of a record have in common with it. *)
LEMMA VersionsType ==
  ASSUME NEW svc \in ServiceRecord, svc.config \in Configs, NEW new \in Versions(svc)
  PROVE  /\ new \in ServiceRecord
         /\ new.config \in Configs
         /\ new.state = svc.state
         /\ new.pid = svc.pid
         /\ svc.pending = "Restart" => new.pending \in {"Restart", "Remove"}
         /\ svc.pending # "None" => new.pending # "None"
         /\ \/ new.argv = svc.argv /\ new.config = svc.config
            \/ new.argv = new.config
            \/ new.argv.argv_ok /\ ~new.argv.envp_ok
<1>1. "Restart" \in PendingActions /\ "Remove" \in PendingActions
  BY DEF PendingActions
<1>2. CASE new = svc \/ new = Marked(svc, "Restart") \/ new = Marked(svc, "Remove")
  BY <1>1, <1>2, MarkedType
<1>3. CASE \E cfg \in Configs : \/ new = update_config(svc, cfg)
                                \/ new = Marked(update_config(svc, cfg), "Restart")
  <2>1. PICK cfg \in Configs : \/ new = update_config(svc, cfg)
                               \/ new = Marked(update_config(svc, cfg), "Restart")
    BY <1>3
  <2> DEFINE upd == update_config(svc, cfg)
  <2>2. /\ upd \in ServiceRecord /\ upd.config \in Configs
        /\ upd.state = svc.state /\ upd.pid = svc.pid /\ upd.pending = svc.pending
    BY UpdateConfigType
  <2>3. \/ upd.argv = svc.argv /\ upd.config = svc.config
        \/ upd.argv = upd.config
        \/ upd.argv.argv_ok /\ ~upd.argv.envp_ok
    BY DEF update_config, ServiceRecord
  <2>4. new = upd \/ new = Marked(upd, "Restart")
    BY <2>1
  <2> HIDE DEF upd
  <2>5. /\ Marked(upd, "Restart") \in ServiceRecord
        /\ Marked(upd, "Restart").pending = "Restart"
        /\ Marked(upd, "Restart").state = upd.state
        /\ Marked(upd, "Restart").pid = upd.pid
        /\ Marked(upd, "Restart").config = upd.config
        /\ Marked(upd, "Restart").argv = upd.argv
    BY <1>1, <2>2, MarkedType
  <2> QED  BY <2>2, <2>3, <2>4, <2>5, Zenon
<1> QED  BY <1>2, <1>3 DEF Versions

(* What the operations of service.rs leave of the record they are given. *)
LEMMA WrittenFields ==
  ASSUME Inv, NEW i \in Ids, NEW svc \in ServiceRecord, svc.config \in Configs,
         Store(i, svc) \/ StartOk(i, svc) \/ StopOk(i, svc)
  PROVE  /\ \A j \in Ids : j # i => services'[j] = services[j]
         /\ services'[i].pending = svc.pending
         /\ services'[i].config = svc.config
         /\ services'[i].argv = svc.argv
<1>1. CASE Store(i, svc)
  BY <1>1 DEF Store, Inv, TypeInv, RegistryOK
<1>2. CASE StartOk(i, svc)
  <2>1. PICK pid \in Pids : services' = [services EXCEPT ![i] = Started(svc, pid)]
    BY <1>2 DEF StartOk, FreePids
  <2>2. /\ Started(svc, pid).pending = svc.pending
        /\ Started(svc, pid).config = svc.config
        /\ Started(svc, pid).argv = svc.argv
    BY DEF Started, ServiceRecord
  <2> QED  BY <2>1, <2>2 DEF Inv, TypeInv, RegistryOK
<1>3. CASE StopOk(i, svc)
  <2>1. services' = [services EXCEPT ![i] = StopRequested(svc)]
    BY <1>3 DEF StopOk
  <2>2. /\ StopRequested(svc).pending = svc.pending
        /\ StopRequested(svc).config = svc.config
        /\ StopRequested(svc).argv = svc.argv
    BY DEF StopRequested, ServiceRecord
  <2> QED  BY <2>1, <2>2 DEF Inv, TypeInv, RegistryOK
<1> QED  BY <1>1, <1>2, <1>3

(* Started services run. *)
LEMMA StartedRuns ==
  ASSUME Inv, NEW i \in Ids, NEW svc \in ServiceRecord, StartOk(i, svc)
  PROVE  services'[i].state = "Running"
BY DEF StartOk, Started, Inv, TypeInv, RegistryOK, ServiceRecord

(* A step that may drop a restart is one that tried it. *)
LEMMA RestartStep ==
  ASSUME Inv, [Next]_vars, NEW i \in Ids,
         services[i].pending = "Restart", services'[i].pending # "Restart"
  PROVE  \/ services'[i].state \in {"Running", "Absent"}
         \/ services'[i].pending = "Remove"
         \/ /\ pc = "tick" /\ StartFails
            /\ services'[i] = [services[i] EXCEPT !.pending = "None"]
<1> USE DEF Inv, TypeInv, RegistryOK
<1>1. RegistryStep
  BY RegistryNext
<1>2. CASE Untouched
  BY <1>2 DEF Untouched
<1>3. CASE TimePasses
  BY <1>3 DEF TimePasses, ServiceRecord
<1>4. CASE \E j \in Registered : Dropped(j)
  BY <1>4, NoServiceType DEF Dropped, Store, Registered
<1>5. CASE \E j \in Registered : Ticked(j)
  <2>1. PICK j \in Registered : Ticked(j)
    BY <1>5
  <2>2. /\ j \in Ids
        /\ Store(j, Marked(services[j], "None")) \/ StartOk(j, Marked(services[j], "None"))
    BY <2>1 DEF Ticked, Registered
  <2>3. "None" \in PendingActions /\ services[j] \in ServiceRecord /\ services[j].config \in Configs
    BY <2>1 DEF PendingActions, Registered
  <2>4. Marked(services[j], "None") \in ServiceRecord /\ Marked(services[j], "None").config \in Configs
    BY <2>3, MarkedType
  <2>5. j = i
    BY <2>1, <2>2, <2>4, WrittenFields DEF Registered
  <2>6. CASE StartOk(i, Marked(services[i], "None"))
    BY <2>4, <2>5, <2>6, StartedRuns
  <2>7. CASE Store(i, Marked(services[i], "None")) /\ TickDecision(services[i]) = "None"
    BY <2>7 DEF TickDecision
  <2>8. CASE Store(i, Marked(services[i], "None")) /\ StartFails
    BY <2>1, <2>8 DEF Ticked, Store, Marked
  <2> QED  BY <2>1, <2>5, <2>6, <2>7, <2>8 DEF Ticked
<1>6. CASE \E j \in Registered : \E svc \in Versions(services[j]) : Written(j, svc)
  <2>0. PICK j \in Registered : \E svc \in Versions(services[j]) : Written(j, svc)
    BY <1>6
  <2>1. PICK svc \in Versions(services[j]) : Written(j, svc)
    BY <2>0
  <2>2. j \in Ids /\ services[j] \in ServiceRecord /\ services[j].config \in Configs
    BY <2>1 DEF Registered
  <2>3. /\ svc \in ServiceRecord /\ svc.config \in Configs
        /\ services[j].pending = "Restart" => svc.pending \in {"Restart", "Remove"}
    BY <2>1, <2>2, VersionsType
  <2>4. /\ \A k \in Ids : k # j => services'[k] = services[k]
        /\ services'[j].pending = svc.pending
    BY <2>1, <2>2, <2>3, WrittenFields DEF Written
  <2> QED  BY <2>3, <2>4
<1>7. CASE \E n \in Names, cfg \in Configs : Created(n, cfg)
  <2>1. PICK n \in Names, cfg \in Configs : Created(n, cfg)
    BY <1>7
  <2>2. NewService(n, cfg) \in ServiceRecord /\ NewService(n, cfg).config \in Configs
    BY NewServiceType
  <2>3. next_id \in Ids /\ services[next_id].pending = "None"
    BY NextIdType, NoServiceType DEF FreshIds
  <2>4. i # next_id => services'[i] = services[i]
    BY <2>1, <2>2, <2>3, WrittenFields DEF Created, nextval
  <2> QED  BY <2>3, <2>4
<1>8. CASE \E p \in Pids : Reap(p) /\ pids_map[p] # NoId
  <2>1. PICK p \in Pids : Reap(p) /\ pids_map[p] # NoId
    BY <1>8
  <2> DEFINE j == pids_map[p]
             new == Reaped(services[j], procs[p].exit)
  <2>2. j \in Ids /\ services' = [services EXCEPT ![j] = new]
    BY <2>1 DEF Reap
  <2>3. new.pending = services[j].pending
    BY <2>2 DEF Reaped, ServiceRecord
  <2> HIDE DEF j, new
  <2> QED  BY <2>2, <2>3
<1> QED  BY <1>1, <1>2, <1>3, <1>4, <1>5, <1>6, <1>7, <1>8 DEF RegistryStep

(***************************************************************************)
(* A restart that reload_services or a command has asked for is dropped by *)
(* nothing but the removal of the service or a start_service of the timer  *)
(* arm that failed, in whatever order commands, reloads, exits and ticks   *)
(* come.                                                                   *)
(***************************************************************************)
THEOREM RestartIsTried == Spec => RestartSticks
<1>1. Inv /\ [Next]_vars =>
        [\A i \in Ids :
           services[i].pending = "Restart" /\ services'[i].pending # "Restart" =>
             \/ services'[i].state \in {"Running", "Absent"}
             \/ services'[i].pending = "Remove"
             \/ /\ pc = "tick" /\ StartFails
                /\ services'[i] = [services[i] EXCEPT !.pending = "None"]]_vars
  BY RestartStep
<1> QED  BY <1>1, Invariance, PTL DEF Spec, RestartSticks

(* Every way of writing a record keeps argv in step with the definition. *)
LEMMA ArgvStep ==
  ASSUME Inv, ArgvOfDefinition, [Next]_vars
  PROVE  ArgvOfDefinition'
<1> USE DEF Inv, TypeInv, RegistryOK
<1> DEFINE InStep(svc) == svc.argv = svc.config \/ (svc.argv.argv_ok /\ ~svc.argv.envp_ok)
<1> SUFFICES ASSUME NEW i \in Ids, services'[i].state # "Absent"
             PROVE  InStep(services'[i])
  BY DEF ArgvOfDefinition, Registered
<1>0. ASSUME NEW j \in Ids, services[j].state # "Absent"
      PROVE  InStep(services[j])
  BY <1>0 DEF ArgvOfDefinition, Registered
<1>1. RegistryStep
  BY RegistryNext
<1>2. CASE Untouched
  BY <1>0, <1>2 DEF Untouched
<1>3. CASE TimePasses
  <2>1. /\ services'[i].argv = services[i].argv /\ services'[i].config = services[i].config
        /\ services'[i].state = services[i].state
    BY <1>3 DEF TimePasses, ServiceRecord
  <2> QED  BY <1>0, <2>1
<1>4. CASE \E j \in Registered : Dropped(j)
  BY <1>0, <1>4, NoServiceType DEF Dropped, Store, Registered
<1>5. ASSUME NEW j \in Ids, NEW svc \in ServiceRecord, svc.config \in Configs, InStep(svc),
             Store(j, svc) \/ StartOk(j, svc) \/ StopOk(j, svc)
      PROVE  InStep(services'[i])
  <2>1. /\ \A k \in Ids : k # j => services'[k] = services[k]
        /\ services'[j].config = svc.config /\ services'[j].argv = svc.argv
    BY <1>5, WrittenFields
  <2> QED  BY <1>0, <1>5, <2>1
<1>6. CASE \E j \in Registered : Ticked(j)
  <2>1. PICK j \in Registered : Ticked(j)
    BY <1>6
  <2>2. /\ j \in Ids
        /\ Store(j, Marked(services[j], "None")) \/ StartOk(j, Marked(services[j], "None"))
    BY <2>1 DEF Ticked, Registered
  <2>3. /\ "None" \in PendingActions /\ services[j] \in ServiceRecord
        /\ services[j].config \in Configs /\ InStep(services[j])
    BY <1>0, <2>1 DEF PendingActions, Registered
  <2>4. /\ Marked(services[j], "None") \in ServiceRecord
        /\ Marked(services[j], "None").config = services[j].config
        /\ Marked(services[j], "None").argv = services[j].argv
    BY <2>3, MarkedType
  <2> QED  BY <1>5, <2>2, <2>3, <2>4
<1>7. CASE \E j \in Registered : \E svc \in Versions(services[j]) : Written(j, svc)
  <2>0. PICK j \in Registered : \E svc \in Versions(services[j]) : Written(j, svc)
    BY <1>7
  <2>1. PICK svc \in Versions(services[j]) : Written(j, svc)
    BY <2>0
  <2>2. /\ j \in Ids /\ services[j] \in ServiceRecord /\ services[j].config \in Configs
        /\ InStep(services[j])
    BY <1>0 DEF Registered
  <2>3. /\ svc \in ServiceRecord /\ svc.config \in Configs
        /\ \/ svc.argv = services[j].argv /\ svc.config = services[j].config
           \/ InStep(svc)
    BY <2>1, <2>2, VersionsType
  <2> QED  BY <1>5, <2>1, <2>2, <2>3 DEF Written
<1>8. CASE \E n \in Names, cfg \in Configs : Created(n, cfg)
  <2>1. PICK n \in Names, cfg \in Configs : Created(n, cfg)
    BY <1>8
  <2>2. /\ NewService(n, cfg) \in ServiceRecord /\ NewService(n, cfg).config \in Configs
        /\ InStep(NewService(n, cfg))
    BY NewServiceType DEF NewService
  <2> QED  BY <1>5, <2>1, <2>2, NextIdType DEF Created, nextval
<1>9. CASE \E p \in Pids : Reap(p) /\ pids_map[p] # NoId
  <2>1. PICK p \in Pids : Reap(p) /\ pids_map[p] # NoId
    BY <1>9
  <2> DEFINE j == pids_map[p]
             new == Reaped(services[j], procs[p].exit)
  <2>2. j \in Ids /\ services' = [services EXCEPT ![j] = new]
    BY <2>1 DEF Reap
  <2>3. new.argv = services[j].argv /\ new.config = services[j].config
    BY <2>2 DEF Reaped, ServiceRecord
  <2>4. services[j].state # "Absent"
    BY <2>2, ServiceAssumption DEF Supervised, EveryChildSupervised, LiveStates
  <2> HIDE DEF j, new
  <2> QED  BY <1>0, <2>2, <2>3, <2>4
<1> QED  BY <1>1, <1>2, <1>3, <1>4, <1>6, <1>7, <1>8, <1>9 DEF RegistryStep

(***************************************************************************)
(* update_config is the only place where the command line and the          *)
(* definition of a service can part, and only in its second error return:  *)
(* no order of failed and successful reloads, starts, stops and exits has  *)
(* a service started with another command line.                            *)
(***************************************************************************)
THEOREM ArgvFollowsDefinition == Spec => []ArgvOfDefinition
<1>1. Init => ArgvOfDefinition
  BY NoServiceType DEF Init, ArgvOfDefinition, Registered
<1>2. Inv /\ ArgvOfDefinition /\ [Next]_vars => ArgvOfDefinition'
  BY ArgvStep
<1> QED  BY <1>1, <1>2, Invariance, PTL DEF Spec

-----------------------------------------------------------------------------
(* Outdated processes *)

(* A service is started with its own definition, on a pid of nobody's. *)
LEMMA StartedProcess ==
  ASSUME Inv, NEW j \in Ids, NEW svc \in ServiceRecord, svc.config \in Configs, StartOk(j, svc)
  PROVE  /\ services'[j].pid \in Pids /\ services'[j].config = svc.config
         /\ procs'[services'[j].pid].cfg = svc.config
         /\ \A p \in Pids : procs[p].svc # NoId => procs'[p] = procs[p]
<1>1. PICK pid \in FreePids :
        /\ services' = [services EXCEPT ![j] = Started(svc, pid)]
        /\ procs' = [procs EXCEPT ![pid] = ServiceProcess(pid, j, svc.config)]
  BY DEF StartOk
<1>2. pid \in Pids /\ procs[pid].svc = NoId
  BY DEF FreePids, Inv, Supervised, FreeUnused
<1>3. services'[j].pid = pid /\ services'[j].config = svc.config
  BY <1>1, <1>2, StartedType DEF Inv, TypeInv, RegistryOK
<1>4. procs'[pid].cfg = svc.config
  BY <1>1, <1>2 DEF ServiceProcess, NoProcess, Inv, TypeInv, RegistryOK
<1>5. \A p \in Pids : procs[p].svc # NoId => procs'[p] = procs[p]
  BY <1>1, <1>2 DEF Inv, TypeInv, RegistryOK
<1> QED  BY <1>2, <1>3, <1>4, <1>5

(* Every way of writing a record remembers that its process is outdated. *)
LEMMA OutdatedStep ==
  ASSUME Inv, OutdatedReplaced, [Next]_vars
  PROVE  OutdatedReplaced'
<1> DEFINE Live(svc) == svc.state \in LiveStates
           Leaving(svc) == svc.pending # "None" /\ (svc.state = "Stopping" \/ StopFails)
<1> SUFFICES ASSUME NEW i \in Ids, Live(services'[i]),
                    procs'[services'[i].pid].cfg # services'[i].config
             PROVE  Leaving(services'[i])
  BY DEF OutdatedReplaced, Registered
<1>0. ASSUME NEW j \in Ids, Live(services[j])
      PROVE  /\ services[j].pid \in Pids /\ procs[services[j].pid].svc = j
             /\ procs[services[j].pid].svc # NoId
             /\ procs[services[j].pid].cfg # services[j].config => Leaving(services[j])
  <2>1. services[j].pid \in Pids
    BY <1>0 DEF Inv, TypeInv, RegistryOK, Supervised, EveryChildSupervised, ServiceRecord
  <2>2. procs[services[j].pid].svc = j
    BY <2>1 DEF Inv, Supervised, EveryChildSupervised
  <2>3. services[j].state # "Absent"
    BY <1>0 DEF LiveStates
  <2> QED  BY <1>0, <2>1, <2>2, <2>3 DEF OutdatedReplaced, Registered
<1>1. ASSUME services'[i] = services[i],
             \A p \in Pids : procs[p].svc = i => procs'[p].cfg = procs[p].cfg
      PROVE  Leaving(services'[i])
  BY <1>0, <1>1
<1> HIDE DEF Live, Leaving
<1>2. RegistryStep
  BY RegistryNext
<1>3. CASE Untouched
  BY <1>1, <1>3 DEF Untouched
<1>4. CASE TimePasses
  <2>1. /\ services'[i].state = services[i].state /\ services'[i].pid = services[i].pid
        /\ services'[i].config = services[i].config
        /\ services'[i].pending = services[i].pending
    BY <1>4 DEF TimePasses, Inv, TypeInv, RegistryOK, ServiceRecord
  <2>2. \A p \in Pids : procs'[p].cfg = procs[p].cfg
    BY <1>4 DEF TimePasses, Inv, TypeInv, RegistryOK, Process
  <2> QED  BY <1>0, <2>1, <2>2 DEF Live, Leaving
<1>5. ASSUME NEW j \in Ids, NEW svc, Store(j, svc), i # j \/ svc.state \notin LiveStates
      PROVE  Leaving(services'[i])
  <2>1. i # j /\ services'[i] = services[i] /\ UNCHANGED procs
    BY <1>5 DEF Store, Live, Inv, TypeInv, RegistryOK
  <2> QED  BY <1>1, <2>1
<1>6. ASSUME NEW j \in Ids, NEW svc \in ServiceRecord, svc.config \in Configs, StartOk(j, svc)
      PROVE  Leaving(services'[i])
  <2>1. i # j
    BY <1>6, StartedProcess
  <2>2. services'[i] = services[i]
    BY <1>6, <2>1, WrittenFields
  <2> QED  BY <1>1, <1>6, <2>2, StartedProcess
<1>7. CASE \E j \in Registered : Dropped(j)
  <2>1. PICK j \in Ids : Store(j, NoService)
    BY <1>7 DEF Dropped, Registered
  <2> QED  BY <1>5, <2>1, NoServiceType DEF LiveStates
<1>8. CASE \E j \in Registered : Ticked(j)
  <2>1. PICK j \in Registered : Ticked(j)
    BY <1>8
  <2>2. /\ j \in Ids /\ services[j] \in ServiceRecord /\ services[j].config \in Configs
        /\ services[j].state = "Stopped" /\ "None" \in PendingActions
    BY <2>1, RegisteredRecord DEF Registered, Ticked, PendingActions
  <2>3. PICK svc \in ServiceRecord : svc = Marked(services[j], "None")
    BY <2>2, MarkedType
  <2>4. svc.config \in Configs /\ svc.state \notin LiveStates
    BY <2>2, <2>3, MarkedType DEF LiveStates
  <2>5. Store(j, svc) \/ StartOk(j, svc)
    BY <2>1, <2>3 DEF Ticked
  <2> QED  BY <1>5, <1>6, <2>2, <2>4, <2>5
<1>9. CASE \E j \in Registered : \E svc \in Versions(services[j]) : Written(j, svc)
  <2>0. PICK j \in Registered : \E svc \in Versions(services[j]) : Written(j, svc)
    BY <1>9
  <2>1. PICK svc \in Versions(services[j]) : Written(j, svc)
    BY <2>0
  <2>2. j \in Ids /\ services[j] \in ServiceRecord /\ services[j].config \in Configs
    BY RegisteredRecord DEF Registered
  <2>3. /\ svc \in ServiceRecord /\ svc.config \in Configs
        /\ svc.state = services[j].state /\ svc.pid = services[j].pid
        /\ services[j].pending # "None" => svc.pending # "None"
    BY <2>1, <2>2, VersionsType
  <2>4. /\ \A k \in Ids : k # j => services'[k] = services[k]
        /\ services'[j].pending = svc.pending /\ services'[j].config = svc.config
    BY <2>1, <2>2, <2>3, WrittenFields DEF Written
  <2>5. CASE Store(j, svc) /\ (Redefined(j, svc) => services[j].state # "Running" \/ StopFails)
    <3>1. CASE i # j
      BY <1>5, <2>2, <2>5, <3>1
    <3>2. CASE i = j
      <4>1. services'[i] = svc /\ UNCHANGED procs
        BY <2>2, <2>5, <3>2 DEF Store, Inv, TypeInv, RegistryOK
      <4>2. Live(services[j]) /\ (svc.state = "Stopping" \/ svc.state = "Running")
        BY <2>3, <3>2, <4>1 DEF Live, LiveStates
      <4>3. CASE Redefined(j, svc)
        BY <2>1, <2>3, <2>5, <4>1, <4>2, <4>3 DEF Written, Leaving
      <4>4. CASE ~Redefined(j, svc)
        <5>1. Leaving(services[j])
          BY <1>0, <2>2, <2>3, <3>2, <4>1, <4>2, <4>4 DEF Redefined
        <5> QED  BY <2>3, <4>1, <5>1 DEF Leaving
      <4> QED  BY <4>3, <4>4
    <3> QED  BY <3>1, <3>2
  <2>6. CASE StartOk(j, svc)
    BY <1>6, <2>2, <2>3, <2>6
  <2>7. CASE services[j].state = "Running" /\ StopOk(j, svc)
    <3>1. \A p \in Pids : procs'[p].cfg = procs[p].cfg
      BY <2>7 DEF StopOk, Inv, TypeInv, RegistryOK, Process
    <3>2. CASE i # j
      BY <1>1, <2>4, <3>1, <3>2
    <3>3. CASE i = j
      <4>1. services'[j].state = "Stopping" /\ services'[j].pid = svc.pid
        BY <2>2, <2>3, <2>7, StopRequestedType DEF StopOk, Inv, TypeInv, RegistryOK
      <4>2. Live(services[j]) /\ services[j].pid \in Pids
        BY <1>0, <2>2, <2>7 DEF Live, LiveStates
      <4>3. svc.pending # "None"
        <5>1. CASE Redefined(j, svc)
          BY <2>1, <2>7, <5>1 DEF Written
        <5>2. CASE ~Redefined(j, svc)
          <6>1. procs[services[j].pid].cfg # services[j].config
            BY <2>3, <2>4, <3>1, <3>3, <4>1, <4>2, <5>2 DEF Redefined
          <6> QED  BY <1>0, <2>2, <2>3, <4>2, <6>1 DEF Leaving
        <5> QED  BY <5>1, <5>2
      <4> QED  BY <2>4, <3>3, <4>1, <4>3 DEF Leaving
    <3> QED  BY <3>2, <3>3
  <2> QED  BY <2>1, <2>5, <2>6, <2>7 DEF Written
<1>10. CASE \E n \in Names, cfg \in Configs : Created(n, cfg)
  <2>1. PICK n \in Names, cfg \in Configs : Created(n, cfg)
    BY <1>10
  <2>2. PICK new \in ServiceRecord : /\ new = NewService(n, cfg)
                                     /\ new.config \in Configs /\ new.state \notin LiveStates
    BY NewServiceType DEF LiveStates
  <2>3. next_id \in Ids /\ (Store(next_id, new) \/ StartOk(next_id, new))
    BY <2>1, <2>2, NextIdType DEF Created, nextval
  <2> QED  BY <1>5, <1>6, <2>2, <2>3
<1>11. CASE \E p \in Pids : Reap(p) /\ pids_map[p] # NoId
  <2>1. PICK p \in Pids : Reap(p) /\ pids_map[p] # NoId
    BY <1>11
  <2>2. PICK j \in Ids : j = pids_map[p] /\ j = procs[p].svc
    BY <2>1 DEF Inv, TypeInv, RegistryOK, Supervised, EveryChildSupervised
  <2>3. /\ services[j] \in ServiceRecord /\ procs[p].exit \in ExitReason
        /\ services' = [services EXCEPT ![j] = Reaped(services[j], procs[p].exit)]
        /\ procs' = [procs EXCEPT ![p] = NoProcess]
    BY <2>1, <2>2 DEF Reap, Zombies, Inv, TypeInv, RegistryOK
  <2>4. i # j
    BY <2>3, ReapedType DEF Live, LiveStates, Inv, TypeInv, RegistryOK
  <2>5. /\ services'[i] = services[i]
        /\ \A q \in Pids : procs[q].svc = i => procs'[q] = procs[q]
    BY <2>2, <2>3, <2>4 DEF Inv, TypeInv, RegistryOK
  <2> QED  BY <1>1, <2>5
<1> QED
  BY <1>2, <1>3, <1>4, <1>7, <1>8, <1>9, <1>10, <1>11 DEF RegistryStep

(***************************************************************************)
(* No outdated process is forgotten: whatever reloads change, change back, *)
(* find unchanged or leave half done, and whatever commands, ticks and     *)
(* exits come in between, a process whose definition is no longer its      *)
(* service's is stopping with an action pending, or could not be signalled *)
(* and has it pending still.                                               *)
(***************************************************************************)
THEOREM OutdatedIsReplaced == Spec => []OutdatedReplaced
<1>1. Init => OutdatedReplaced
  BY NoServiceType DEF Init, OutdatedReplaced, Registered
<1>2. Inv /\ OutdatedReplaced /\ [Next]_vars => OutdatedReplaced'
  BY OutdatedStep
<1> QED  BY <1>1, <1>2, Invariance, PTL DEF Spec

-----------------------------------------------------------------------------
(* The life of services, read off the registry and the process table *)

lifeBar  == [i \in Ids |-> services[i].state]
ownerBar == [p \in Pids |-> procs[p].svc]
upBar    == IF Exited THEN pc ELSE "up"

(* The loop is left with the registry as it is, and never entered again. *)
LEMMA ExitSteps ==
  ASSUME Inv, [Next]_vars
  PROVE  \/ UNCHANGED vars
         \/ ~Exited /\ ~Exited'
         \/ /\ ~Exited /\ Exited'
            /\ UNCHANGED <<services, procs, next_id>>
            /\ pc' = "exited_ok" => \A p \in Pids : procs[p].svc = NoId
<1> USE DEF Exited
<1>1. Exited => UNCHANGED vars
  <2>1. SupervisorStep => ~Exited
    BY DEF SupervisorStep, Boot, LoadService, LoadDone, BootStart, BootDone, EpollWait, LoopFails,
       ReadSignals, SignalsDone, ReloadRefused, ReloadBegin, ReloadRemove, ReloadRemoveDone,
       ReloadAdd, ReloadChange, ReloadUnchanged, ReloadDone, SigChld, Reap, KillGroup, ReapDone,
       SigTerm, ShutdownStop, ShutdownDone, ReadTimer, TickKill, TickStopped, TickDone, ReadControl
  <2>2. WorldStep => ~Exited
    BY DEF WorldStep, SendSignal, SendCommand, SendInvalidFrame, ProcessExits, ProcessKilled,
       Adopt, TimerExpires, TimePasses
  <2> QED  BY <2>1, <2>2 DEF Next, Terminated
<1>2. ASSUME ~Exited, pc' = "exited_ok"
      PROVE  \A p \in Pids : procs[p].svc = NoId
  BY <1>2, OnlyExits, AllStoppedClean
<1>3. ASSUME ~Exited, Exited'
      PROVE  UNCHANGED <<services, procs, next_id>>
  <2> USE DEF Exit, ReloadContinues, ReloadReturns, supervisorVars, tickFrame, AfterEvent, vars,
              registryVars
  <2>1. CASE \/ ReapDone \/ ShutdownDone \/ Boot \/ LoadDone \/ BootDone \/ EpollWait \/ LoopFails
             \/ ReadSignals \/ SignalsDone
    BY <2>1 DEF ReapDone, ShutdownDone, ExitIfAllStopped, Boot, LoadDone, BootDone, EpollWait,
       LoopFails, ReadSignals, SignalsDone
  <2>2. CASE \/ ReloadRefused \/ ReloadBegin \/ ReloadRemoveDone \/ ReloadDone \/ SigChld
             \/ KillGroup \/ ReadTimer \/ TickDone \/ ReadControl
    BY <1>3, <2>2 DEF ReloadRefused, ReloadBegin, ReloadRemoveDone, ReloadDone, SigChld, KillGroup,
       ReadTimer, TickDone, ReadControl
  <2>3. CASE \E n \in Names : LoadService(n) \/ ReloadRemove(n) \/ ReloadAdd(n) \/ ReloadChange(n)
                              \/ ReloadUnchanged(n)
    BY <1>3, <2>3 DEF LoadService, ReloadRemove, ReloadAdd, ReloadChange, ReloadUnchanged, PendAndStop
  <2>4. CASE \E i \in Ids : BootStart(i) \/ ShutdownStop(i) \/ TickKill(i) \/ TickStopped(i)
    BY <1>3, <2>4 DEF BootStart, ShutdownStop, TickKill, TickStopped
  <2>5. CASE \/ \E p \in Pids : Reap(p)
             \/ \E sig \in {SIGINT, SIGTERM} : SigTerm(sig)
    BY <1>3, <2>5 DEF Reap, SigTerm
  <2>6. CASE WorldStep
    BY <1>3, <2>6 DEF WorldStep, SendSignal, SendCommand, SendInvalidFrame, ProcessExits,
       ProcessKilled, BecomeZombie, Adopt, TimerExpires, TimePasses
  <2>7. CASE Terminated \/ UNCHANGED vars
    BY <2>7 DEF Terminated
  <2> QED
    BY <2>1, <2>2, <2>3, <2>4, <2>5, <2>6, <2>7, Zenon DEF Next, SupervisorStep
<1> QED  BY <1>1, <1>2, <1>3

(* How lifeBar and ownerBar follow the two tables. *)
LEMMA LifeWritten ==
  ASSUME Inv, NEW i \in Ids, NEW svc, services' = [services EXCEPT ![i] = svc]
  PROVE  lifeBar' = [lifeBar EXCEPT ![i] = svc.state]
BY DEF lifeBar, Inv, TypeInv, RegistryOK

(* The owner of a process is what the process table says. *)
LEMMA OwnerWritten ==
  ASSUME Inv, NEW p \in Pids, NEW proc, procs' = [procs EXCEPT ![p] = proc]
  PROVE  ownerBar' = [ownerBar EXCEPT ![p] = proc.svc]
BY DEF ownerBar, Inv, TypeInv, RegistryOK

(* A successful fork, of a service stored under i. *)
LEMMA LifeStarted ==
  ASSUME Inv, NEW i \in Ids, NEW svc \in ServiceRecord, StartOk(i, svc), svc.config \in Configs
  PROVE  \E p \in Pids : /\ ownerBar[p] = NoId
                         /\ lifeBar' = [lifeBar EXCEPT ![i] = "Running"]
                         /\ ownerBar' = [ownerBar EXCEPT ![p] = i]
<1>1. PICK p \in FreePids :
        /\ services' = [services EXCEPT ![i] = Started(svc, p)]
        /\ procs' = [procs EXCEPT ![p] = ServiceProcess(p, i, svc.config)]
  BY DEF StartOk
<1>2. p \in Pids /\ procs[p].svc = NoId
  BY DEF FreePids, Inv, Supervised, FreeUnused
<1>3. lifeBar' = [lifeBar EXCEPT ![i] = Started(svc, p).state]
  BY <1>1, LifeWritten
<1>4. ownerBar' = [ownerBar EXCEPT ![p] = ServiceProcess(p, i, svc.config).svc]
  BY <1>1, <1>2, OwnerWritten
<1>5. Started(svc, p).state = "Running" /\ ServiceProcess(p, i, svc.config).svc = i
  BY <1>2, StartedType, ServiceProcessType
<1> QED  BY <1>2, <1>3, <1>4, <1>5 DEF ownerBar

(* Storing a record in the state it had is not seen. *)
LEMMA LifeStored ==
  ASSUME Inv, NEW i \in Ids, NEW svc, Store(i, svc), svc.state = services[i].state
  PROVE  UNCHANGED <<lifeBar, ownerBar>>
BY DEF lifeBar, ownerBar, Store, Inv, TypeInv, RegistryOK

(* A stop signal that is delivered. *)
LEMMA LifeStopping ==
  ASSUME Inv, NEW i \in Ids, NEW svc \in ServiceRecord, svc.config \in Configs, StopOk(i, svc)
  PROVE  /\ lifeBar' = [lifeBar EXCEPT ![i] = "Stopping"]
         /\ UNCHANGED ownerBar
<1>1. /\ services' = [services EXCEPT ![i] = StopRequested(svc)]
      /\ procs' = [procs EXCEPT ![svc.pid].owed = svc.config.stop_timeout]
  BY DEF StopOk
<1>2. \A p \in Pids : procs'[p].svc = procs[p].svc
  BY <1>1 DEF Inv, TypeInv, RegistryOK, Process
<1>3. StopRequested(svc).state = "Stopping"
  BY StopRequestedType
<1> QED  BY <1>1, <1>2, <1>3, LifeWritten DEF ownerBar

(* A step that edits a registered service is a start, a stop or nothing. *)
LEMMA LifeEdited ==
  ASSUME Inv, NEW i \in Ids, NEW svc \in ServiceRecord, svc.config \in Configs,
         svc.state = services[i].state, Written(i, svc)
  PROVE  Life!Work \/ UNCHANGED <<lifeBar, ownerBar, next_id>>
<1>0. UNCHANGED next_id /\ lifeBar[i] = services[i].state
  BY DEF Written, lifeBar
<1>1. CASE Store(i, svc)
  BY <1>0, <1>1, LifeStored
<1>2. CASE services[i].state = "Stopped" /\ StartOk(i, svc)
  <2>1. PICK p \in Pids : /\ ownerBar[p] = NoId
                          /\ lifeBar' = [lifeBar EXCEPT ![i] = "Running"]
                          /\ ownerBar' = [ownerBar EXCEPT ![p] = i]
    BY <1>2, LifeStarted
  <2>2. Life!Start(i, p)
    BY <1>0, <1>2, <2>1 DEF Life!Start, Life!Become, Life!Fork, lifeBar, ownerBar
  <2> QED  BY <2>2 DEF Life!Work
<1>3. CASE services[i].state = "Running" /\ StopOk(i, svc)
  <2>1. Life!AskToStop(i)
    BY <1>0, <1>3, LifeStopping DEF Life!AskToStop, Life!Become, lifeBar, ownerBar
  <2> QED  BY <2>1 DEF Life!Work
<1> QED  BY <1>1, <1>2, <1>3 DEF Written

(* A new service comes to life under the id that is next. *)
LEMMA LifeCreated ==
  ASSUME Inv, NEW n \in Names, NEW cfg \in Configs, Created(n, cfg)
  PROVE  Life!Work
<1> DEFINE new == NewService(n, cfg)
<1>1. next_id \in Ids /\ next_id' = next_id + 1
  BY NextIdType DEF Created
<1>2. new \in ServiceRecord /\ new.state = "Stopped" /\ new.config \in Configs
  BY NewServiceType
<1>3. Store(next_id, new) \/ StartOk(next_id, new)
  BY DEF Created, nextval
<1> HIDE DEF new
<1>4. CASE Store(next_id, new)
  <2>1. lifeBar' = [lifeBar EXCEPT ![next_id] = "Stopped"] /\ UNCHANGED ownerBar
    BY <1>1, <1>2, <1>4, LifeWritten DEF Store, ownerBar
  <2>2. Life!Create("Stopped") /\ UNCHANGED ownerBar
    BY <1>1, <2>1 DEF Life!Create, Life!Become, lifeBar
  <2> QED  BY <2>2 DEF Life!Work, ownerBar
<1>5. CASE StartOk(next_id, new)
  <2>1. PICK p \in Pids : /\ ownerBar[p] = NoId
                          /\ lifeBar' = [lifeBar EXCEPT ![next_id] = "Running"]
                          /\ ownerBar' = [ownerBar EXCEPT ![p] = next_id]
    BY <1>1, <1>2, <1>5, LifeStarted
  <2>2. Life!Create("Running") /\ Life!Fork(p, next_id)
    BY <1>1, <2>1 DEF Life!Create, Life!Become, Life!Fork, lifeBar, ownerBar
  <2> QED  BY <2>2 DEF Life!Work
<1> QED  BY <1>3, <1>4, <1>5

(* handle_sigchld buries a process together with its service's state. *)
LEMMA LifeReaped ==
  ASSUME Inv, NEW p \in Pids, Reap(p), pids_map[p] # NoId
  PROVE  Life!Work
<1>1. PICK i \in Ids : i = pids_map[p]
  BY DEF Inv, TypeInv, RegistryOK
<1>2. /\ services[i] \in ServiceRecord /\ procs[p].exit \in ExitReason
      /\ procs[p].svc = i /\ services[i].pid = p
  BY <1>1 DEF Reap, Zombies, Inv, TypeInv, RegistryOK, Supervised, EveryChildSupervised
<1>3. services[i].state \in LiveStates
  BY <1>2, ServiceAssumption DEF Inv, Supervised, EveryChildSupervised
<1>4. /\ services' = [services EXCEPT ![i] = Reaped(services[i], procs[p].exit)]
      /\ procs' = [procs EXCEPT ![p] = NoProcess]
      /\ UNCHANGED next_id
  BY <1>1 DEF Reap
<1>5. Reaped(services[i], procs[p].exit).state = "Stopped"
  BY <1>2, ReapedType
<1>6. lifeBar' = [lifeBar EXCEPT ![i] = "Stopped"]
  BY <1>4, <1>5, LifeWritten
<1>7. ownerBar' = [ownerBar EXCEPT ![p] = NoId]
  BY <1>4, OwnerWritten, NoProcessType
<1>8. Life!Bury(i, p)
  BY <1>2, <1>3, <1>4, <1>6, <1>7 DEF Life!Bury, Life!Become, lifeBar, ownerBar, LiveStates
<1> QED  BY <1>8 DEF Life!Work

(* Every way of writing the registry is a step of a life, or none. *)
LEMMA LifeWork ==
  ASSUME Inv, [Next]_vars
  PROVE  Life!Work \/ UNCHANGED <<lifeBar, ownerBar, next_id>>
<1>1. RegistryStep
  BY RegistryNext
<1>2. CASE Untouched
  <2>1. UNCHANGED <<lifeBar, ownerBar>>
    BY <1>2 DEF Untouched, lifeBar, ownerBar
  <2> QED  BY <1>2, <2>1 DEF Untouched, Life!Work, Life!Spend, lifeBar, ownerBar
<1>3. CASE TimePasses
  <2>1. \A i \in Ids : services'[i].state = services[i].state
    BY <1>3 DEF TimePasses, Inv, TypeInv, RegistryOK, ServiceRecord
  <2>2. \A p \in Pids : procs'[p].svc = procs[p].svc
    BY <1>3 DEF TimePasses, Inv, TypeInv, RegistryOK, Process
  <2> QED  BY <1>3, <2>1, <2>2 DEF TimePasses, supervisorVars, lifeBar, ownerBar
<1>4. CASE \E i \in Registered : Dropped(i)
  <2>1. PICK i \in Ids : Dropped(i)
    BY <1>4 DEF Registered
  <2>2. lifeBar' = [lifeBar EXCEPT ![i] = "Absent"] /\ UNCHANGED <<ownerBar, next_id>>
    BY <2>1, LifeWritten, NoServiceType DEF Dropped, Store, ownerBar
  <2>3. Life!Drop(i)
    BY <2>1, <2>2 DEF Dropped, Life!Drop, Life!Become, lifeBar, ownerBar
  <2> QED  BY <2>3 DEF Life!Work
<1>5. CASE \E i \in Registered : Ticked(i)
  <2>1. PICK i \in Registered : Ticked(i)
    BY <1>5
  <2>2. /\ i \in Ids /\ services[i] \in ServiceRecord /\ services[i].config \in Configs
        /\ "None" \in PendingActions
    BY <2>1, RegisteredRecord DEF Registered, PendingActions
  <2>3. Written(i, Marked(services[i], "None"))
    BY <2>1, <2>2, MarkedType DEF Ticked, Written, Redefined
  <2> QED  BY <2>2, <2>3, MarkedType, LifeEdited
<1>6. CASE \E i \in Registered : \E svc \in Versions(services[i]) : Written(i, svc)
  <2>1. PICK i \in Registered : \E svc \in Versions(services[i]) : Written(i, svc)
    BY <1>6
  <2>2. PICK svc \in Versions(services[i]) : Written(i, svc)
    BY <2>1
  <2>3. i \in Ids /\ services[i] \in ServiceRecord /\ services[i].config \in Configs
    BY <2>1, RegisteredRecord DEF Registered
  <2>4. svc \in ServiceRecord /\ svc.config \in Configs /\ svc.state = services[i].state
    BY <2>2, <2>3, VersionsType
  <2> QED  BY <2>2, <2>3, <2>4, LifeEdited
<1>7. CASE \E n \in Names, cfg \in Configs : Created(n, cfg)
  BY <1>7, LifeCreated
<1>8. CASE \E p \in Pids : Reap(p) /\ pids_map[p] # NoId
  BY <1>8, LifeReaped
<1> QED  BY <1>1, <1>2, <1>3, <1>4, <1>5, <1>6, <1>7, <1>8 DEF RegistryStep

(* Every step of the supervisor and of the world is a step of Lifecycle, or *)
(* is not seen there.                                                       *)
LEMMA LifeNext ==
  ASSUME Inv, [Next]_vars
  PROVE  [Life!Next]_Life!vars
<1>1. CASE UNCHANGED vars
  BY <1>1 DEF vars, registryVars, Life!vars, Exited
<1>2. CASE ~Exited /\ ~Exited'
  <2>1. Life!Work \/ UNCHANGED <<lifeBar, ownerBar, next_id>>
    BY LifeWork
  <2> QED  BY <1>2, <2>1 DEF Life!Next, Life!vars, lifeBar, ownerBar
<1>3. CASE /\ ~Exited /\ Exited'
           /\ UNCHANGED <<services, procs, next_id>>
           /\ pc' = "exited_ok" => \A p \in Pids : procs[p].svc = NoId
  <2>1. UNCHANGED <<lifeBar, ownerBar, next_id>>
    BY <1>3 DEF lifeBar, ownerBar
  <2>2. Life!End
    BY <1>3, <2>1 DEF Life!End, Exited, lifeBar, ownerBar
  <2> QED  BY <1>3, <2>2 DEF Life!Next
<1> QED  BY <1>1, <1>2, <1>3, ExitSteps

(***************************************************************************)
(* Whatever signals, commands, exits and ticks do in whatever order, and   *)
(* whatever fails, the registry and the process table go through the lives *)
(* that Lifecycle describes: ids are not reused, a service is started only *)
(* when it is Stopped and dropped only then, becomes Stopped only when its *)
(* process is buried, and the loop ends in order with no process left.     *)
(***************************************************************************)
THEOREM Refinement == Spec => ImplementsLifecycle
<1>1. Init => Life!Init
  BY NoServiceType, NoProcessType DEF Init, Life!Init, Exited
<1>2. Inv /\ [Next]_vars => [Life!Next]_Life!vars
  BY LifeNext
<1> QED  BY <1>1, <1>2, Invariance, PTL DEF Spec, ImplementsLifecycle, Life!Spec

(***************************************************************************)
(* Every service that is Running or Stopping has one process that was      *)
(* forked for it and is not yet reaped, and no other service has any: the  *)
(* supervisor never runs two processes for one service.                    *)
(***************************************************************************)
THEOREM OneProcessPerService == Spec => []Life!OneProcessEach
<1>1. Inv => Life!OneProcessEach
  <2> SUFFICES ASSUME Inv, NEW i \in Ids
               PROVE  /\ \A p, q \in Pids : ownerBar[p] = i /\ ownerBar[q] = i => p = q
                      /\ lifeBar[i] \in LiveStates <=> \E p \in Pids : ownerBar[p] = i
    BY DEF Life!OneProcessEach, lifeBar, ownerBar, LiveStates
  <2>1. \A p \in Pids : ownerBar[p] = i <=> services[i].pid = p
    BY DEF Inv, Supervised, EveryChildSupervised, ownerBar
  <2>2. services[i].pid \in Pids \cup {None}
    BY DEF Inv, TypeInv, RegistryOK, ServiceRecord
  <2>3. lifeBar[i] \in LiveStates <=> services[i].pid # None
    BY DEF Inv, Supervised, EveryChildSupervised, lifeBar
  <2> QED  BY <2>1, <2>2, <2>3, ServiceAssumption
<1> QED  BY <1>1, Invariance, PTL
=============================================================================

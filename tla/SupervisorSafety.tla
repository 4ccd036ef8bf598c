-------------------------- MODULE SupervisorSafety --------------------------
(***************************************************************************)
(* What follows from the invariant of SupervisorProofs: a clean exit, no   *)
(* dead child forgotten, removals that stick.                              *)
(***************************************************************************)
EXTENDS SupervisorProofs

USE DEF Ids, NoId

-----------------------------------------------------------------------------
(* Leaving the loop *)

(* Nothing is left of a service once all are stopped. *)
LEMMA AllStoppedClean ==
  ASSUME Inv, AllStopped
  PROVE  \A p \in Pids : procs[p].svc = NoId
<1> SUFFICES ASSUME NEW p \in Pids, procs[p].svc # NoId
             PROVE  FALSE
  OBVIOUS
<1>1. PICK i \in Ids : pids_map[p] = i
  BY DEF Inv, TypeInv, RegistryOK, Supervised, EveryChildSupervised
<1>2. services[i].state \in LiveStates
  BY <1>1, ServiceAssumption DEF Inv, Supervised, EveryChildSupervised
<1> QED
  BY <1>1, <1>2 DEF AllStopped, Registered, LiveStates

(* A step of the supervisor other than those that decide on the exit does  *)
(* not lead to a successful exit.                                          *)
LEMMA OnlyExits ==
  ASSUME [Next]_vars, pc' = "exited_ok"
  PROVE  UNCHANGED procs /\ (pc = "exited_ok" \/ AllStopped)
<1> USE DEF Exited, Exit, ReloadContinues, ReloadReturns, supervisorVars, tickFrame,
            AfterEvent, vars
<1>1. CASE ReapDone \/ ShutdownDone
  BY <1>1 DEF ReapDone, ShutdownDone, ExitIfAllStopped
<1>2. CASE Boot \/ LoadDone \/ BootDone \/ EpollWait \/ LoopFails \/ ReadSignals \/ SignalsDone
  BY <1>2 DEF Boot, LoadDone, BootDone, EpollWait, LoopFails, ReadSignals, SignalsDone
<1>3. CASE ReloadRefused \/ ReloadBegin \/ ReloadRemoveDone \/ ReloadDone \/ SigChld \/ KillGroup
           \/ ReadTimer \/ TickDone \/ ReadControl
  BY <1>3 DEF ReloadRefused, ReloadBegin, ReloadRemoveDone, ReloadDone, SigChld, KillGroup,
              ReadTimer, TickDone, ReadControl
<1>4. CASE \E n \in Names : LoadService(n) \/ ReloadRemove(n) \/ ReloadAdd(n) \/ ReloadChange(n)
                            \/ ReloadUnchanged(n)
  BY <1>4 DEF LoadService, ReloadRemove, ReloadAdd, ReloadChange, ReloadUnchanged, PendAndStop
<1>5. CASE \E i \in Ids : BootStart(i) \/ ShutdownStop(i) \/ TickKill(i) \/ TickStopped(i)
  BY <1>5 DEF BootStart, ShutdownStop, TickKill, TickStopped
<1>6. CASE \/ \E p \in Pids : Reap(p)
           \/ \E sig \in {SIGINT, SIGTERM} : SigTerm(sig)
  BY <1>6 DEF Reap, SigTerm
<1>7. CASE WorldStep
  BY <1>7 DEF WorldStep, SendSignal, SendCommand, SendInvalidFrame, ProcessExits, ProcessKilled,
              BecomeZombie, Adopt, TimerExpires, TimePasses
<1>8. CASE Terminated \/ UNCHANGED vars
  BY <1>8 DEF Terminated
<1> QED
  BY <1>1, <1>2, <1>3, <1>4, <1>5, <1>6, <1>7, <1>8, Zenon DEF Next, SupervisorStep

(***************************************************************************)
(* When the loop of main.rs ends with success, no service process is left, *)
(* alive or to be reaped.                                                  *)
(***************************************************************************)
THEOREM ExitIsClean == Spec => []CleanExit
<1>1. Init => CleanExit
  BY DEF Init, CleanExit
<1>2. Inv /\ CleanExit /\ [Next]_vars => CleanExit'
  BY OnlyExits, AllStoppedClean DEF CleanExit
<1> QED  BY <1>1, <1>2, Invariance, PTL DEF Spec

-----------------------------------------------------------------------------
(* Reaping *)

(* A batch is worked off before the loop turns to anything else. *)
BatchInSignals ==
  batch # {} => pc \in {"signals", "remove", "apply", "reap", "killgroup", "shutdown"} \/ Exited

Noticed == DeadChildNoticed /\ BatchInSignals

(* Zombies appear with their SIGCHLD only. *)
LEMMA NoticedWorld ==
  ASSUME Inv, Noticed, WorldStep
  PROVE  Noticed'
<1> USE DEF supervisorVars
<1>1. BatchInSignals' /\ UNCHANGED <<pc, batch>> /\ sigpending \subseteq sigpending'
  BY DEF Noticed, BatchInSignals, WorldStep, SendSignal, SendCommand, SendInvalidFrame, ProcessExits,
         ProcessKilled, BecomeZombie, Adopt, TimerExpires, TimePasses, Exited
<1>2. CASE \/ \E p \in Pids, exit \in ExitStatuses : ProcessExits(p, exit)
           \/ \E p \in Pids : ProcessKilled(p)
  <2>1. SIGCHLD \in sigpending'
    BY <1>2 DEF ProcessExits, ProcessKilled, BecomeZombie
  <2> QED  BY <1>1, <2>1 DEF Noticed, DeadChildNoticed
<1>3. CASE \E p, q \in Pids : Adopt(p, q)
  <2>1. PICK p \in Pids, q \in Pids : Adopt(p, q)
    BY <1>3
  <2>2. procs[q].pgid \in Pids \cup {None} /\ procs[q].grp \in Ids \cup {NoId}
    BY DEF Inv, TypeInv, RegistryOK, Process
  <2>3. procs'[p].st = "alive" /\ \A r \in Pids : r # p => procs'[r] = procs[r]
    <3>1. PICK orphan \in {GroupMember(procs[q].pgid, procs[q].grp), GroupLeader(p)} :
            procs' = [procs EXCEPT ![p] = orphan]
      BY <2>1 DEF Adopt
    <3>2. orphan.st = "alive"
      BY <2>2, <3>1, GroupMemberType DEF GroupLeader
    <3> QED  BY <3>1, <3>2 DEF Inv, TypeInv, RegistryOK
  <2>4. Zombies' \subseteq Zombies
    BY <2>3 DEF Zombies
  <2> QED  BY <1>1, <2>4 DEF Noticed, DeadChildNoticed, Exited
<1>4. CASE TimePasses
  <2>1. \A p \in Pids : procs'[p].st = procs[p].st
    BY <1>4 DEF TimePasses, Inv, TypeInv, RegistryOK, Process
  <2>2. Zombies' \subseteq Zombies
    BY <2>1 DEF Zombies
  <2> QED  BY <1>1, <2>2 DEF Noticed, DeadChildNoticed, Exited
<1>5. CASE UNCHANGED procs
  BY <1>1, <1>5 DEF Noticed, DeadChildNoticed, Zombies, Exited
<1> QED
  BY <1>2, <1>3, <1>4, <1>5 DEF WorldStep, SendSignal, SendCommand, SendInvalidFrame, TimerExpires

(* No step of the supervisor makes a zombie. *)
LEMMA NoNewZombies ==
  ASSUME Inv, SupervisorStep
  PROVE  Zombies' \subseteq Zombies
<1>1. CASE UNCHANGED procs
  BY <1>1 DEF Zombies
<1>2. ASSUME NEW i, NEW svc, StartOk(i, svc)
      PROVE  Zombies' \subseteq Zombies
  BY <1>2 DEF StartOk, ServiceProcess, NoProcess, Zombies, Inv, TypeInv, RegistryOK
<1>3. ASSUME NEW i, NEW svc, StopOk(i, svc)
      PROVE  Zombies' \subseteq Zombies
  BY <1>3 DEF StopOk, Zombies, Inv, TypeInv, RegistryOK, Process
<1>4. ASSUME NEW i, NEW svc, Store(i, svc)
      PROVE  Zombies' \subseteq Zombies
  BY <1>1, <1>4 DEF Store
<1>5. CASE \E p \in Pids : Reap(p)
  BY <1>5, NoProcessType DEF Reap, Zombies, Inv, TypeInv, RegistryOK
<1>6. CASE KillGroup \/ \E i \in Ids : TickKill(i)
  <2>1. \A p \in Pids : procs'[p] = procs[p] \/ procs'[p] = Kill(procs[p])
    BY <1>6 DEF KillGroup, TickKill, Inv, TypeInv, RegistryOK
  <2> QED  BY <2>1, KillType DEF Zombies, Inv, TypeInv, RegistryOK
<1>7. CASE \E n \in Names : LoadService(n) \/ ReloadRemove(n) \/ ReloadAdd(n) \/ ReloadChange(n)
                            \/ ReloadUnchanged(n)
  <2>1. \/ UNCHANGED procs
        \/ \E i, svc : StartOk(i, svc) \/ StopOk(i, svc) \/ Store(i, svc)
    BY <1>7 DEF LoadService, ReloadRemove, ReloadAdd, ReloadChange, ReloadUnchanged, PendAndStop
  <2> QED  BY <1>1, <1>2, <1>3, <1>4, <2>1
<1>8. CASE \E i \in Ids : BootStart(i) \/ ShutdownStop(i) \/ TickStopped(i)
  <2>1. \/ UNCHANGED procs
        \/ \E i, svc : StartOk(i, svc) \/ StopOk(i, svc) \/ Store(i, svc)
    BY <1>8 DEF BootStart, ShutdownStop, TickStopped
  <2> QED  BY <1>1, <1>2, <1>3, <1>4, <2>1
<1>9. CASE ReadControl
  <2>1. \/ UNCHANGED procs
        \/ \E i, svc : StartOk(i, svc) \/ StopOk(i, svc) \/ Store(i, svc)
    BY <1>9 DEF ReadControl, apply_control_op, ControlStop, ControlStart, ControlRestart,
                ControlIgnored
  <2> QED  BY <1>1, <1>2, <1>3, <1>4, <2>1
<1>10. CASE \/ Boot \/ LoadDone \/ BootDone \/ EpollWait \/ LoopFails \/ ReadSignals
            \/ SignalsDone \/ ReloadRefused \/ ReloadBegin \/ ReloadRemoveDone \/ ReloadDone
            \/ SigChld \/ ReapDone \/ (\E sig \in {SIGINT, SIGTERM} : SigTerm(sig))
            \/ ShutdownDone \/ ReadTimer \/ TickDone
  BY <1>1, <1>10 DEF Boot, LoadDone, BootDone, EpollWait, LoopFails, ReadSignals, SignalsDone,
     ReloadRefused, ReloadBegin, ReloadRemoveDone, ReloadDone, SigChld, ReapDone, SigTerm,
     ShutdownDone, ReadTimer, TickDone
<1> QED
  BY <1>5, <1>6, <1>7, <1>8, <1>9, <1>10, Zenon DEF SupervisorStep

(* The supervisor drops a SIGCHLD only to reap, and stops reaping only when *)
(* no zombie is left.                                                       *)
LEMMA NoticedStep ==
  ASSUME Inv, Noticed, SupervisorStep
  PROVE  Noticed'
<1>1. Zombies' \subseteq Zombies
  BY NoNewZombies
<1> USE DEF Exited, Exit, ReloadContinues, ReloadReturns, reloadFrame, tickFrame, AfterEvent
<1>2. CASE ReadSignals
  BY <1>1, <1>2 DEF ReadSignals, Noticed, DeadChildNoticed, BatchInSignals
<1>3. CASE \/ SigChld \/ ReloadRefused \/ ReloadBegin
           \/ \E sig \in {SIGINT, SIGTERM} : SigTerm(sig)
  BY <1>1, <1>3 DEF SigChld, ReloadRefused, ReloadBegin, SigTerm, Noticed, DeadChildNoticed,
     BatchInSignals, SIGCHLD, SIGHUP, SIGINT, SIGTERM
<1>4. CASE ReapDone \/ ShutdownDone
  BY <1>1, <1>4 DEF ReapDone, ShutdownDone, ExitIfAllStopped, Noticed, DeadChildNoticed,
     BatchInSignals
<1>5. CASE KillGroup \/ \E p \in Pids : Reap(p)
  BY <1>1, <1>5 DEF KillGroup, Reap, Noticed, DeadChildNoticed, BatchInSignals
<1>6. CASE \/ Boot \/ LoadDone \/ BootDone \/ EpollWait \/ LoopFails \/ SignalsDone
           \/ ReloadRemoveDone \/ ReloadDone \/ ReadTimer \/ TickDone \/ ReadControl
  BY <1>1, <1>6 DEF Boot, LoadDone, BootDone, EpollWait, LoopFails, SignalsDone,
     ReloadRemoveDone, ReloadDone, ReadTimer, TickDone, ReadControl, Noticed,
     DeadChildNoticed, BatchInSignals
<1>7. CASE \E n \in Names : LoadService(n) \/ ReloadRemove(n) \/ ReloadAdd(n) \/ ReloadChange(n)
                            \/ ReloadUnchanged(n)
  BY <1>1, <1>7 DEF LoadService, ReloadRemove, ReloadAdd, ReloadChange, ReloadUnchanged,
     PendAndStop, Noticed, DeadChildNoticed, BatchInSignals
<1>8. CASE \E i \in Ids : BootStart(i) \/ ShutdownStop(i) \/ TickKill(i) \/ TickStopped(i)
  BY <1>1, <1>8 DEF BootStart, ShutdownStop, TickKill, TickStopped, Noticed, DeadChildNoticed,
     BatchInSignals
<1> QED
  BY <1>2, <1>3, <1>4, <1>5, <1>6, <1>7, <1>8, Zenon DEF SupervisorStep

(***************************************************************************)
(* handle_sigchld forgets no dead child, although SIGCHLDs coalesce: until *)
(* the last zombie is reaped a SIGCHLD is pending, read, or being handled. *)
(***************************************************************************)
THEOREM NoChildForgotten == Spec => []DeadChildNoticed
<1>1. Init => Noticed
  BY NoProcessType DEF Init, Noticed, DeadChildNoticed, BatchInSignals, Zombies
<1>2. Inv /\ Noticed /\ [Next]_vars => Noticed'
  <2>1. CASE UNCHANGED vars
    BY <2>1 DEF vars, Noticed, DeadChildNoticed, BatchInSignals, Zombies, Exited
  <2> QED  BY <2>1, NoticedStep, NoticedWorld DEF Next, Terminated
<1>3. Noticed => DeadChildNoticed
  BY DEF Noticed
<1> QED  BY <1>1, <1>2, <1>3, Invariance, PTL DEF Spec

-----------------------------------------------------------------------------
(* What a step may do to an entry of the registry: keep it under its name,  *)
(* drop it, or put a new one under the id that is next.  A removal that is  *)
(* pending is lifted by the second loop of a reload only.                   *)

Kept(i) ==
  /\ services'[i].name = services[i].name
  /\ services'[i].state = "Absent" <=> services[i].state = "Absent"
  /\ services[i].pending = "Remove" => services'[i].pending = "Remove" \/ pc = "apply"

Removed(i) == services'[i] = NoService

Added(i) ==
  /\ i = next_id
  /\ next_id' = next_id + 1
  /\ services[i] = NoService
  /\ UNCHANGED <<pc, service_ids>>
  /\ \E n \in todo :
       /\ services'[i].name = n
       /\ todo' = todo \ {n}
       /\ pc = "load" \/ (pc = "apply" /\ service_ids[n] = NoId)

EntriesStep ==
  /\ next_id' \in {next_id, next_id + 1}
  /\ \A i \in Ids : Kept(i) \/ Removed(i) \/ Added(i)

(* The ways in which the code writes the record of a registered service. *)
LEMMA WrittenKept ==
  ASSUME Inv, NEW i \in Ids, NEW svc \in ServiceRecord, UNCHANGED next_id,
         services[i].state # "Absent", svc.state # "Absent", svc.config \in Configs,
         svc.name = services[i].name,
         services[i].pending = "Remove" => svc.pending = "Remove" \/ pc = "apply",
         Store(i, svc) \/ StartOk(i, svc) \/ StopOk(i, svc)
  PROVE  EntriesStep
<1>1. PICK new : /\ services' = [services EXCEPT ![i] = new]
                 /\ new.name = svc.name /\ new.pending = svc.pending /\ new.state # "Absent"
  <2>1. CASE Store(i, svc)
    BY <2>1 DEF Store
  <2>2. CASE StartOk(i, svc)
    BY <2>2, StartedType DEF StartOk, FreePids
  <2>3. CASE StopOk(i, svc)
    BY <2>3, StopRequestedType DEF StopOk
  <2> QED  BY <2>1, <2>2, <2>3
<1>2. \A j \in Ids : Kept(j)
  BY <1>1 DEF Kept, Inv, TypeInv, RegistryOK
<1> QED  BY <1>2 DEF EntriesStep

(* Steps that leave the registry alone. *)
LEMMA NothingWritten ==
  ASSUME UNCHANGED services, next_id' \in {next_id, next_id + 1}
  PROVE  EntriesStep
BY DEF EntriesStep, Kept

(* A stopped service is dropped. *)
LEMMA EntryRemoved ==
  ASSUME Inv, NEW i \in Ids, Store(i, NoService), UNCHANGED next_id
  PROVE  EntriesStep
BY DEF EntriesStep, Kept, Removed, Store, Inv, TypeInv, RegistryOK

(* The generator's counter is an id. *)
LEMMA NextIdType ==
  ASSUME Inv
  PROVE  next_id \in Ids /\ next_id \in Nat
BY SupervisorAssumption DEF Inv, TypeInv, ControlOK

(* A new service. *)
LEMMA EntryAdded ==
  ASSUME Inv, NEW n \in Names, n \in todo, new_cfg[n] \in Configs, next_id' = next_id + 1,
         UNCHANGED <<pc, service_ids>>, todo' = todo \ {n},
         pc = "load" \/ (pc = "apply" /\ service_ids[n] = NoId),
         \/ Store(nextval, NewService(n, new_cfg[n]))
         \/ StartOk(nextval, NewService(n, new_cfg[n]))
  PROVE  EntriesStep
<1>1. next_id \in Ids /\ services[next_id] = NoService
  BY NextIdType DEF Inv, FreshIds
<1>2. PICK new : services' = [services EXCEPT ![next_id] = new] /\ new.name = n
  <2>1. NewService(n, new_cfg[n]) \in ServiceRecord /\ NewService(n, new_cfg[n]).name = n
    BY NewServiceType
  <2>2. CASE Store(nextval, NewService(n, new_cfg[n]))
    BY <2>1, <2>2 DEF Store, nextval
  <2>3. CASE StartOk(nextval, NewService(n, new_cfg[n]))
    <3>1. PICK pid \in Pids :
            services' = [services EXCEPT ![next_id] = Started(NewService(n, new_cfg[n]), pid)]
      BY <2>3 DEF StartOk, FreePids, nextval
    <3>2. Started(NewService(n, new_cfg[n]), pid).name = n
      BY <2>1, <3>1, StartedType
    <3> QED  BY <3>1, <3>2, Zenon
  <2> QED  BY <2>2, <2>3
<1>3. Added(next_id)
  BY <1>1, <1>2 DEF Added, Inv, TypeInv, RegistryOK
<1>4. \A j \in Ids : j # next_id => Kept(j)
  BY <1>2 DEF Kept, Inv, TypeInv, RegistryOK
<1> QED  BY <1>3, <1>4 DEF EntriesStep

(* The loops of reload_services treat entries that way. *)
LEMMA EntriesReload ==
  ASSUME Inv, NEW n \in Names, ReloadRemove(n) \/ ReloadAdd(n) \/ ReloadChange(n)
  PROVE  EntriesStep
<1> DEFINE i == service_ids[n]
<1>1. CASE ReloadRemove(n)
  <2> DEFINE marked == [services[i] EXCEPT !.pending = "Remove"]
  <2>1. i \in Ids /\ services[i] \in ServiceRecord /\ UNCHANGED next_id
    BY <1>1 DEF ReloadRemove, Inv, TypeInv, ControlOK, LoopsDefined, RegistryOK
  <2>2. \/ Store(i, NoService)
        \/ services[i].state # "Absent" /\ (StopOk(i, marked) \/ Store(i, marked))
    BY <1>1 DEF ReloadRemove, PendAndStop
  <2>3. /\ marked \in ServiceRecord /\ marked.config = services[i].config
        /\ marked.name = services[i].name /\ marked.state = services[i].state
        /\ marked.pending = "Remove"
    <3>1. "Remove" \in PendingActions
      BY DEF PendingActions
    <3> QED  BY <2>1, <3>1, PendingType
  <2> HIDE DEF marked, i
  <2> QED  BY <2>1, <2>2, <2>3, RegisteredRecord, WrittenKept, EntryRemoved
<1>2. CASE ReloadAdd(n)
  <2>1. new_cfg[n] \in Configs
    BY <1>2 DEF ReloadAdd, Inv, TypeInv, ControlOK, LoopsDefined, Defined, ConfigFile
  <2>2. CASE /\ StartOk(nextval, NewService(n, new_cfg[n])) /\ next_id' = next_id + 1
             /\ ReloadContinues(n)
    BY <1>2, <2>1, <2>2, EntryAdded DEF ReloadAdd, ReloadContinues
  <2>3. CASE UNCHANGED <<registryVars, procs>> /\ next_id' \in {next_id, next_id + 1}
    BY <2>3, NothingWritten DEF registryVars
  <2> QED  BY <1>2, <2>2, <2>3 DEF ReloadAdd
<1>3. CASE ReloadChange(n)
  <2> DEFINE svc == update_config(services[i], new_cfg[n])
             marked == [svc EXCEPT !.pending = "Restart"]
  <2>1. new_cfg[n] \in Configs
    BY <1>3 DEF ReloadChange, Inv, TypeInv, ControlOK, LoopsDefined, Defined, ConfigFile
  <2>2. i \in Ids /\ services[i].state # "Absent" /\ pc = "apply" /\ UNCHANGED next_id
    BY <1>3 DEF ReloadChange, Registered
  <2>3. /\ svc \in ServiceRecord /\ svc.config \in Configs
        /\ svc.name = services[i].name /\ svc.state = services[i].state
    BY <2>1, <2>2, RegisteredRecord, UpdateConfigType
  <2>4. Store(i, svc) \/ StartOk(i, svc) \/ StopOk(i, marked) \/ Store(i, marked)
    BY <1>3 DEF ReloadChange, PendAndStop
  <2>5. "Restart" \in PendingActions
    BY DEF PendingActions
  <2> HIDE DEF svc, i
  <2>6. /\ marked \in ServiceRecord /\ marked.config \in Configs
        /\ marked.name = services[i].name /\ marked.state = services[i].state
    BY <2>3, <2>5, PendingType
  <2> HIDE DEF marked
  <2> QED  BY <2>2, <2>3, <2>4, <2>6, WrittenKept
<1> QED  BY <1>1, <1>2, <1>3

(* So does the timer arm: a pending removal is carried out, not dropped. *)
LEMMA EntriesTick ==
  ASSUME Inv, NEW i \in Ids, TickStopped(i)
  PROVE  EntriesStep
<1> DEFINE svc == [services[i] EXCEPT !.pending = "None"]
<1>1. services[i].state = "Stopped" /\ UNCHANGED next_id /\ "None" \in PendingActions
  BY DEF TickStopped, tickFrame, PendingActions
<1>2. /\ svc \in ServiceRecord /\ svc.config \in Configs
      /\ svc.name = services[i].name /\ svc.state = services[i].state
  BY <1>1, RegisteredRecord, PendingType
<1>3. \/ Store(i, NoService)
      \/ /\ services[i].pending # "Remove"
         /\ Store(i, svc) \/ StartOk(i, svc)
  BY DEF TickStopped, TickDecision
<1> HIDE DEF svc
<1> QED  BY <1>1, <1>2, <1>3, WrittenKept, EntryRemoved

(* So does apply_control_op, which never overrides a pending action. *)
LEMMA EntriesControl ==
  ASSUME Inv, ReadControl
  PROVE  EntriesStep
<1> DEFINE i == Head(fifo).id
           marked == [services[i] EXCEPT !.pending = "Restart"]
<1>1. UNCHANGED next_id
  BY DEF ReadControl
<1>2. CASE UNCHANGED services
  BY <1>1, <1>2, NothingWritten
<1>3. CASE ~UNCHANGED services
  <2>1. /\ Decodes(Head(fifo))
        /\ services[i].state # "Absent"
        /\ \/ StopOk(i, services[i]) \/ StartOk(i, services[i])
           \/ services[i].pending = "None" /\ (StopOk(i, marked) \/ Store(i, marked))
    BY <1>3 DEF ReadControl, apply_control_op, ControlStop, ControlStart, ControlRestart,
                ControlIgnored, registryVars
  <2>2. i \in Ids
    <3>1. Head(fifo) \in ControlCommand
      BY HeadTailProperties DEF ReadControl, Inv, TypeInv, FifoOK
    <3> QED  BY <2>1, <3>1 DEF ControlCommand, Decodes, InvalidFrame, ControlOps
  <2>3. services[i] \in ServiceRecord /\ services[i].config \in Configs
    BY <2>1, <2>2, RegisteredRecord
  <2>4. /\ marked \in ServiceRecord /\ marked.config = services[i].config
        /\ marked.name = services[i].name /\ marked.state = services[i].state
    <3>1. "Restart" \in PendingActions
      BY DEF PendingActions
    <3> QED  BY <2>3, <3>1, PendingType
  <2> HIDE DEF i, marked
  <2> QED  BY <1>1, <2>1, <2>2, <2>3, <2>4, WrittenKept
<1> QED  BY <1>2, <1>3

(* One step per action of Next. *)
LEMMA EntriesNext ==
  ASSUME Inv, [Next]_vars
  PROVE  EntriesStep
<1>1. CASE \/ Boot \/ LoadDone \/ BootDone \/ EpollWait \/ LoopFails \/ ReadSignals
           \/ SignalsDone \/ ReloadRefused \/ ReloadBegin \/ ReloadRemoveDone
           \/ (\E n \in Names : ReloadUnchanged(n)) \/ ReloadDone \/ SigChld \/ KillGroup
           \/ ReapDone \/ (\E sig \in {SIGINT, SIGTERM} : SigTerm(sig)) \/ ShutdownDone
           \/ ReadTimer \/ TickDone \/ (\E i \in Ids : TickKill(i)) \/ UNCHANGED vars
  <2>1. UNCHANGED <<services, next_id>>
    BY <1>1 DEF Boot, LoadDone, BootDone, EpollWait, LoopFails, ReadSignals, SignalsDone,
       ReloadRefused, ReloadBegin, ReloadRemoveDone, ReloadUnchanged, ReloadDone, SigChld,
       KillGroup, ReapDone, SigTerm, ShutdownDone, ReadTimer, TickDone, TickKill, tickFrame,
       vars, registryVars
  <2> QED  BY <2>1, NothingWritten
<1>2. CASE \E n \in Names : LoadService(n)
  <2>1. PICK n \in Names : LoadService(n)
    BY <1>2
  <2>2. new_cfg[n] \in Configs
    BY <2>1 DEF LoadService, Inv, TypeInv, ControlOK, LoopsDefined, Defined, ConfigFile
  <2>3. CASE UNCHANGED <<registryVars, procs, next_id>>
    BY <2>3, NothingWritten DEF registryVars
  <2>4. CASE /\ Store(nextval, NewService(n, new_cfg[n]))
             /\ next_id' = next_id + 1 /\ todo' = todo \ {n} /\ UNCHANGED pc
    BY <2>1, <2>2, <2>4, EntryAdded DEF LoadService
  <2> QED  BY <2>1, <2>3, <2>4 DEF LoadService
<1>3. CASE \E i \in Ids : BootStart(i) \/ ShutdownStop(i)
  <2>1. PICK i \in Ids : BootStart(i) \/ ShutdownStop(i)
    BY <1>3
  <2>2. UNCHANGED next_id
    BY <2>1 DEF BootStart, ShutdownStop
  <2>3. CASE UNCHANGED services
    BY <2>2, <2>3, NothingWritten
  <2>4. CASE /\ services[i].state # "Absent"
             /\ StartOk(i, services[i]) \/ StopOk(i, services[i])
    BY <2>2, <2>4, RegisteredRecord, WrittenKept
  <2> QED
    BY <2>1, <2>3, <2>4 DEF BootStart, ShutdownStop, registryVars, Inv, TypeInv, BootStopped
<1>4. CASE \E n \in Names : ReloadRemove(n) \/ ReloadAdd(n) \/ ReloadChange(n)
  BY <1>4, EntriesReload
<1>5. CASE \E p \in Pids : Reap(p)
  <2>1. PICK p \in Pids : Reap(p)
    BY <1>5
  <2>2. UNCHANGED next_id
    BY <2>1 DEF Reap
  <2>3. CASE UNCHANGED services
    BY <2>2, <2>3, NothingWritten
  <2>4. CASE /\ pids_map[p] # NoId
             /\ services' = [services EXCEPT ![pids_map[p]] =
                               Reaped(services[pids_map[p]], procs[p].exit)]
    <3> DEFINE i == pids_map[p]
               new == Reaped(services[i], procs[p].exit)
    <3>1. i \in Ids /\ services[i] \in ServiceRecord /\ procs[p].exit \in ExitReason
      BY <2>1, <2>4 DEF Reap, Zombies, Inv, TypeInv, RegistryOK
    <3>2. services[i].state # "Absent"
      BY <2>4, <3>1, ServiceAssumption DEF Inv, Supervised, EveryChildSupervised, LiveStates
    <3>3. /\ new.name = services[i].name /\ new.pending = services[i].pending
          /\ new.state = "Stopped"
      BY <3>1, ReapedType
    <3>4. services' = [services EXCEPT ![i] = new]
      BY <2>4
    <3> HIDE DEF i, new
    <3>5. \A j \in Ids : Kept(j)
      BY <3>1, <3>2, <3>3, <3>4 DEF Kept, Inv, TypeInv, RegistryOK
    <3> QED  BY <2>2, <3>5 DEF EntriesStep
  <2> QED  BY <2>1, <2>3, <2>4 DEF Reap, registryVars
<1>6. CASE \E i \in Ids : TickStopped(i)
  BY <1>6, EntriesTick
<1>7. CASE ReadControl
  BY <1>7, EntriesControl
<1>8. CASE WorldStep
  <2>1. UNCHANGED next_id
    BY <1>8 DEF WorldStep, SendSignal, SendCommand, SendInvalidFrame, ProcessExits, ProcessKilled,
       BecomeZombie, Adopt, TimerExpires, TimePasses, supervisorVars
  <2>2. CASE UNCHANGED services
    BY <2>1, <2>2, NothingWritten
  <2>3. CASE TimePasses
    <3>1. \A i \in Ids : Kept(i)
      BY <2>3 DEF TimePasses, Kept, Inv, TypeInv, RegistryOK, ServiceRecord
    <3> QED  BY <2>1, <3>1 DEF EntriesStep
  <2> QED
    BY <1>8, <2>2, <2>3 DEF WorldStep, SendSignal, SendCommand, SendInvalidFrame, ProcessExits,
       ProcessKilled, BecomeZombie, Adopt, TimerExpires
<1> QED
  BY <1>1, <1>2, <1>3, <1>4, <1>5, <1>6, <1>7, <1>8, Zenon
  DEF Next, SupervisorStep, Terminated

(***************************************************************************)
(* What a reload has marked for removal is removed, unless the second loop *)
(* of a later reload decides otherwise: no command, tick, reap or shutdown *)
(* lifts the mark.                                                         *)
(***************************************************************************)
THEOREM RemovalIsFinal == Spec => RemovalSticks
<1>1. Inv /\ [Next]_vars =>
        [\A i \in Ids :
           services[i].pending = "Remove" /\ services'[i].pending # "Remove"
             => services'[i].state = "Absent" \/ pc = "apply"]_vars
  <2> SUFFICES ASSUME Inv, [Next]_vars, NEW i \in Ids,
                      services[i].pending = "Remove", services'[i].pending # "Remove"
               PROVE  services'[i].state = "Absent" \/ pc = "apply"
    OBVIOUS
  <2>1. Kept(i) \/ Removed(i) \/ Added(i)
    BY EntriesNext DEF EntriesStep
  <2> QED  BY <2>1, NoServiceType DEF Kept, Removed, Added
<1> QED  BY <1>1, Invariance, PTL DEF Spec, RemovalSticks

-----------------------------------------------------------------------------
(* Names *)

(* What each loop knows about the names that it has yet to visit. *)
Indexed ==
  /\ pc = "boot" => Registered = {}
  /\ pc = "load" => \A i \in Registered : services[i].name \notin todo
  /\ pc = "remove" => \A i \in Registered : service_ids[services[i].name] = i
  /\ pc = "apply" => \A i \in Registered :
       services[i].name \in todo => service_ids[services[i].name] = i

NamesInv == OneServicePerName /\ Indexed

(* How the loops over names begin, go on and end. *)
LEMMA LoopSteps ==
  ASSUME [Next]_vars
  PROVE  \/ pc' \notin {"boot", "load", "remove", "apply"}
         \/ pc' = pc /\ todo' \subseteq todo /\ UNCHANGED service_ids
         \/ pc = "boot" /\ pc' = "load" /\ UNCHANGED services
         \/ pc' = "remove" /\ service_ids' = IdsByName /\ UNCHANGED services
         \/ pc = "remove" /\ pc' = "apply" /\ UNCHANGED <<services, service_ids>>
<1> USE DEF Exit, ReloadContinues, ReloadReturns, supervisorVars, tickFrame, AfterEvent, vars,
            reloadVars, registryVars
<1>1. CASE ReapDone \/ ShutdownDone
  BY <1>1 DEF ReapDone, ShutdownDone, ExitIfAllStopped
<1>2. CASE Boot \/ LoadDone \/ BootDone \/ EpollWait \/ LoopFails \/ ReadSignals \/ SignalsDone
  BY <1>2 DEF Boot, LoadDone, BootDone, EpollWait, LoopFails, ReadSignals, SignalsDone
<1>3. CASE ReloadRefused \/ ReloadBegin \/ ReloadRemoveDone \/ ReloadDone \/ SigChld \/ KillGroup
           \/ ReadTimer \/ TickDone \/ ReadControl
  BY <1>3 DEF ReloadRefused, ReloadBegin, ReloadRemoveDone, ReloadDone, SigChld, KillGroup,
              ReadTimer, TickDone, ReadControl
<1>4. CASE \E n \in Names : LoadService(n) \/ ReloadRemove(n) \/ ReloadAdd(n) \/ ReloadChange(n)
                            \/ ReloadUnchanged(n)
  BY <1>4 DEF LoadService, ReloadRemove, ReloadAdd, ReloadChange, ReloadUnchanged, PendAndStop
<1>5. CASE \E i \in Ids : BootStart(i) \/ ShutdownStop(i) \/ TickKill(i) \/ TickStopped(i)
  BY <1>5 DEF BootStart, ShutdownStop, TickKill, TickStopped
<1>6. CASE \/ \E p \in Pids : Reap(p)
           \/ \E sig \in {SIGINT, SIGTERM} : SigTerm(sig)
  BY <1>6 DEF Reap, SigTerm
<1>7. CASE WorldStep
  BY <1>7 DEF WorldStep, SendSignal, SendCommand, SendInvalidFrame, ProcessExits, ProcessKilled,
              BecomeZombie, Adopt, TimerExpires, TimePasses
<1>8. CASE Terminated \/ UNCHANGED vars
  BY <1>8 DEF Terminated
<1> QED
  BY <1>1, <1>2, <1>3, <1>4, <1>5, <1>6, <1>7, <1>8, Zenon DEF Next, SupervisorStep

(* The index reload_services takes leads from every name to its service. *)
LEMMA IndexComplete ==
  ASSUME Inv, OneServicePerName
  PROVE  \A i \in Registered : IdsByName[services[i].name] = i
<1> SUFFICES ASSUME NEW i \in Registered
             PROVE  IdsByName[services[i].name] = i
  OBVIOUS
<1>1. services[i].name \in Names
  BY DEF Registered, Inv, TypeInv, RegistryOK
<1>2. \A j \in Registered : services[j].name = services[i].name => j = i
  BY DEF OneServicePerName
<1> QED  BY <1>1, <1>2 DEF IdsByName

(* Every step keeps names unique and the loops' knowledge of them right. *)
LEMMA NamesStep ==
  ASSUME Inv, NamesInv, [Next]_vars
  PROVE  NamesInv'
<1>1. \A i \in Registered' :
        (i \in Registered /\ services'[i].name = services[i].name) \/ Added(i)
  BY EntriesNext, NoServiceType DEF EntriesStep, Kept, Removed, Registered
<1>2. ASSUME NEW i \in Registered', NEW j \in Registered, Added(i)
      PROVE  services'[i].name # services[j].name
  <2>1. PICK n \in todo :
          /\ services'[i].name = n
          /\ pc = "load" \/ (pc = "apply" /\ service_ids[n] = NoId)
    BY <1>2 DEF Added
  <2> QED  BY <2>1 DEF NamesInv, Indexed, Registered
<1>3. OneServicePerName'
  <2> SUFFICES ASSUME NEW i \in Registered', NEW j \in Registered',
                      services'[i].name = services'[j].name
               PROVE  i = j
    BY DEF OneServicePerName
  <2>1. CASE Added(i) /\ Added(j)
    BY <2>1 DEF Added
  <2> QED  BY <1>1, <1>2, <2>1 DEF NamesInv, OneServicePerName
<1>4. Indexed'
  <2>1. CASE pc' \notin {"boot", "load", "remove", "apply"}
    BY <2>1 DEF Indexed
  <2>2. CASE pc' = pc /\ todo' \subseteq todo /\ UNCHANGED service_ids
    <3>1. \A i \in Registered' : Added(i) =>
            pc \in {"load", "apply"} /\ services'[i].name \notin todo'
      BY DEF Added
    <3> QED  BY <1>1, <2>2, <3>1 DEF NamesInv, Indexed
  <2>3. CASE pc = "boot" /\ pc' = "load" /\ UNCHANGED services
    BY <2>3 DEF NamesInv, Indexed, Registered
  <2>4. CASE pc' = "remove" /\ service_ids' = IdsByName /\ UNCHANGED services
    BY <2>4, IndexComplete DEF NamesInv, Indexed, Registered
  <2>5. CASE pc = "remove" /\ pc' = "apply" /\ UNCHANGED <<services, service_ids>>
    BY <2>5 DEF NamesInv, Indexed, Registered
  <2> QED  BY <2>1, <2>2, <2>3, <2>4, <2>5, LoopSteps
<1> QED  BY <1>3, <1>4 DEF NamesInv

(***************************************************************************)
(* No two services of the registry have the same name, however reloads,    *)
(* failed or not, add and remove them.                                     *)
(***************************************************************************)
THEOREM NamesUnique == Spec => []OneServicePerName
<1>1. Init => NamesInv
  BY NoServiceType DEF Init, NamesInv, OneServicePerName, Indexed, Registered
<1>2. Inv /\ NamesInv /\ [Next]_vars => NamesInv'
  BY NamesStep
<1>3. NamesInv => OneServicePerName
  BY DEF NamesInv
<1> QED  BY <1>1, <1>2, <1>3, Invariance, PTL DEF Spec

-----------------------------------------------------------------------------
(* Commands and the status file their writers read *)

(* An id that was read under a name names that service or nothing. *)
Refers(i, name) == i < next_id /\ (i \in Registered => services[i].name = name)
WillRefer(i, name) == i < next_id' /\ (i \in Registered' => services'[i].name = name)

KnownInv ==
  /\ \A i \in Ids : status[i].state # "Absent" => Refers(i, status[i].name)
  /\ \A k \in 1 .. Len(fifo) : Decodes(fifo[k]) => Refers(fifo[k].id, fifo[k].name)

(* It keeps doing so, for an id is given to one service only. *)
LEMMA RefersKept ==
  ASSUME Inv, [Next]_vars, NEW i \in Ids, NEW name, Refers(i, name)
  PROVE  WillRefer(i, name)
<1>1. next_id \in Nat /\ i \in Nat
  BY NextIdType
<1>2. Kept(i) \/ Removed(i)
  BY <1>1, EntriesNext DEF EntriesStep, Added, Refers
<1>3. i < next_id'
  BY <1>1, EntriesNext DEF EntriesStep, Refers
<1>4. i \in Registered' => services'[i].name = name
  BY <1>2, NoServiceType DEF Kept, Removed, Registered, Refers
<1> QED  BY <1>3, <1>4 DEF WillRefer

(* What may happen to the status file and to the FIFO in a step. *)
LEMMA FileSteps ==
  ASSUME [Next]_vars
  PROVE  /\ \/ status' = status
            \/ status' = format_status(services')
            \/ status' = NoStatus
         /\ \/ fifo' = fifo
            \/ fifo # <<>> /\ fifo' = Tail(fifo)
            \/ fifo' = Append(fifo, InvalidFrame)
            \/ \E op \in Ops, i \in Ids :
                 /\ status[i].state # "Absent"
                 /\ fifo' = Append(fifo, [op |-> op, id |-> i, name |-> status[i].name])
<1> USE DEF Exit, reloadFrame, supervisorVars, tickFrame, worldVars, vars, flush_status_file
<1>1. CASE ReapDone \/ ShutdownDone
  BY <1>1 DEF ReapDone, ShutdownDone, ExitIfAllStopped
<1>2. CASE Boot \/ LoadDone \/ BootDone \/ EpollWait \/ LoopFails \/ ReadSignals \/ SignalsDone
  BY <1>2 DEF Boot, LoadDone, BootDone, EpollWait, LoopFails, ReadSignals, SignalsDone
<1>3. CASE ReloadRefused \/ ReloadBegin \/ ReloadRemoveDone \/ ReloadDone \/ SigChld \/ KillGroup
           \/ ReadTimer \/ TickDone \/ ReadControl
  BY <1>3 DEF ReloadRefused, ReloadBegin, ReloadRemoveDone, ReloadDone, SigChld, KillGroup,
              ReadTimer, TickDone, ReadControl
<1>4. CASE \E n \in Names : LoadService(n) \/ ReloadRemove(n) \/ ReloadAdd(n) \/ ReloadChange(n)
                            \/ ReloadUnchanged(n)
  BY <1>4 DEF LoadService, ReloadRemove, ReloadAdd, ReloadChange, ReloadUnchanged
<1>5. CASE \E i \in Ids : BootStart(i) \/ ShutdownStop(i) \/ TickKill(i) \/ TickStopped(i)
  BY <1>5 DEF BootStart, ShutdownStop, TickKill, TickStopped
<1>6. CASE \/ \E p \in Pids : Reap(p)
           \/ \E sig \in {SIGINT, SIGTERM} : SigTerm(sig)
  BY <1>6 DEF Reap, SigTerm
<1>7. CASE WorldStep
  BY <1>7 DEF WorldStep, SendSignal, SendCommand, SendInvalidFrame, ProcessExits, ProcessKilled,
              BecomeZombie, Adopt, TimerExpires, TimePasses
<1>8. CASE Terminated \/ UNCHANGED vars
  BY <1>8 DEF Terminated
<1> QED
  BY <1>1, <1>2, <1>3, <1>4, <1>5, <1>6, <1>7, <1>8, Zenon DEF Next, SupervisorStep

(* Every step keeps the ids in the status file and in the FIFO right. *)
LEMMA KnownStep ==
  ASSUME Inv, Inv', KnownInv, [Next]_vars
  PROVE  KnownInv'
<1>1. \A i \in Ids : status'[i].state # "Absent" => WillRefer(i, status'[i].name)
  <2>1. CASE status' = status
    BY <2>1, RefersKept DEF KnownInv
  <2>2. CASE status' = NoStatus
    BY <2>2, NoServiceType, StatusLineType DEF NoStatus
  <2>3. CASE status' = format_status(services')
    <3> SUFFICES ASSUME NEW i \in Ids, status'[i].state # "Absent"
                 PROVE  WillRefer(i, status'[i].name)
      OBVIOUS
    <3>1. services'[i] \in ServiceRecord
      BY DEF Inv, TypeInv, RegistryOK
    <3>2. services'[i].state # "Absent" /\ services'[i].name = status'[i].name
      BY <2>3, <3>1, StatusLineType DEF format_status
    <3>3. next_id' \in Nat /\ i \in Nat /\ FreshIds'
      BY SupervisorAssumption DEF Inv, TypeInv, ControlOK
    <3>4. i < next_id'
      BY <3>2, <3>3, NoServiceType DEF FreshIds
    <3> QED  BY <3>2, <3>4 DEF WillRefer
  <2> QED  BY <2>1, <2>2, <2>3, FileSteps
<1>2. ASSUME NEW k \in 1 .. Len(fifo), Decodes(fifo[k])
      PROVE  WillRefer(fifo[k].id, fifo[k].name)
  <2>1. fifo[k] \in ControlCommand
    BY DEF Inv, TypeInv, FifoOK
  <2>2. fifo[k].id \in Ids
    BY <1>2, <2>1 DEF ControlCommand, Decodes, InvalidFrame, ControlOps
  <2> QED  BY <1>2, <2>2, RefersKept DEF KnownInv
<1>3. \A k \in 1 .. Len(fifo') : Decodes(fifo'[k]) => WillRefer(fifo'[k].id, fifo'[k].name)
  <2>1. fifo \in Seq(ControlCommand)
    BY DEF Inv, TypeInv, FifoOK
  <2>2. CASE fifo' = fifo
    BY <1>2, <2>2
  <2>3. CASE fifo # <<>> /\ fifo' = Tail(fifo)
    <3>1. /\ Len(fifo') = Len(fifo) - 1
          /\ \A k \in 1 .. Len(fifo') : fifo'[k] = fifo[k + 1] /\ k + 1 \in 1 .. Len(fifo)
      BY <2>1, <2>3
    <3> QED  BY <1>2, <3>1
  <2>4. ASSUME NEW cmd, fifo' = Append(fifo, cmd),
               Decodes(cmd) => WillRefer(cmd.id, cmd.name)
        PROVE  \A k \in 1 .. Len(fifo') : Decodes(fifo'[k]) => WillRefer(fifo'[k].id, fifo'[k].name)
    <3>1. \A k \in 1 .. Len(fifo') : fifo'[k] = cmd \/ (k \in 1 .. Len(fifo) /\ fifo'[k] = fifo[k])
      BY <2>1, <2>4
    <3> QED  BY <1>2, <2>4, <3>1
  <2>5. CASE fifo' = Append(fifo, InvalidFrame)
    BY <2>4, <2>5 DEF Decodes, InvalidFrame, ControlOps
  <2>6. CASE \E op \in Ops, i \in Ids :
               /\ status[i].state # "Absent"
               /\ fifo' = Append(fifo, [op |-> op, id |-> i, name |-> status[i].name])
    <3>1. PICK op \in Ops, i \in Ids :
            /\ status[i].state # "Absent"
            /\ fifo' = Append(fifo, [op |-> op, id |-> i, name |-> status[i].name])
      BY <2>6
    <3>2. WillRefer(i, status[i].name)
      BY <3>1, RefersKept DEF KnownInv
    <3> QED  BY <2>4, <3>1, <3>2
  <2> QED  BY <2>2, <2>3, <2>5, <2>6, FileSteps
<1> QED  BY <1>1, <1>3 DEF KnownInv, Refers, WillRefer

(***************************************************************************)
(* A command acts on the service whose name its writer looked up, or on    *)
(* none, however old the status file was and whatever reloads came between.*)
(***************************************************************************)
THEOREM CommandsSafe == Spec => []CommandsReachTheirService
<1>1. Init => KnownInv
  BY NoServiceType, StatusLineType DEF Init, KnownInv, NoStatus
<1>2. Inv /\ Inv' /\ KnownInv /\ [Next]_vars => KnownInv'
  BY KnownStep
<1>3. KnownInv => CommandsReachTheirService
  BY DEF KnownInv, CommandsReachTheirService, Refers
<1> QED  BY <1>1, <1>2, <1>3, Invariance, PTL DEF Spec
=============================================================================

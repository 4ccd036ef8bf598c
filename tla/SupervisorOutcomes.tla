------------------------- MODULE SupervisorOutcomes -------------------------
(***************************************************************************)
(* What the handlers of the event loop leave behind: a status file that    *)
(* shows the registry, process groups without survivors, and a registry    *)
(* that is what the configuration says.                                    *)
(***************************************************************************)
EXTENDS SupervisorSafety

USE DEF Ids, NoId

-----------------------------------------------------------------------------
(* The status file *)

(* It is current whenever the loop is between two handlers. *)
StatusInv == pc \in {"wait", "dispatch"} => status = format_status(services)

(* Where the loop comes to be between two handlers. *)
LEMMA BetweenHandlers ==
  ASSUME [Next]_vars, pc' \in {"wait", "dispatch"}
  PROVE  \/ BootDone \/ EpollWait \/ SignalsDone \/ TickDone \/ ReadControl \/ WorldStep
         \/ UNCHANGED vars
<1> USE DEF Exit, ReloadContinues, ReloadReturns, tickFrame
<1>1. CASE ReapDone \/ ShutdownDone \/ Boot \/ LoadDone \/ LoopFails \/ ReadSignals
  BY <1>1 DEF ReapDone, ShutdownDone, ExitIfAllStopped, Boot, LoadDone, LoopFails, ReadSignals
<1>2. CASE \/ ReloadRefused \/ ReloadBegin \/ ReloadRemoveDone \/ ReloadDone \/ SigChld
           \/ KillGroup \/ ReadTimer
  BY <1>2 DEF ReloadRefused, ReloadBegin, ReloadRemoveDone, ReloadDone, SigChld, KillGroup,
     ReadTimer
<1>3. CASE \E n \in Names : LoadService(n) \/ ReloadRemove(n) \/ ReloadAdd(n) \/ ReloadChange(n)
                            \/ ReloadUnchanged(n)
  BY <1>3 DEF LoadService, ReloadRemove, ReloadAdd, ReloadChange, ReloadUnchanged, PendAndStop
<1>4. CASE \E i \in Ids : BootStart(i) \/ ShutdownStop(i) \/ TickKill(i) \/ TickStopped(i)
  BY <1>4 DEF BootStart, ShutdownStop, TickKill, TickStopped
<1>5. CASE \/ \E p \in Pids : Reap(p)
           \/ \E sig \in {SIGINT, SIGTERM} : SigTerm(sig)
  BY <1>5 DEF Reap, SigTerm
<1>6. CASE Terminated
  BY <1>6 DEF Terminated
<1> QED
  BY <1>1, <1>2, <1>3, <1>4, <1>5, <1>6, Zenon DEF Next, SupervisorStep

(* The status file does not show how time passes. *)
LEMMA TimeNotShown ==
  ASSUME Inv, TimePasses
  PROVE  format_status(services)' = format_status(services)
<1>1. \A i \in Ids : StatusLine(services'[i]) = StatusLine(services[i])
  BY DEF TimePasses, StatusLine, Inv, TypeInv, RegistryOK, ServiceRecord
<1> QED  BY <1>1 DEF format_status

(* A handler that changes the registry ends with a flush. *)
LEMMA StatusStep ==
  ASSUME "status" \notin Faults, Inv, StatusInv, [Next]_vars
  PROVE  StatusInv'
<1> SUFFICES ASSUME pc' \in {"wait", "dispatch"}
             PROVE  status' = format_status(services')
  BY DEF StatusInv
<1>1. CASE BootDone \/ SignalsDone \/ TickDone
  BY <1>1 DEF BootDone, SignalsDone, TickDone, flush_status_file
<1>2. CASE EpollWait \/ UNCHANGED vars
  BY <1>2 DEF EpollWait, vars, registryVars, StatusInv
<1>3. CASE ReadControl
  BY <1>3 DEF ReadControl, flush_status_file, registryVars, StatusInv
<1>4. CASE WorldStep
  <2>1. UNCHANGED <<pc, status>> /\ (UNCHANGED services \/ TimePasses)
    BY <1>4 DEF WorldStep, SendSignal, SendCommand, SendInvalidFrame, ProcessExits, ProcessKilled,
       BecomeZombie, Adopt, TimerExpires, TimePasses, supervisorVars
  <2> QED  BY <2>1, TimeNotShown DEF StatusInv
<1> QED  BY <1>1, <1>2, <1>3, <1>4, BetweenHandlers

(***************************************************************************)
(* Unless a write of the status file fails, it shows the registry as it is *)
(* whenever the event loop waits: every handler that starts, stops, drops  *)
(* or reaps a service flushes before the loop sleeps again.                *)
(***************************************************************************)
THEOREM StatusIsCurrent ==
  ASSUME "status" \notin Faults
  PROVE  Spec => []StatusCurrent
<1>1. Init => StatusInv
  BY DEF Init, StatusInv
<1>2. Inv /\ StatusInv /\ [Next]_vars => StatusInv'
  BY StatusStep
<1>3. StatusInv => StatusCurrent
  BY DEF StatusInv, StatusCurrent
<1> QED  BY <1>1, <1>2, <1>3, Invariance, PTL DEF Spec

-----------------------------------------------------------------------------
(* Process groups *)

GroupsNamed == \A q \in Pids : procs[q].grp # NoId => procs[q].pgid \in Pids
OrphanInv == OrphansCleaned /\ GroupsNamed

(* Steps after which every process is in the group it was in. *)
SameGroups ==
  \A p \in Pids :
    /\ procs'[p].pgid = procs[p].pgid
    /\ procs'[p].svc = procs[p].svc
    /\ procs'[p].grp = procs[p].grp
    /\ procs'[p].st = "alive" => procs[p].st = "alive"

(* They leave no orphan, unless they abandon the cleanup. *)
LEMMA OrphansKept ==
  ASSUME OrphanInv, SameGroups, pc # "killgroup" \/ UNCHANGED <<pc, reaped>>
  PROVE  OrphanInv'
BY DEF OrphanInv, OrphansCleaned, GroupsNamed, SameGroups

(* A new process group gets a number no group has. *)
LEMMA OrphansStarted ==
  ASSUME Inv, OrphanInv, NEW i \in Ids, NEW svc, StartOk(i, svc), pc # "killgroup"
  PROVE  OrphanInv'
<1>1. PICK p \in FreePids : procs' = [procs EXCEPT ![p] = ServiceProcess(p, i, svc.config)]
  BY DEF StartOk
<1>2. p \in Pids /\ \A q \in Pids : procs[q].pgid # p
  BY DEF FreePids
<1>3. /\ ServiceProcess(p, i, svc.config).pgid = p
      /\ ServiceProcess(p, i, svc.config).svc = i
      /\ ServiceProcess(p, i, svc.config).grp = i
  BY DEF ServiceProcess, NoProcess
<1>4. /\ procs'[p] = ServiceProcess(p, i, svc.config)
      /\ \A q \in Pids : q # p => procs'[q] = procs[q]
  BY <1>1, <1>2 DEF Inv, TypeInv, RegistryOK
<1> QED
  BY <1>2, <1>3, <1>4 DEF OrphanInv, OrphansCleaned, GroupsNamed

(* A descendant that is adopted is in the group of its parent, or leads a  *)
(* group that is none of the supervisor's.                                 *)
LEMMA OrphansAdopted ==
  ASSUME Inv, OrphanInv, NEW p \in Pids, NEW q \in Pids, Adopt(p, q)
  PROVE  OrphanInv'
<1>1. PICK orphan \in {GroupMember(procs[q].pgid, procs[q].grp), GroupLeader(p)} :
        procs' = [procs EXCEPT ![p] = orphan]
  BY DEF Adopt
<1>2. /\ \/ orphan.pgid = procs[q].pgid /\ orphan.grp = procs[q].grp
         \/ orphan.grp = NoId
      /\ orphan.svc = NoId
  BY <1>1 DEF GroupLeader, GroupMember, NoProcess
<1>3. \A r \in Pids : procs[r].pgid # p
  BY DEF Adopt, FreePids
<1>4. procs'[p] = orphan /\ \A r \in Pids : r # p => procs'[r] = procs[r]
  BY <1>1 DEF Inv, TypeInv, RegistryOK
<1>5. procs[q].st = "alive" /\ UNCHANGED <<pc, reaped>>
  BY DEF Adopt, supervisorVars
<1>6. GroupsNamed'
  BY <1>2, <1>4 DEF OrphanInv, GroupsNamed
<1>7. OrphansCleaned'
  <2> SUFFICES ASSUME NEW r \in Pids, procs'[r].st = "alive", procs'[r].grp # NoId
               PROVE  \/ procs'[procs'[r].pgid].svc = procs'[r].grp
                      \/ pc' = "killgroup" /\ reaped' = procs'[r].pgid
    BY DEF OrphansCleaned
  <2>1. PICK old \in Pids : /\ procs[old].st = "alive" /\ procs[old].grp = procs'[r].grp
                            /\ procs[old].pgid = procs'[r].pgid
    BY <1>2, <1>4, <1>5
  <2>2. procs[old].pgid \in Pids /\ procs[old].pgid # p
    BY <1>3, <2>1 DEF OrphanInv, GroupsNamed
  <2> QED  BY <1>4, <1>5, <2>1, <2>2 DEF OrphanInv, OrphansCleaned
<1> QED  BY <1>6, <1>7 DEF OrphanInv

(* Reaping a service process begins the cleanup of its group; a process     *)
(* that belongs to no service leads no group of a service.                  *)
LEMMA OrphansReap ==
  ASSUME Inv, OrphanInv, NEW p \in Pids, Reap(p)
  PROVE  OrphanInv'
<1>1. /\ procs'[p] = NoProcess /\ \A q \in Pids : q # p => procs'[q] = procs[q]
      /\ NoProcess.grp = NoId
  BY DEF Reap, Inv, TypeInv, RegistryOK, NoProcess
<1>2. GroupsNamed'
  BY <1>1 DEF OrphanInv, GroupsNamed
<1>3. OrphansCleaned'
  <2> SUFFICES ASSUME NEW q \in Pids, procs'[q].st = "alive", procs'[q].grp # NoId
               PROVE  \/ procs'[procs'[q].pgid].svc = procs'[q].grp
                      \/ pc' = "killgroup" /\ reaped' = procs'[q].pgid
    BY DEF OrphansCleaned
  <2>1. q # p /\ procs'[q] = procs[q] /\ procs[q].pgid \in Pids
    BY <1>1 DEF OrphanInv, GroupsNamed
  <2>2. procs[procs[q].pgid].svc = procs[q].grp
    BY <2>1 DEF Reap, OrphanInv, OrphansCleaned
  <2>3. CASE procs[q].pgid # p
    BY <1>1, <2>1, <2>2, <2>3
  <2>4. CASE procs[q].pgid = p
    <3>1. pids_map[p] # NoId
      BY <2>1, <2>2, <2>4 DEF Inv, Supervised, EveryChildSupervised
    <3> QED  BY <2>1, <2>4, <3>1 DEF Reap
  <2> QED  BY <2>3, <2>4
<1> QED  BY <1>2, <1>3 DEF OrphanInv

(* The cleanup spares no member of the group. *)
LEMMA OrphansKilled ==
  ASSUME "group" \notin Faults, Inv, OrphanInv, KillGroup
  PROVE  OrphanInv'
<1>1. \A q \in Pids : procs'[q] = IF procs[q].pgid = reaped THEN Kill(procs[q]) ELSE procs[q]
  BY DEF KillGroup
<1>2. \A q \in Pids : procs[q] \in Process
  BY DEF Inv, TypeInv, RegistryOK
<1>3. SameGroups
  BY <1>1, <1>2 DEF SameGroups, Kill, Process
<1>4. \A q \in Pids : procs'[q].st = "alive" => procs[q].pgid # reaped
  BY <1>1, <1>2 DEF Kill, Process
<1> QED  BY <1>3, <1>4 DEF OrphanInv, OrphansCleaned, GroupsNamed, SameGroups

(* Any other step of the supervisor. *)
LEMMA OrphansSupervisor ==
  ASSUME "group" \notin Faults, Inv, OrphanInv, SupervisorStep
  PROVE  OrphanInv'
<1>1. CASE UNCHANGED procs /\ pc # "killgroup"
  BY <1>1, OrphansKept DEF SameGroups
<1>2. ASSUME NEW i \in Ids, NEW svc, StartOk(i, svc), pc # "killgroup"
      PROVE  OrphanInv'
  BY <1>2, OrphansStarted
<1>3. ASSUME NEW i, NEW svc, StopOk(i, svc), pc # "killgroup"
      PROVE  OrphanInv'
  <2>1. SameGroups
    BY <1>3 DEF StopOk, SameGroups, Inv, TypeInv, RegistryOK, Process
  <2> QED  BY <1>3, <2>1, OrphansKept
<1>4. ASSUME NEW i, NEW svc, Store(i, svc), pc # "killgroup"
      PROVE  OrphanInv'
  BY <1>1, <1>4 DEF Store
<1>5. CASE \E p \in Pids : Reap(p)
  BY <1>5, OrphansReap
<1>6. CASE KillGroup
  BY <1>6, OrphansKilled
<1>7. CASE \E i \in Ids : TickKill(i)
  <2>1. \A p \in Pids : procs'[p] = procs[p] \/ procs'[p] = Kill(procs[p])
    BY <1>7 DEF TickKill, Inv, TypeInv, RegistryOK
  <2>2. \A p \in Pids : procs[p] \in Process
    BY DEF Inv, TypeInv, RegistryOK
  <2>3. SameGroups
    BY <2>1, <2>2 DEF SameGroups, Kill, Process
  <2> QED  BY <1>7, <2>3, OrphansKept DEF TickKill
<1>8. CASE \E n \in Names : LoadService(n) \/ ReloadRemove(n) \/ ReloadAdd(n) \/ ReloadChange(n)
                            \/ ReloadUnchanged(n)
  <2>1. /\ pc # "killgroup"
        /\ \/ UNCHANGED procs
           \/ \E i, svc : StopOk(i, svc) \/ Store(i, svc)
           \/ \E svc : StartOk(nextval, svc)
           \/ \E i \in Registered : \E svc : StartOk(i, svc)
    BY <1>8 DEF LoadService, ReloadRemove, ReloadAdd, ReloadChange, ReloadUnchanged, PendAndStop
  <2>2. nextval \in Ids /\ Registered \subseteq Ids
    BY NextIdType DEF nextval, Registered
  <2> QED  BY <1>1, <1>2, <1>3, <1>4, <2>1, <2>2
<1>9. CASE \E i \in Ids : BootStart(i) \/ ShutdownStop(i) \/ TickStopped(i)
  <2>1. /\ pc # "killgroup"
        /\ \/ UNCHANGED procs
           \/ \E i \in Ids : \E svc : StartOk(i, svc) \/ StopOk(i, svc) \/ Store(i, svc)
    BY <1>9 DEF BootStart, ShutdownStop, TickStopped
  <2> QED  BY <1>1, <1>2, <1>3, <1>4, <2>1
<1>10. CASE ReadControl
  <2>1. CASE UNCHANGED procs
    BY <1>1, <1>10, <2>1 DEF ReadControl
  <2>2. CASE ~UNCHANGED procs
    <3> DEFINE i == Head(fifo).id
    <3>1. /\ pc # "killgroup" /\ Decodes(Head(fifo))
          /\ \E svc : StartOk(i, svc) \/ StopOk(i, svc)
      BY <1>10, <2>2 DEF ReadControl, apply_control_op, ControlStop, ControlStart, ControlRestart,
         ControlIgnored, Store
    <3>2. i \in Ids
      <4>1. Head(fifo) \in ControlCommand
        BY <1>10, HeadTailProperties DEF ReadControl, Inv, TypeInv, FifoOK
      <4> QED  BY <3>1, <4>1 DEF ControlCommand, Decodes, InvalidFrame, ControlOps
    <3> HIDE DEF i
    <3> QED  BY <1>2, <1>3, <3>1, <3>2
  <2> QED  BY <2>1, <2>2
<1>11. CASE \/ Boot \/ LoadDone \/ BootDone \/ EpollWait \/ LoopFails \/ ReadSignals
            \/ SignalsDone \/ ReloadRefused \/ ReloadBegin \/ ReloadRemoveDone \/ ReloadDone
            \/ SigChld \/ ReapDone \/ (\E sig \in {SIGINT, SIGTERM} : SigTerm(sig))
            \/ ShutdownDone \/ ReadTimer \/ TickDone
  BY <1>1, <1>11 DEF Boot, LoadDone, BootDone, EpollWait, LoopFails, ReadSignals, SignalsDone,
     ReloadRefused, ReloadBegin, ReloadRemoveDone, ReloadDone, SigChld, ReapDone, SigTerm,
     ShutdownDone, ReadTimer, TickDone
<1> QED
  BY <1>5, <1>6, <1>7, <1>8, <1>9, <1>10, <1>11, Zenon DEF SupervisorStep

(* Kernel and users. *)
LEMMA OrphansWorld ==
  ASSUME Inv, OrphanInv, WorldStep
  PROVE  OrphanInv'
<1>1. UNCHANGED <<pc, reaped>>
  BY DEF WorldStep, SendSignal, SendCommand, SendInvalidFrame, ProcessExits, ProcessKilled,
     BecomeZombie, Adopt, TimerExpires, TimePasses, supervisorVars
<1>2. CASE \E p, q \in Pids : Adopt(p, q)
  BY <1>2, OrphansAdopted
<1>3. ASSUME NEW p \in Pids, NEW exit, BecomeZombie(p, exit)
      PROVE  SameGroups
  BY <1>3 DEF BecomeZombie, SameGroups, Inv, TypeInv, RegistryOK, Process
<1>4. CASE TimePasses
  <2>1. SameGroups
    BY <1>4 DEF TimePasses, SameGroups, Inv, TypeInv, RegistryOK, Process
  <2> QED  BY <1>1, <2>1, OrphansKept
<1>5. CASE UNCHANGED procs
  <2>1. SameGroups
    BY <1>5 DEF SameGroups
  <2> QED  BY <1>1, <2>1, OrphansKept
<1> QED
  BY <1>1, <1>2, <1>3, <1>4, <1>5, OrphansKept DEF WorldStep, SendSignal, SendCommand, SendInvalidFrame,
     ProcessExits, ProcessKilled, TimerExpires

(***************************************************************************)
(* Unless the kill of a group fails, handle_sigchld leaves no live process *)
(* in the group of a service whose process it has reaped: the number of a  *)
(* group is not reused while the group has a member, so the kill that      *)
(* follows the waitpid reaches every member that is left.                  *)
(***************************************************************************)
THEOREM NoOrphanSurvives ==
  ASSUME "group" \notin Faults
  PROVE  Spec => []OrphansCleaned
<1>1. Init => OrphanInv
  BY DEF Init, OrphanInv, OrphansCleaned, GroupsNamed, NoProcess
<1>2. Inv /\ OrphanInv /\ [Next]_vars => OrphanInv'
  <2>1. CASE UNCHANGED vars
    BY <2>1 DEF vars, OrphanInv, OrphansCleaned, GroupsNamed
  <2> QED  BY <2>1, OrphansSupervisor, OrphansWorld DEF Next, Terminated
<1>3. OrphanInv => OrphansCleaned
  BY DEF OrphanInv
<1> QED  BY <1>1, <1>2, <1>3, Invariance, PTL DEF Spec

-----------------------------------------------------------------------------
(* Reload *)

Leaving(i) == services[i].pending = "Remove" /\ services[i].state \in LiveStates

(* What the first loop has done: a service the new configuration lacks is   *)
(* gone or on its way out once it has been visited.  It visits no other,    *)
(* so that the index stays right for the names that are left to visit and   *)
(* for those of the second loop.                                            *)
RemoveLoop ==
  pc = "remove" =>
    /\ \A n \in todo : new_cfg[n] = None
    /\ \A i \in Registered : new_cfg[services[i].name] = None =>
         services[i].name \in todo \/ Leaving(i)

(* What the second loop has done: a name it has visited has a service with  *)
(* the new definition.                                                      *)
ApplyLoop ==
  pc = "apply" =>
    /\ \A i \in Registered : new_cfg[services[i].name] = None => Leaving(i)
    /\ \A n \in Defined(new_cfg) \ todo : \E i \in Registered :
         services[i].name = n /\ services[i].config = new_cfg[n]

(* The ids reload_services looked up are those of the services it means. *)
IndexRight ==
  pc \in {"remove", "apply"} =>
    \A n \in Names :
      service_ids[n] # NoId /\ (n \in todo \/ new_cfg[n] # None) =>
        service_ids[n] \in Registered /\ services[service_ids[n]].name = n

ReloadInv == NamesInv /\ RemoveLoop /\ ApplyLoop /\ IndexRight

(* The steps of a reload, and those that may come between them. *)
LEMMA ReloadSteps ==
  ASSUME [Next]_vars, pc' \in {"remove", "apply"}
  PROVE  \/ ReloadBegin \/ ReloadRemoveDone
         \/ \E n \in Names : \/ ReloadRemove(n) \/ ReloadAdd(n) \/ ReloadChange(n)
                             \/ ReloadUnchanged(n)
         \/ WorldStep
         \/ UNCHANGED vars
<1> USE DEF Exit, ReloadReturns, tickFrame, AfterEvent
<1>1. CASE \/ ReapDone \/ ShutdownDone \/ Boot \/ LoadDone \/ BootDone \/ EpollWait \/ LoopFails
           \/ ReadSignals \/ SignalsDone
  BY <1>1 DEF ReapDone, ShutdownDone, ExitIfAllStopped, Boot, LoadDone, BootDone, EpollWait,
     LoopFails, ReadSignals, SignalsDone
<1>2. CASE ReloadRefused \/ ReloadDone \/ SigChld \/ KillGroup \/ ReadTimer \/ TickDone \/ ReadControl
  BY <1>2 DEF ReloadRefused, ReloadDone, SigChld, KillGroup, ReadTimer, TickDone, ReadControl
<1>3. CASE \/ \E n \in Names : LoadService(n)
           \/ \E i \in Ids : BootStart(i) \/ ShutdownStop(i) \/ TickKill(i) \/ TickStopped(i)
  BY <1>3 DEF LoadService, BootStart, ShutdownStop, TickKill, TickStopped
<1>4. CASE \/ \E p \in Pids : Reap(p)
           \/ \E sig \in {SIGINT, SIGTERM} : SigTerm(sig)
  BY <1>4 DEF Reap, SigTerm
<1>5. CASE Terminated
  BY <1>5 DEF Terminated
<1> QED
  BY <1>1, <1>2, <1>3, <1>4, <1>5, Zenon DEF Next, SupervisorStep

(* Steps between those of a reload change nothing it relies on. *)
LEMMA ReloadUndisturbed ==
  ASSUME Inv, ReloadInv, WorldStep \/ UNCHANGED vars
  PROVE  RemoveLoop' /\ ApplyLoop' /\ IndexRight'
<1>1. UNCHANGED <<pc, todo, new_cfg, service_ids>> /\ (UNCHANGED services \/ TimePasses)
  BY DEF WorldStep, SendSignal, SendCommand, SendInvalidFrame, ProcessExits, ProcessKilled,
     BecomeZombie, Adopt, TimerExpires, TimePasses, supervisorVars, reloadVars, vars, registryVars
<1>2. \A i \in Ids : /\ services'[i].state = services[i].state
                     /\ services'[i].name = services[i].name
                     /\ services'[i].config = services[i].config
                     /\ services'[i].pending = services[i].pending
  <2>1. CASE TimePasses
    BY <2>1 DEF TimePasses, Inv, TypeInv, RegistryOK, ServiceRecord
  <2> QED  BY <1>1, <2>1
<1>3. Registered' = Registered /\ Registered \subseteq Ids
  BY <1>2 DEF Registered
<1>4. \A i \in Registered : Leaving(i)' = Leaving(i)
  BY <1>2, <1>3 DEF Leaving
<1>5. RemoveLoop'
  BY <1>1, <1>2, <1>3, <1>4 DEF ReloadInv, RemoveLoop
<1>6. ApplyLoop'
  BY <1>1, <1>2, <1>3, <1>4 DEF ReloadInv, ApplyLoop, Defined
<1>7. IndexRight'
  BY <1>1, <1>2, <1>3 DEF ReloadInv, IndexRight
<1> QED  BY <1>5, <1>6, <1>7

(* The index is taken of the registry as it is. *)
LEMMA ReloadBegins ==
  ASSUME Inv, ReloadInv, ReloadBegin
  PROVE  RemoveLoop' /\ ApplyLoop' /\ IndexRight'
<1>1. /\ pc' = "remove" /\ UNCHANGED services /\ service_ids' = IdsByName
      /\ todo' = {n \in Names : service_ids'[n] # NoId /\ new_cfg'[n] = None}
  BY DEF ReloadBegin, registryVars
<1>2. \A i \in Registered : IdsByName[services[i].name] = i /\ services[i].name \in Names /\ i # NoId
  BY IndexComplete DEF ReloadInv, NamesInv, Registered, Inv, TypeInv, RegistryOK
<1>3. \A n \in Names : IdsByName[n] # NoId =>
        IdsByName[n] \in Registered /\ services[IdsByName[n]].name = n
  BY DEF IdsByName
<1>4. Registered' = Registered
  BY <1>1 DEF Registered
<1>5. RemoveLoop'
  BY <1>1, <1>2, <1>4 DEF RemoveLoop
<1>6. IndexRight'
  BY <1>1, <1>3, <1>4 DEF IndexRight
<1> QED  BY <1>1, <1>5, <1>6 DEF ApplyLoop

(* First loop: one service the new configuration lacks. *)
LEMMA ReloadRemoves ==
  ASSUME Inv, ReloadInv, NEW n \in Names, ReloadRemove(n), pc' \in {"remove", "apply"}
  PROVE  RemoveLoop' /\ ApplyLoop' /\ IndexRight'
<1>1. /\ pc = "remove" /\ pc' = "remove" /\ n \in todo /\ todo' = todo \ {n}
      /\ UNCHANGED <<service_ids, new_cfg>>
  BY DEF ReloadRemove, PendAndStop, ReloadContinues, ReloadReturns
<1>2. PICK i \in Ids : i = service_ids[n]
  BY <1>1 DEF Inv, TypeInv, ControlOK, LoopsDefined
<1>3. /\ i \in Registered /\ services[i].name = n /\ new_cfg[n] = None
      /\ services[i] \in ServiceRecord /\ services[i].config \in Configs
  BY <1>1, <1>2, RegisteredRecord DEF ReloadInv, IndexRight, RemoveLoop, Registered
<1>4. PICK new : /\ services' = [services EXCEPT ![i] = new]
                 /\ \/ new.state = "Absent"
                    \/ /\ new.pending = "Remove" /\ new.state \in LiveStates
                       /\ new.name = n
  <2> DEFINE marked == [services[i] EXCEPT !.pending = "Remove"]
  <2>1. /\ marked \in ServiceRecord /\ marked.pending = "Remove" /\ marked.name = n
        /\ marked.state = services[i].state /\ marked.config \in Configs
    BY <1>3 DEF ServiceRecord, PendingActions
  <2>2. /\ StopRequested(marked).pending = "Remove" /\ StopRequested(marked).name = n
        /\ StopRequested(marked).state = "Stopping"
    BY <2>1, StopRequestedType
  <2>3. \/ Store(i, NoService)
        \/ StopOk(i, marked)
        \/ services[i].state \in LiveStates /\ Store(i, marked)
    BY <1>2 DEF ReloadRemove, PendAndStop, LiveStates
  <2> HIDE DEF marked
  <2> QED  BY <2>1, <2>2, <2>3, NoServiceType DEF Store, StopOk, LiveStates
<1>5. /\ services'[i] = new /\ \A j \in Ids : j # i => services'[j] = services[j]
  BY <1>4 DEF Inv, TypeInv, RegistryOK
<1>6. \A j \in Registered' : j = i \/ (j \in Registered /\ services'[j] = services[j])
  BY <1>5 DEF Registered
<1>7. RemoveLoop'
  <2>1. \A m \in todo' : new_cfg'[m] = None
    BY <1>1 DEF ReloadInv, RemoveLoop
  <2>2. ASSUME NEW j \in Registered', new_cfg[services'[j].name] = None
        PROVE  services'[j].name \in todo' \/ Leaving(j)'
    <3>1. CASE j = i
      BY <1>4, <1>5, <3>1 DEF Registered, Leaving
    <3>2. CASE j # i
      <4>1. j \in Registered /\ services'[j] = services[j]
        BY <1>6, <3>2
      <4>2. services[j].name # n
        BY <1>3, <3>2, <4>1 DEF ReloadInv, NamesInv, OneServicePerName
      <4> QED  BY <1>1, <2>2, <4>1, <4>2 DEF ReloadInv, RemoveLoop, Leaving
    <3> QED  BY <3>1, <3>2
  <2> QED  BY <1>1, <2>1, <2>2 DEF RemoveLoop
<1>8. IndexRight'
  <2> SUFFICES ASSUME NEW m \in Names, service_ids[m] # NoId, m \in todo' \/ new_cfg[m] # None
               PROVE  service_ids[m] \in Registered' /\ services'[service_ids[m]].name = m
    BY <1>1 DEF IndexRight
  <2>1. m # n
    BY <1>1, <1>3
  <2>2. service_ids[m] \in Registered /\ services[service_ids[m]].name = m
    BY <1>1 DEF ReloadInv, IndexRight
  <2>3. service_ids[m] # i /\ service_ids[m] \in Ids
    BY <1>3, <2>1, <2>2 DEF Registered
  <2> QED  BY <1>5, <2>2, <2>3 DEF Registered
<1> QED  BY <1>1, <1>7, <1>8 DEF ApplyLoop

(* Between the loops. *)
LEMMA ReloadTurns ==
  ASSUME Inv, ReloadInv, ReloadRemoveDone
  PROVE  RemoveLoop' /\ ApplyLoop' /\ IndexRight'
<1>1. /\ pc = "remove" /\ todo = {} /\ pc' = "apply" /\ todo' = Defined(new_cfg)
      /\ UNCHANGED <<services, service_ids, new_cfg>>
  BY DEF ReloadRemoveDone, registryVars
<1>2. Registered' = Registered
  BY <1>1 DEF Registered
<1>3. ApplyLoop'
  BY <1>1, <1>2 DEF ReloadInv, RemoveLoop, ApplyLoop, Leaving, Defined
<1>4. IndexRight'
  BY <1>1, <1>2 DEF ReloadInv, IndexRight, Defined
<1> QED  BY <1>1, <1>3, <1>4 DEF RemoveLoop

(* Second loop: after the visit of a name there is a service under it that  *)
(* has the new definition, and no other was written.                        *)
Visited(n, i) ==
  /\ pc = "apply" /\ pc' = "apply" /\ n \in todo /\ todo' = todo \ {n}
  /\ UNCHANGED <<service_ids, new_cfg>>
  /\ i \in Registered => services[i].name = n
  /\ i \in Registered' /\ services'[i].name = n /\ services'[i].config = new_cfg[n]
  /\ \A j \in Ids : j # i => services'[j] = services[j]

(* Such a visit brings the second loop on. *)
LEMMA ReloadVisits ==
  ASSUME Inv, ReloadInv, NEW n \in Names, NEW i \in Ids, Visited(n, i)
  PROVE  RemoveLoop' /\ ApplyLoop' /\ IndexRight'
<1> USE DEF Visited
<1>1. new_cfg[n] # None
  BY DEF Inv, TypeInv, ControlOK, LoopsDefined, Defined
<1>2. \A j \in Ids : j # i => (j \in Registered' <=> j \in Registered)
  BY DEF Registered
<1>3. ApplyLoop'
  <2>1. ASSUME NEW j \in Registered', new_cfg[services'[j].name] = None
        PROVE  Leaving(j)'
    <3>1. j # i /\ j \in Ids
      BY <1>1, <2>1 DEF Registered
    <3> QED  BY <1>2, <2>1, <3>1 DEF ReloadInv, ApplyLoop, Leaving
  <2>2. ASSUME NEW m \in Defined(new_cfg), m \notin todo'
        PROVE  \E j \in Registered' : services'[j].name = m /\ services'[j].config = new_cfg[m]
    <3>1. CASE m = n
      BY <3>1
    <3>2. CASE m # n
      <4>1. PICK j \in Registered : services[j].name = m /\ services[j].config = new_cfg[m]
        BY <2>2, <3>2 DEF ReloadInv, ApplyLoop
      <4>2. j # i /\ j \in Ids
        BY <3>2, <4>1 DEF Registered
      <4> QED  BY <1>2, <4>1, <4>2
    <3> QED  BY <3>1, <3>2
  <2> QED  BY <2>1, <2>2 DEF ApplyLoop, Defined
<1>4. IndexRight'
  <2> SUFFICES ASSUME NEW m \in Names, service_ids[m] # NoId, m \in todo' \/ new_cfg[m] # None
               PROVE  service_ids[m] \in Registered' /\ services'[service_ids[m]].name = m
    BY DEF IndexRight
  <2>1. /\ service_ids[m] \in Registered /\ services[service_ids[m]].name = m
        /\ service_ids[m] \in Ids
    BY DEF ReloadInv, IndexRight, Registered
  <2> QED  BY <1>2, <2>1
<1> QED  BY <1>3, <1>4 DEF RemoveLoop

(* A service that is added. *)
LEMMA ReloadAdds ==
  ASSUME Inv, ReloadInv, NEW n \in Names, ReloadAdd(n), pc' \in {"remove", "apply"}
  PROVE  \E i \in Ids : Visited(n, i)
<1>1. /\ pc = "apply" /\ n \in todo
      /\ StartOk(nextval, NewService(n, new_cfg[n]))
      /\ ReloadContinues(n)
  BY DEF ReloadAdd, ReloadReturns
<1>2. new_cfg[n] \in Configs
  BY <1>1 DEF Inv, TypeInv, ControlOK, LoopsDefined, Defined, ConfigFile
<1>3. next_id \in Ids /\ services[next_id].state = "Absent"
  BY NextIdType, NoServiceType DEF Inv, FreshIds
<1>4. PICK pid \in Pids :
        services' = [services EXCEPT ![next_id] = Started(NewService(n, new_cfg[n]), pid)]
  BY <1>1 DEF StartOk, FreePids, nextval
<1>5. /\ Started(NewService(n, new_cfg[n]), pid).name = n
      /\ Started(NewService(n, new_cfg[n]), pid).config = new_cfg[n]
      /\ Started(NewService(n, new_cfg[n]), pid).state = "Running"
  BY <1>2, NewServiceType, StartedType
<1>6. Visited(n, next_id)
  BY <1>1, <1>3, <1>4, <1>5 DEF Visited, ReloadContinues, Registered, Inv, TypeInv, RegistryOK
<1> QED  BY <1>3, <1>6

(* A service whose definition changed. *)
LEMMA ReloadChanges ==
  ASSUME Inv, ReloadInv, NEW n \in Names, ReloadChange(n), pc' \in {"remove", "apply"}
  PROVE  \E i \in Ids : Visited(n, i)
<1>1. pc = "apply" /\ n \in todo /\ service_ids[n] \in Registered /\ new_cfg[n] \in Configs
  BY DEF ReloadChange, Inv, TypeInv, ControlOK, LoopsDefined, Defined, ConfigFile
<1>2. PICK i \in Ids : i = service_ids[n]
  BY <1>1 DEF Registered
<1>3. /\ services[i].name = n /\ i \in Registered
      /\ services[i] \in ServiceRecord
  BY <1>1, <1>2, RegisteredRecord DEF ReloadInv, IndexRight, Registered
<1> DEFINE svc == update_config(services[i], new_cfg[n])
           marked == [svc EXCEPT !.pending = "Restart"]
<1>4. /\ ValidCStrings(new_cfg[n]) /\ ReloadContinues(n)
      /\ \/ StartOk(i, svc)
         \/ StopOk(i, marked)
         \/ Store(i, marked) /\ svc.state = "Stopping"
  BY <1>2 DEF ReloadChange, PendAndStop, ReloadReturns
<1>5. svc \in ServiceRecord /\ svc.name = n /\ svc.config = new_cfg[n]
  BY <1>1, <1>3, <1>4, UpdateConfigType
<1> HIDE DEF svc
<1>6. /\ marked \in ServiceRecord /\ marked.name = n /\ marked.config = new_cfg[n]
      /\ marked.state = svc.state
  BY <1>5 DEF ServiceRecord, PendingActions
<1> HIDE DEF marked
<1>7. PICK new : /\ services' = [services EXCEPT ![i] = new]
                 /\ new.name = n /\ new.config = new_cfg[n] /\ new.state # "Absent"
  <2>1. CASE StartOk(i, svc)
    <3>1. PICK pid \in Pids : services' = [services EXCEPT ![i] = Started(svc, pid)]
      BY <2>1 DEF StartOk, FreePids
    <3>2. /\ Started(svc, pid).name = n /\ Started(svc, pid).config = new_cfg[n]
          /\ Started(svc, pid).state = "Running"
      BY <1>5, StartedType
    <3> QED  BY <3>1, <3>2
  <2>2. CASE StopOk(i, marked)
    <3>1. services' = [services EXCEPT ![i] = StopRequested(marked)]
      BY <2>2 DEF StopOk
    <3>2. /\ StopRequested(marked).name = n /\ StopRequested(marked).config = new_cfg[n]
          /\ StopRequested(marked).state = "Stopping"
      BY <1>1, <1>6, StopRequestedType
    <3> QED  BY <3>1, <3>2
  <2>3. CASE Store(i, marked) /\ svc.state = "Stopping"
    BY <1>6, <2>3 DEF Store
  <2> QED  BY <1>4, <2>1, <2>2, <2>3
<1>8. Visited(n, i)
  BY <1>1, <1>3, <1>4, <1>7 DEF Visited, ReloadContinues, Registered, Inv, TypeInv, RegistryOK
<1> QED  BY <1>8

(* A service whose definition is the same. *)
LEMMA ReloadKeeps ==
  ASSUME Inv, ReloadInv, NEW n \in Names, ReloadUnchanged(n)
  PROVE  \E i \in Ids : Visited(n, i)
<1>1. /\ pc = "apply" /\ n \in todo /\ new_cfg[n] # None /\ service_ids[n] # NoId
      /\ ~(service_ids[n] \in Registered /\ services[service_ids[n]].config # new_cfg[n])
      /\ ReloadContinues(n) /\ UNCHANGED services
  BY DEF ReloadUnchanged, registryVars, Inv, TypeInv, ControlOK, LoopsDefined, Defined
<1>2. service_ids[n] \in Registered /\ services[service_ids[n]].name = n
  BY <1>1 DEF ReloadInv, IndexRight
<1>3. PICK i \in Ids : i = service_ids[n]
  BY <1>2 DEF Registered
<1>4. Visited(n, i)
  BY <1>1, <1>2, <1>3 DEF Visited, ReloadContinues, Registered
<1> QED  BY <1>4

(* One step per step of a reload. *)
LEMMA ReloadNext ==
  ASSUME Inv, ReloadInv, [Next]_vars
  PROVE  ReloadInv'
<1>1. NamesInv'
  BY NamesStep DEF ReloadInv
<1>2. RemoveLoop' /\ ApplyLoop' /\ IndexRight'
  <2>1. CASE pc' \notin {"remove", "apply"}
    BY <2>1 DEF RemoveLoop, ApplyLoop, IndexRight
  <2>2. CASE pc' \in {"remove", "apply"}
    <3>1. CASE WorldStep \/ UNCHANGED vars
      BY <3>1, ReloadUndisturbed
    <3>2. CASE ReloadBegin
      BY <3>2, ReloadBegins
    <3>3. CASE ReloadRemoveDone
      BY <3>3, ReloadTurns
    <3>4. ASSUME NEW n \in Names, ReloadRemove(n)
          PROVE  RemoveLoop' /\ ApplyLoop' /\ IndexRight'
      BY <2>2, <3>4, ReloadRemoves
    <3>5. ASSUME NEW n \in Names, ReloadAdd(n) \/ ReloadChange(n) \/ ReloadUnchanged(n)
          PROVE  RemoveLoop' /\ ApplyLoop' /\ IndexRight'
      BY <2>2, <3>5, ReloadAdds, ReloadChanges, ReloadKeeps, ReloadVisits
    <3> QED  BY <2>2, <3>1, <3>2, <3>3, <3>4, <3>5, ReloadSteps
  <2> QED  BY <2>1, <2>2
<1> QED  BY <1>1, <1>2 DEF ReloadInv

(***************************************************************************)
(* When reload_services gets to its end, every service of the new          *)
(* configuration is registered with its new definition, and any other that *)
(* is still registered is marked for removal with its process on the way   *)
(* out, for any number of services, whatever the iteration orders and      *)
(* whatever processes did in the meantime.                                 *)
(***************************************************************************)
THEOREM ReloadIsApplied == Spec => []ReloadApplied
<1>1. Init => ReloadInv
  BY NoServiceType DEF Init, ReloadInv, NamesInv, OneServicePerName, Indexed, Registered,
     RemoveLoop, ApplyLoop, IndexRight
<1>2. Inv /\ ReloadInv /\ [Next]_vars => ReloadInv'
  BY ReloadNext
<1>3. ReloadInv => ReloadApplied
  BY DEF ReloadInv, ApplyLoop, ReloadApplied, Leaving
<1> QED  BY <1>1, <1>2, <1>3, Invariance, PTL DEF Spec
=============================================================================

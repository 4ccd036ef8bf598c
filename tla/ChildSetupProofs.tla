-------------------------- MODULE ChildSetupProofs --------------------------
(***************************************************************************)
(* A service's program never runs half set up, for every definition and    *)
(* every surroundings.  The invariant says what is true before each call   *)
(* of child_exec: what the calls before it have established, and that the  *)
(* ones after it have not been made.                                       *)
(***************************************************************************)
EXTENDS ChildSetup, TLAPS

(* the places of the child from a given call on *)
FromExec    == {"exec", "program"}
FromDup2    == FromExec \cup {"dup2"}
FromChdir   == FromDup2 \cup {"chdir"}
FromSetuid  == FromChdir \cup {"setuid"}
FromSetgid  == FromSetuid \cup {"setgid"}
FromSetpgid == FromSetgid \cup {"setpgid"}
FromFork    == FromSetpgid \cup {"sigprocmask"}

WantedUid == IF cfg.user_group = None THEN world.uid ELSE cfg.user_group.uid
WantedGid == IF cfg.user_group = None THEN world.gid ELSE cfg.user_group.gid
WantedCwd == IF cfg.working_directory = None THEN Inherited ELSE cfg.working_directory
WantedOut == IF cfg.log_file = None THEN "devnull" ELSE cfg.log_file

Prepared ==
  /\ pc \in FromSetpgid => mask = world.original_sigset
  /\ pc \in FromSetgid => pgrp = "own"
  /\ pc \in FromFork \ FromSetuid => gid = world.gid
  /\ pc \in FromSetuid => gid = WantedGid
  /\ pc \in FromFork \ FromChdir => uid = world.uid
  /\ pc \in FromChdir => uid = WantedUid
  /\ pc \in FromFork \ FromDup2 => cwd = Inherited
  /\ pc \in FromDup2 => cwd = WantedCwd
  /\ pc \in FromExec => stdio = [in |-> "devnull", out |-> WantedOut, err |-> WantedOut]
CInv == TypeOK /\ Prepared

USE DEF FromExec, FromDup2, FromChdir, FromSetuid, FromSetgid, FromSetpgid, FromFork

-----------------------------------------------------------------------------
(* What the constants promise about one definition and its surroundings. *)
LEMMA Fields ==
  ASSUME TypeOK
  PROVE  /\ world.uid \in Nat /\ world.gid \in Nat
         /\ world.original_sigset \in SigSet
         /\ cfg.user_group # None => cfg.user_group.uid \in Nat /\ cfg.user_group.gid \in Nat
         /\ cfg.working_directory \in {None, "cwd"}
         /\ cfg.log_file \in {None, "log"}
         /\ cfg.stop_signal \in StopSignals
         /\ WantedUid \in Nat /\ WantedGid \in Nat
<1>1. cfg \in ServiceConfig /\ world \in World
  BY ChildSetupAssumption DEF TypeOK
<1>2. cfg.user_group \in UserGroup \cup {None}
  BY <1>1 DEF ServiceConfig
<1>3. cfg.user_group # None => cfg.user_group.uid \in Nat /\ cfg.user_group.gid \in Nat
  BY <1>2 DEF UserGroup
<1> QED
  BY <1>1, <1>3 DEF ServiceConfig, World, WantedUid, WantedGid

-----------------------------------------------------------------------------
(* The calls of child_exec, one after the other *)

(* The child gets the mask svlopp was started with, or dies. *)
LEMMA SignalMaskStep == CInv /\ set_thread_signal_mask => CInv'
<1> SUFFICES ASSUME CInv, set_thread_signal_mask PROVE CInv'
  OBVIOUS
<1> DEFINE fails == "sigprocmask" \in world.bad
<1>1. Call("sigprocmask", fails, 111)
  BY DEF set_thread_signal_mask
<1>2. /\ pc = "sigprocmask"
      /\ fails => pc' = "dead"
      /\ ~fails => pc' = FollowedBy["sigprocmask"]
      /\ exit' \in {None} \cup ({"Exited"} \X Nat) \cup ({"Signaled"} \X Signals)
      /\ UNCHANGED <<cfg, world, svc, pending, taken, ctrl_c>>
  BY <1>1 DEF CInv, TypeOK, Call, Exits, Die
<1>3. TypeOK'
  BY <1>2, Fields DEF CInv, TypeOK, set_thread_signal_mask, FollowedBy, ChildCalls
<1>4. Prepared'
  BY <1>2, Fields DEF CInv, Prepared, set_thread_signal_mask, FollowedBy, WantedUid, WantedGid, WantedCwd, WantedOut
<1> QED
  BY <1>3, <1>4 DEF CInv

(* The child leads its own group, or dies. *)
LEMMA SetpgidStep == CInv /\ setpgid => CInv'
<1> SUFFICES ASSUME CInv, setpgid PROVE CInv'
  OBVIOUS
<1> DEFINE fails == "setpgid" \in world.bad
<1>1. Call("setpgid", fails, 111)
  BY DEF setpgid
<1>2. /\ pc = "setpgid"
      /\ fails => pc' = "dead"
      /\ ~fails => pc' = FollowedBy["setpgid"]
      /\ exit' \in {None} \cup ({"Exited"} \X Nat) \cup ({"Signaled"} \X Signals)
      /\ UNCHANGED <<cfg, world, svc, pending, taken, ctrl_c>>
  BY <1>1 DEF CInv, TypeOK, Call, Exits, Die
<1>3. TypeOK'
  BY <1>2, Fields DEF CInv, TypeOK, setpgid, FollowedBy, ChildCalls
<1>4. Prepared'
  BY <1>2, Fields DEF CInv, Prepared, setpgid, FollowedBy, WantedUid, WantedGid, WantedCwd, WantedOut
<1> QED
  BY <1>3, <1>4 DEF CInv

(* The child has the group of its definition, or dies. *)
LEMMA SetgidStep == CInv /\ setgid => CInv'
<1> SUFFICES ASSUME CInv, setgid PROVE CInv'
  OBVIOUS
<1> DEFINE fails == cfg.user_group # None /\ ~MayBecome(cfg.user_group.gid, gid)
<1>1. Call("setgid", fails, 111)
  BY DEF setgid
<1>2. /\ pc = "setgid"
      /\ fails => pc' = "dead"
      /\ ~fails => pc' = FollowedBy["setgid"]
      /\ exit' \in {None} \cup ({"Exited"} \X Nat) \cup ({"Signaled"} \X Signals)
      /\ UNCHANGED <<cfg, world, svc, pending, taken, ctrl_c>>
  BY <1>1 DEF CInv, TypeOK, Call, Exits, Die
<1>3. TypeOK'
  BY <1>2, Fields DEF CInv, TypeOK, setgid, FollowedBy, ChildCalls
<1>4. Prepared'
  BY <1>2, Fields DEF CInv, Prepared, setgid, FollowedBy, WantedUid, WantedGid, WantedCwd, WantedOut
<1> QED
  BY <1>3, <1>4 DEF CInv

(* The child has the user of its definition, or dies. *)
LEMMA SetuidStep == CInv /\ setuid => CInv'
<1> SUFFICES ASSUME CInv, setuid PROVE CInv'
  OBVIOUS
<1> DEFINE fails == cfg.user_group # None /\ ~MayBecome(cfg.user_group.uid, uid)
<1>1. Call("setuid", fails, 111)
  BY DEF setuid
<1>2. /\ pc = "setuid"
      /\ fails => pc' = "dead"
      /\ ~fails => pc' = FollowedBy["setuid"]
      /\ exit' \in {None} \cup ({"Exited"} \X Nat) \cup ({"Signaled"} \X Signals)
      /\ UNCHANGED <<cfg, world, svc, pending, taken, ctrl_c>>
  BY <1>1 DEF CInv, TypeOK, Call, Exits, Die
<1>3. TypeOK'
  BY <1>2, Fields DEF CInv, TypeOK, setuid, FollowedBy, ChildCalls
<1>4. Prepared'
  BY <1>2, Fields DEF CInv, Prepared, setuid, FollowedBy, WantedUid, WantedGid, WantedCwd, WantedOut
<1> QED
  BY <1>3, <1>4 DEF CInv

(* The child is in the directory of its definition, or dies. *)
LEMMA ChdirStep == CInv /\ chdir => CInv'
<1> SUFFICES ASSUME CInv, chdir PROVE CInv'
  OBVIOUS
<1> DEFINE fails == cfg.working_directory # None /\ "chdir" \in world.bad
<1>1. Call("chdir", fails, 111)
  BY DEF chdir
<1>2. /\ pc = "chdir"
      /\ fails => pc' = "dead"
      /\ ~fails => pc' = FollowedBy["chdir"]
      /\ exit' \in {None} \cup ({"Exited"} \X Nat) \cup ({"Signaled"} \X Signals)
      /\ UNCHANGED <<cfg, world, svc, pending, taken, ctrl_c>>
  BY <1>1 DEF CInv, TypeOK, Call, Exits, Die
<1>3. TypeOK'
  BY <1>2, Fields DEF CInv, TypeOK, chdir, FollowedBy, ChildCalls
<1>4. Prepared'
  BY <1>2, Fields DEF CInv, Prepared, chdir, FollowedBy, WantedUid, WantedGid, WantedCwd, WantedOut
<1> QED
  BY <1>3, <1>4 DEF CInv

(* The child has the descriptors of its definition, or dies. *)
LEMMA StdioStep == CInv /\ setup_child_stdio => CInv'
<1> SUFFICES ASSUME CInv, setup_child_stdio PROVE CInv'
  OBVIOUS
<1> DEFINE fails == "dup2" \in world.bad
<1>1. Call("dup2", fails, 111)
  BY DEF setup_child_stdio
<1>2. /\ pc = "dup2"
      /\ fails => pc' = "dead"
      /\ ~fails => pc' = FollowedBy["dup2"]
      /\ exit' \in {None} \cup ({"Exited"} \X Nat) \cup ({"Signaled"} \X Signals)
      /\ UNCHANGED <<cfg, world, svc, pending, taken, ctrl_c>>
  BY <1>1 DEF CInv, TypeOK, Call, Exits, Die
<1>3. TypeOK'
  BY <1>2, Fields DEF CInv, TypeOK, setup_child_stdio, FollowedBy, ChildCalls
<1>4. Prepared'
  BY <1>2, Fields DEF CInv, Prepared, setup_child_stdio, FollowedBy, WantedUid, WantedGid, WantedCwd, WantedOut
<1> QED
  BY <1>3, <1>4 DEF CInv

(* The program starts as prepared, or the child dies. *)
LEMMA ExecStep == CInv /\ Exec => CInv'
<1> SUFFICES ASSUME CInv, Exec PROVE CInv'
  OBVIOUS
<1> DEFINE fails == "exec" \in world.bad
<1>1. Call("exec", fails, 127)
  BY DEF Exec
<1>2. /\ pc = "exec"
      /\ fails => pc' = "dead"
      /\ ~fails => pc' = FollowedBy["exec"]
      /\ exit' \in {None} \cup ({"Exited"} \X Nat) \cup ({"Signaled"} \X Signals)
      /\ UNCHANGED <<cfg, world, svc, pending, taken, ctrl_c>>
  BY <1>1 DEF CInv, TypeOK, Call, Exits, Die
<1>3. TypeOK'
  BY <1>2, Fields DEF CInv, TypeOK, Exec, FollowedBy, ChildCalls
<1>4. Prepared'
  BY <1>2, Fields DEF CInv, Prepared, Exec, FollowedBy, WantedUid, WantedGid, WantedCwd, WantedOut
<1> QED
  BY <1>3, <1>4 DEF CInv

-----------------------------------------------------------------------------
(* fork hands the child everything that is svlopp's. *)
LEMMA StartStep == CInv /\ start_service => CInv'
<1> SUFFICES ASSUME CInv, start_service PROVE CInv'
  OBVIOUS
<1>1. SupervisorMask \in SigSet
  BY Fields DEF CInv, SupervisorMask, SigSet, sigset, StopSignals
<1>2. stdio' \in [{"in", "out", "err"} -> {None, Inherited, "devnull", "log"}]
  BY DEF start_service
<1>3. TypeOK'
  BY <1>1, <1>2, Fields DEF CInv, TypeOK, start_service, ChildCalls
<1>4. Prepared'
  BY DEF Prepared, start_service
<1> QED
  BY <1>3, <1>4 DEF CInv

(* Signals, exits, the terminal and the supervisor do not touch what        *)
(* child_exec prepares; they leave the child where it is or end it.         *)
LEMMA OtherSteps ==
  ASSUME CInv,
         \/ stop_service \/ force_kill_service_process \/ Reap \/ ProgramExits \/ TerminalInterrupt
         \/ \E s \in StopSignals : Deliver(s)
  PROVE  CInv'
<1>1. CASE stop_service
  <2>1. TypeOK'
    BY <1>1, Fields DEF CInv, TypeOK, stop_service, Send
  <2> QED
    BY <1>1, <2>1 DEF CInv, Prepared, stop_service, WantedUid, WantedGid, WantedCwd, WantedOut
<1>2. CASE force_kill_service_process
  <2>1. TypeOK'
    BY <1>2 DEF CInv, TypeOK, force_kill_service_process, Die, Signals
  <2> QED
    BY <1>2, <2>1 DEF CInv, Prepared, force_kill_service_process, Die
<1>3. CASE Reap
  BY <1>3 DEF CInv, TypeOK, Prepared, Reap, childVars
<1>4. CASE ProgramExits
  <2>1. TypeOK'
    BY <1>4 DEF CInv, TypeOK, ProgramExits, Exits, Die
  <2> QED
    BY <1>4, <2>1 DEF CInv, Prepared, ProgramExits, Exits, Die
<1>5. CASE TerminalInterrupt
  <2>1. TypeOK'
    BY <1>5 DEF CInv, TypeOK, TerminalInterrupt, Send, StopSignals
  <2> QED
    BY <1>5, <2>1 DEF CInv, Prepared, TerminalInterrupt, WantedUid, WantedGid, WantedCwd, WantedOut
<1>6. ASSUME NEW s \in StopSignals, Deliver(s)
      PROVE  CInv'
  <2>1. TypeOK'
    BY <1>6 DEF CInv, TypeOK, Deliver, Die, Signals
  <2> QED
    BY <1>6, <2>1 DEF CInv, Prepared, Deliver, Die, WantedUid, WantedGid, WantedCwd, WantedOut
<1> QED
  BY <1>1, <1>2, <1>3, <1>4, <1>5, <1>6

(* Before fork nothing is prepared and nothing runs. *)
LEMMA InitCInv == Init => CInv
<1> SUFFICES ASSUME Init PROVE CInv
  OBVIOUS
<1>1. NoStdio \in [{"in", "out", "err"} -> {None, Inherited, "devnull", "log"}]
  BY DEF NoStdio
<1>2. TypeOK
  BY <1>1 DEF Init, TypeOK, SigSet
<1>3. Prepared
  BY DEF Init, Prepared
<1> QED
  BY <1>2, <1>3 DEF CInv

(* Every step keeps the invariant. *)
LEMMA NextCInv == CInv /\ [Next]_vars => CInv'
<1>1. CInv /\ ChildExec => CInv'
  BY SignalMaskStep, SetpgidStep, SetgidStep, SetuidStep, ChdirStep, StdioStep, ExecStep
     DEF ChildExec
<1>2. CInv /\ Next => CInv'
  BY <1>1, StartStep, OtherSteps DEF Next
<1>3. CInv /\ UNCHANGED vars => CInv'
  BY DEF CInv, TypeOK, Prepared, vars, childVars, WantedUid, WantedGid, WantedCwd, WantedOut
<1> QED
  BY <1>2, <1>3

(* What is prepared when the program runs is all of it. *)
LEMMA PreparedMeansSetUp == CInv => NeverHalfSetUp
<1> SUFFICES ASSUME CInv, pc = "program" PROVE NeverHalfSetUp
  BY DEF NeverHalfSetUp
<1>1. [uid |-> uid, gid |-> gid] =
        IF cfg.user_group = None THEN [uid |-> world.uid, gid |-> world.gid] ELSE cfg.user_group
  <2>1. uid = WantedUid /\ gid = WantedGid
    BY DEF CInv, Prepared
  <2>2. cfg.user_group # None => cfg.user_group = [uid |-> cfg.user_group.uid, gid |-> cfg.user_group.gid]
    BY ChildSetupAssumption DEF CInv, TypeOK, ServiceConfig, UserGroup
  <2> QED
    BY <2>1, <2>2 DEF WantedUid, WantedGid
<1> QED
  BY <1>1 DEF CInv, Prepared, NeverHalfSetUp, WantedCwd, WantedOut

(* Every variable of the child and of its surroundings keeps its type. *)
THEOREM ChildTypeCorrect == Spec => []TypeOK
<1>1. CInv => TypeOK
  BY DEF CInv
<1> QED
  BY <1>1, InitCInv, NextCInv, PTL DEF Spec

(* A service's program never runs half set up, whatever call of child_exec  *)
(* fails and whenever it is stopped, killed or interrupted.                 *)
THEOREM SetupComplete == Spec => []NeverHalfSetUp
BY InitCInv, NextCInv, PreparedMeansSetUp, PTL DEF Spec

-----------------------------------------------------------------------------
(* Exit statuses tell why *)

(* A child exits with 111 or 127 only from the call that failed. *)
LEMMA CauseNext ==
  ASSUME CInv, SetupFailsOnlyForCause, [Next]_vars
  PROVE  SetupFailsOnlyForCause'
<1> USE DEF SetupFailsOnlyForCause, CInv
<1>1. CASE set_thread_signal_mask
  BY <1>1 DEF set_thread_signal_mask, Call, Exits, Die, FollowedBy
<1>2. CASE setpgid
  BY <1>2 DEF setpgid, Call, Exits, Die, FollowedBy
<1>3. CASE setgid
  BY <1>3 DEF setgid, Call, Exits, Die, FollowedBy, MayBecome, Prepared
<1>4. CASE setuid
  BY <1>4 DEF setuid, Call, Exits, Die, FollowedBy, MayBecome, Prepared
<1>5. CASE chdir
  BY <1>5 DEF chdir, Call, Exits, Die, FollowedBy
<1>6. CASE setup_child_stdio
  BY <1>6 DEF setup_child_stdio, Call, Exits, Die, FollowedBy
<1>7. CASE Exec
  BY <1>7 DEF Exec, Call, Exits, Die, FollowedBy
<1>8. CASE start_service
  BY <1>8 DEF start_service
<1>9. CASE stop_service
  BY <1>9 DEF stop_service
<1>10. CASE force_kill_service_process
  BY <1>10 DEF force_kill_service_process, Die
<1>11. CASE Reap
  BY <1>11 DEF Reap, childVars
<1>12. CASE ProgramExits
  BY <1>12 DEF ProgramExits, Exits, Die
<1>13. CASE TerminalInterrupt
  BY <1>13 DEF TerminalInterrupt
<1>14. ASSUME NEW s \in StopSignals, Deliver(s)
      PROVE  SetupFailsOnlyForCause'
  BY <1>14 DEF Deliver, Die, Alive
<1>15. CASE UNCHANGED vars
  BY <1>15 DEF vars, childVars
<1> QED
  BY <1>1, <1>2, <1>3, <1>4, <1>5, <1>6, <1>7, <1>8, <1>9, <1>10, <1>11, <1>12, <1>13, <1>14, <1>15 DEF Next, ChildExec

(* The exit status of a child that could not be set up tells what failed,   *)
(* and changing the user is never what fails for an svlopp that is root.    *)
THEOREM FailuresHaveCauses == Spec => []SetupFailsOnlyForCause
<1>1. Init => SetupFailsOnlyForCause
  BY DEF Init, SetupFailsOnlyForCause
<1> QED
  BY <1>1, InitCInv, NextCInv, CauseNext, PTL DEF Spec

-----------------------------------------------------------------------------
(* The terminal *)

(* A child that Ctrl+C has reached has not left svlopp's group, and INT     *)
(* takes effect before it can: it is pending, and deliverable once the mask *)
(* is restored.                                                             *)
CtrlCKills ==
  ctrl_c /\ Alive /\ INT \notin world.original_sigset =>
    pc \in {"sigprocmask", "setpgid"} /\ INT \in pending

(* Every step keeps it. *)
LEMMA CtrlCNext ==
  ASSUME CInv, CtrlCKills, [Next]_vars
  PROVE  CtrlCKills'
<1> USE DEF CtrlCKills, CInv, Alive
<1>1. CASE set_thread_signal_mask
  BY <1>1 DEF set_thread_signal_mask, Call, Exits, Die, FollowedBy
<1>2. CASE setpgid
  BY <1>2 DEF setpgid, Call, Exits, Die, FollowedBy, Deliverable, Prepared
<1>3. CASE setgid
  BY <1>3 DEF setgid, Call, Exits, Die, FollowedBy
<1>4. CASE setuid
  BY <1>4 DEF setuid, Call, Exits, Die, FollowedBy
<1>5. CASE chdir
  BY <1>5 DEF chdir, Call, Exits, Die, FollowedBy
<1>6. CASE setup_child_stdio
  BY <1>6 DEF setup_child_stdio, Call, Exits, Die, FollowedBy
<1>7. CASE Exec
  BY <1>7 DEF Exec, Call, Exits, Die, FollowedBy
<1>8. CASE start_service
  BY <1>8 DEF start_service
<1>9. CASE stop_service
  BY <1>9 DEF stop_service, Send
<1>10. CASE force_kill_service_process
  BY <1>10 DEF force_kill_service_process, Die
<1>11. CASE Reap
  BY <1>11 DEF Reap, childVars
<1>12. CASE ProgramExits
  BY <1>12 DEF ProgramExits, Exits, Die
<1>13. CASE TerminalInterrupt
  BY <1>13 DEF TerminalInterrupt, Send, Prepared, Inherited, TypeOK, ChildCalls
<1>14. ASSUME NEW s \in StopSignals, Deliver(s)
      PROVE  CtrlCKills'
  BY <1>14 DEF Deliver, Die
<1>15. CASE UNCHANGED vars
  BY <1>15 DEF vars, childVars
<1> QED
  BY <1>1, <1>2, <1>3, <1>4, <1>5, <1>6, <1>7, <1>8, <1>9, <1>10, <1>11, <1>12, <1>13, <1>14, <1>15 DEF Next, ChildExec

(* Ctrl+C on svlopp's terminal never reaches a service's program, for       *)
(* every signal mask without INT that svlopp may have been started with.    *)
THEOREM TerminalKeptAway == Spec => []TerminalDoesNotReachPrograms
<1>1. Init => CtrlCKills
  BY DEF Init, CtrlCKills
<1>2. CtrlCKills => TerminalDoesNotReachPrograms
  BY DEF CtrlCKills, TerminalDoesNotReachPrograms, Alive
<1> QED
  BY <1>1, <1>2, InitCInv, NextCInv, CtrlCNext, PTL DEF Spec
=============================================================================

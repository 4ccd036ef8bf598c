---------------------------- MODULE MCSupervisor ----------------------------
(* Small instances of Supervisor for TLC; each cfg picks its own. *)
EXTENDS SupervisorLifecycle, TLC

CONSTANTS a, b  \* service names

Cfg(v, on_exit, timeout) ==
  [ver |-> v, argv_ok |-> TRUE, envp_ok |-> TRUE, on_exit |-> on_exit, stop_timeout |-> timeout]

(* definitions used by the instances *)
C1 == Cfg(1, "None", 1)
C2 == Cfg(2, "Restart", 1)
C3 == Cfg(3, "Remove", 0)
BadArgv == [Cfg(4, "None", 0) EXCEPT !.argv_ok = FALSE]
BadEnvp == [Cfg(5, "None", 0) EXCEPT !.envp_ok = FALSE]
C6 == Cfg(6, "Restart", 0)
AllConfigs == {C1, C2, C3, BadArgv, BadEnvp, C6}

File(ca, cb) == a :> ca @@ b :> cb
FileA(ca) == a :> ca

ExitedWith(code) == [kind |-> "Exited", val |-> code]
SignaledBy(sig)  == [kind |-> "Signaled", val |-> sig]
OneExit == {ExitedWith(1)}
Crash   == {SignaledBy(SIGSEGV)}

PidSymmetry == Permutations(Pids)

(* two services, added, changed and removed in any order *)
ReloadFiles  == {File(C1, None), File(C2, C1), File(None, None)}
(* nothing restarts by itself, something does, something removes itself *)
NoRestart    == {File(C1, C3)}
SelfRestart  == {File(C1, C2)}
(* one service: removed and added again, changed, broken *)
ReaddFiles   == {FileA(C1), FileA(None)}
ChangeFiles  == {FileA(C1), FileA(C2)}
RestartFile  == {FileA(C2)}
BrokenFiles  == {FileA(C3), FileA(C6), FileA(None), FileA(BadArgv), FileA(BadEnvp), Unparsable}
=============================================================================

---------------------------- MODULE MCChildSetup ----------------------------
(* Small instances of ChildSetup for TLC. *)
EXTENDS ChildSetup

(* blocked by svlopp and not; with and without each optional field *)
SomeConfigs ==
  [user_group : {None, [uid |-> 1, gid |-> 3]}, working_directory : {None, "cwd"},
   log_file : {None, "log"}, stop_signal : {TERM, INT, USR1}]

(* root and not, started with nothing or with INT blocked, at most one call *)
(* that cannot succeed                                                      *)
SomeWorlds ==
  [uid : {0, 1}, gid : {0, 3}, original_sigset : {{}, {INT}},
   bad : {{}} \cup {{call} : call \in ChildCalls}]
=============================================================================

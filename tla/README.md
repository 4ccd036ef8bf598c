# A TLA+ verification project for svlopp

svlopp is a small process supervisor: one process, one thread, one epoll loop
that watches a signalfd, a periodic timerfd and a control FIFO, and keeps a set
of services running the way a configuration file says. This directory models
it, model-checks it with TLC and proves its main safety properties with TLAPS.
Paths below are relative to the repository (`src/main.rs` is the crate's
`src/main.rs`).

## 1. The system: inventory

| Component | Source | State | Operations |
|---|---|---|---|
| event loop | `src/main.rs` `run` | `sv_state`, event and signal buffers | boot, epoll dispatch, signal / timer / control arms, shutdown, exit |
| service lifecycle | `src/service.rs` `Service`, `ServiceState`, `start_service`, `stop_service`, `force_kill_service_process` | one record per service: definition, argv, state (Stopped(reason) / Running(pid) / Stopping(pid, deadline)), pending action | start, stop, kill, update_config, take_pending_action, fallback |
| service registry | `src/service.rs` `ServiceRegistry`, `ServiceIdGen` | `services_map` (id → service), `pids_map` (pid → id), next id | insert, remove, register_pid, take_by_pid, nextval |
| reload | `src/service.rs` `reload_services` | an index name → id taken at its start, the parsed file | remove what is gone, add what is new, change what differs; every `?` returns early |
| control operations | `src/service.rs` `apply_control_op` | – | Stop, Start, Restart of one id |
| child reaping, orphan cleanup | `src/service.rs` `handle_sigchld` | – | waitpid loop, classification of the exit, SIGKILL to the process group |
| child setup | `src/service.rs` `start_service`, `child_exec`, `setup_child_stdio` | the forked child: signal mask, group, credentials, directory, descriptors | sigprocmask, setpgid, setgid, setuid, chdir, dup2, exec, each with `_exit` on failure |
| control FIFO | `src/control.rs` | bytes in the pipe | read and decode one 9-byte frame per wakeup |
| status file | `src/status.rs`, `format_status`, `utils.rs` `write_all`, `main` | the file and its temporary twin in the run directory | open, write, fsync, rename; the directory is emptied, created and removed |
| signals, timer | `src/signalfd.rs`, `src/timerfd.rs` | kernel | mask, batch read, drain |
| configuration | `src/service.rs` `ServiceConfigData` | – | TOML parsing, validation |
| command line, logging, utilities | `src/cli.rs`, `src/logging.rs`, `src/utils.rs` | – | – |

**Interactions.** The loop calls everything else synchronously; nothing in
svlopp runs concurrently with itself. The concurrency is with the kernel and
the users: children exit, are adopted (svlopp is a subreaper) and free their
pids between any two system calls; signals coalesce while they are pending;
the timer expires; writers look an id up in the status file and write a command
that is read later; the configuration file changes between reloads. Two maps
(`services_map`, `pids_map`) are kept in step by hand in five places. Decisions
are deferred: a reload or a command sets a *pending action* and asks the process
to stop, SIGCHLD reaps it, and a timer tick applies the action.

**What is hard** is listed, line by line, under `hazards` in `PROJECT.json`:
coalescing signals and late exits, ids that are stale when used, pids reused
between waitpid and the group kill, deadlines racing with exits and ticks,
reloads that follow each other faster than processes stop, early returns that
leave a reload half done, a shutdown racing with restarts, the id generator at
its limit; and below the loop: torn frames in the FIFO, a status file replaced
under its readers, short writes and crashes, a child stopped between fork and
exec.

**What makes each component correct**

- registry and lifecycle: every forked process is known under its pid to exactly
  the service it was forked for until it is reaped (`EveryChildSupervised`);
- reload: names stay unique (`OneServicePerName`), a reload that returns Ok has
  produced the configured set (`ReloadApplied`), what it decided to remove gets
  removed (`RemovalSticks`), a restart is not lost before it is tried
  (`RestartSticks`), a process whose definition was replaced is on its way out
  (`OutdatedReplaced`), and what a failed reload may leave in a service's command
  line is bounded (`ArgvOfDefinition`);
- all of the above: services and processes live the life `Lifecycle` describes
  (`ImplementsLifecycle`);
- stop: SIGKILL never early (`NoEarlyKill`), stops complete (`StopCompletes`),
  restarts happen (`RestartHappens`);
- reaping: no dead child is forgotten (`DeadChildNoticed`), no process of a dead
  service's group runs on (`OrphansCleaned`);
- control: a command never hits another service (`CommandsReachTheirService`);
- shutdown: nothing is left behind (`CleanExit`), and it ends
  (`ShutdownCompletes`, which holds only under restrictions: see findings);
- status file: current whenever the loop sleeps (`StatusCurrent`); for its
  readers a register that is replaced in one step (`RegisterSpec`,
  `ReadersSeeWholeSnapshots`), never that of an earlier svlopp
  (`FreshDirectory`);
- control FIFO: whole frames are read as written, whatever was torn before
  (`OrderlyReadsAreFaithful`), every answer has its reason (`ResultsExplained`),
  in order (`InOrder`), to the last byte (`PipeDrained`), without spinning
  (`NoIdleWakeup`);
- child setup: a program never runs half set up (`NeverHalfSetUp`), a child fails
  only for a reason its exit status tells (`SetupFailsOnlyForCause`), a stop signal
  is not lost on the way (`StopSignalArrives`), Ctrl+C does not reach programs
  (`TerminalDoesNotReachPrograms`).

## 2. Modules

| Module | Contents |
|---|---|
| `Service` | the data of `service.rs` and the transitions of one service record; no state |
| `Supervisor` | the event loop, registry, reload, control and reaping, composed with process table, signals, timer, FIFO and status file; its properties |
| `Lifecycle` | abstract specification: services, the process each has, ids that are never reused, an orderly end |
| `SupervisorLifecycle` | the refinement mapping from `Supervisor` to `Lifecycle` |
| `ControlFifo` | the byte stream below the queue of frames in `Supervisor`: writers, pipe, `read_control_command` |
| `StatusRegister` | abstract specification: a register of whole snapshots |
| `StatusFile` | `write_status_file`, `write_all` and the run directory against readers, failures and crashes; implements `StatusRegister` |
| `ChildSetup` | one child between fork and reaping: `child_exec` against stop, kill and the terminal |
| `MCSupervisor`, `MCControlFifo`, `MCStatusFile`, `MCChildSetup` | constants for TLC; each `.cfg` is one instance |
| `SupervisorProofs` | type correctness and `EveryChildSupervised` |
| `SupervisorSafety` | clean exit, reaping, removals, names, commands |
| `SupervisorDeadlines` | `NoEarlyKill` |
| `SupervisorRefinement` | `Supervisor` implements `Lifecycle`; restarts, command lines and outdated processes |
| `SupervisorOutcomes` | what handlers leave behind: status file, process groups, the reloaded registry |
| `ChildSetupProofs` | types and the safety properties of `ChildSetup` |
| `StatusFileProofs` | types and the safety properties of `StatusFile`; it implements `StatusRegister` |
| `ControlFifoProofs` | the codec, types and the safety properties of `ControlFifo` |

`Supervisor` composes all components at the grain at which they interact. Three
of them are finer than that grain, and each has a module that shows why the
coarse step is right: a frame is taken whole or is `InvalidFrame`
(`ControlFifo`), the status file is replaced in one step or not at all
(`StatusFile`), a forked child is in its own group and its signals arrive
(`ChildSetup`).

### State and actions

`services`, `pids_map`, `next_id`, `sv_state` are the program's variables of
these names. A map is a total function: an id that `services_map` does not hold
has state `"Absent"`, a pid that `pids_map` does not hold is mapped to `NoId`.
`pc` is the place in `run`; `events`, `batch`, `todo`, `ids` are what the
current loop still has to visit. Each `for` over a HashMap is one action per
element, taken in any order, so a `?` in the body leaves exactly the visited part
done, and kernel and users can move between two iterations. A handler that does
not loop (a command, a tick's visit of one service, one waitpid) is one action,
including the registration and the status flush that follow.

| Code | Actions |
|---|---|
| `run` before the loop | `Boot`, `LoadService`, `LoadDone`, `BootStart`, `BootDone` |
| epoll and signal batch | `EpollWait`, `LoopFails`, `ReadSignals`, `SignalsDone` |
| SIGHUP, `reload_services` | `ReloadRefused`, `ReloadBegin`, `ReloadRemove`, `ReloadRemoveDone`, `ReloadAdd`, `ReloadChange`, `ReloadUnchanged`, `ReloadDone` |
| SIGCHLD, `handle_sigchld` | `SigChld`, `Reap`, `KillGroup`, `ReapDone` |
| SIGTERM, SIGINT | `SigTerm`, `ShutdownStop`, `ShutdownDone` |
| timer arm | `ReadTimer`, `TickKill`, `TickStopped`, `TickDone` |
| control arm, `apply_control_op` | `ReadControl` |
| kernel and users | `SendSignal`, `SendCommand`, `SendInvalidFrame`, `ProcessExits`, `ProcessKilled`, `Adopt`, `TimerExpires`, `TimePasses` |

The other modules:

| Code | Actions |
|---|---|
| `create_control_fifo`, `read_control_command`, the epoll registration | `ControlFifo`: `create_control_fifo`, `EpollWait`, `read_control_command` with `ReadLen`, `ReadResult`, `Decode`, `from_le_bytes` |
| writers (`tests/helpers/control_fifo.py` and faulty ones) | `Open`, `WriteFrame`, `WritePiece`, `WriteRest`, `Close` |
| `main` | `StatusFile`: `Start`, `RemoveEntry`, `RemoveReturns`, `Mkdir`, `RunReturns`; `Crash` |
| `flush_status_file`, `write_status_file`, `write_all` | `OpenTmp`, `OpenFails`, `Write`, `Written`, `Fsync`, `Rename`, `WriteFails` |
| readers (`tests/helpers/status_file.py`) | `OpenStatus`, `ReadLines`, `CloseStatus` |
| `start_service`, `stop_service`, `force_kill_service_process`, `handle_sigchld` | `ChildSetup`: actions of these names, `Reap` |
| `child_exec`, `setup_child_stdio` | `set_thread_signal_mask`, `setpgid`, `setgid`, `setuid`, `chdir`, `setup_child_stdio`, `Exec`; their order is `FollowedBy` |
| kernel, program, terminal | `Deliver`, `ProgramExits`, `TerminalInterrupt` |

### Modelling decisions

- **Definitions** are records of what supervision tells apart: a version (for
  command, args, env, user, paths, stop signal), `on_exit`, `stop_timeout`, and
  whether argv and envp are free of NUL bytes. `argv` is kept apart from the
  definition because `update_config` assigns it first.
- **The file** is read nondeterministically from `ConfigFiles` whenever svlopp
  reads it, so every edit between two reads is a behaviour.
- **Time.** An Instant is its distance to now. `left` counts a deadline down to
  0, which stands for `now >= kill_deadline`; `TimePasses` lowers all deadlines by
  one. The timer arm reads `now` once, so what is overdue is fixed in `ReadTimer`.
- **Processes.** `alive`, `doomed` (SIGKILL is pending), `zombie`, `free`. A pid is
  reusable when neither a process nor a process group has it. `svc`, `grp`,
  `cfg` and `owed` are history that no guard of the supervisor reads: which
  service a process was forked for, whose group it is in, which definition it was
  started with, what is left of its stop timeout.
- **Reap and group kill are two steps**: between waitpid and kill(-pid) the kernel
  may hand the number out again.
- **Signals** are a set (standard signals coalesce), read as one batch that is
  handled lowest number first, as the kernel dequeues them.
- **Descendants** appear when they are adopted (`Adopt`): they stay in the group of
  the live process they come from or lead a group of their own.
- **Commands** carry the name their writer meant, which the supervisor never
  sees. In `Supervisor` frames are whole; one that `read_control_command` rejects is
  `InvalidFrame`.
- **The status file** of `Supervisor` is replaced in one step or, when the write
  fails, not at all.
- **Bytes** in `ControlFifo` carry the frame they belong to and their place in it.
  The reader does not see that; the properties compare what it made of the bytes
  with what their writer meant. `clean` is history too: whether a piece of a frame
  entered the pipe since it was last empty. Writers also send operations svlopp does not
  know. After a torn frame a whole frame's worth of bytes may decode to a command nobody
  sent; the code cannot tell and no property claims otherwise.
- **Snapshots** in `StatusFile` are numbered; a line of a file is the number of the
  snapshot it comes from. Inodes live as long as a name or a descriptor
  refers to them, so a reader keeps the file it opened. A write() takes at least one
  line: on a regular file it does not return 0, on which `write_all` would loop for ever.
- **Failures in the child** are of two kinds in `ChildSetup`: calls that cannot
  succeed in a given world (`bad`), and credentials, where whether a call succeeds
  depends on what the calls before it did.
- **Faults** names the system calls that may fail in an instance; `fork` also
  fails when no pid is free. Errors that end `run` from inside the loop
  (epoll_wait, waitpid, reads of the three descriptors) are one kind, `"loop"`.

## 3. Runs

| Run | Instance | Checks |
|---|---|---|
| `reload` | 2 names, 2 pids, two ids to hand out, three files (add, change, remove in any order), Restart commands with stale ids | `EveryChildSupervised`, `OneServicePerName`, `StatusCurrent`, `ReloadApplied`, `OutdatedReplaced`, `CommandsReachTheirService`, `RemovalSticks`, `RestartSticks` |
| `faults` | 1 name, every system call but the status write (see `orphans`) may fail, files that do not parse or hold NUL bytes, ids run out | `TypeOK`, `EveryChildSupervised`, `CleanExit`, `ReloadApplied`, `OutdatedReplaced`, `ArgvOfDefinition`, `ImplementsLifecycle` |
| `orphans` | 1 self-restarting service, 3 pids, descendants, undecodable frames, failing status writes, shutdown | `EveryChildSupervised`, `DeadChildNoticed`, `OrphansCleaned`, `NoEarlyKill` |
| `liveness` | 1 name, all commands and reloads, fair | `StopCompletes`, `RestartHappens` |
| `shutdown` | 2 names, nothing restarts by itself, no commands, no reloads, fair | `CleanExit`, `ShutdownCompletes` |
| `control_fifo` | 2 writers, 3 frames whole or torn, a known and an unknown operation, 2-byte ids whose bytes look like operations, a pipe of 6 bytes | `TypeOK`, `OrderlyReadsAreFaithful`, `ResultsExplained`, `NoIdleWakeup`, `InOrder`, `PipeDrained` |
| `status_file` | 1 reader, 3 inodes, snapshots of 2, 1, 0 and 2 lines, 2 starts, every call may fail, crashes | `TypeOK`, `ReadersSeeWholeSnapshots`, `FreshDirectory`, `RegisterSpec`, `FlushEnds` |
| `child_setup` | every combination of optional settings, 3 stop signals, root and not, INT inherited blocked or not, each call impossible or none | `TypeOK`, `NeverHalfSetUp`, `SetupFailsOnlyForCause`, `TerminalDoesNotReachPrograms`, `StopSignalArrives` |
| `shutdown_restart` | as `shutdown`, one service with `on_exit = Restart` | violates `ShutdownCompletes` |
| `reload_readd` | 1 name, removed and restored | violates `ReloadKeepsConfigured` |
| `stop_config` | 1 name, definition changes | violates `StopUsesRunningConfig` |
| `fallback` | 1 name, crashes while stopping | violates `FallbackNotAfterStop` |

**Bounds.** `MaxId`: ids are never reused, so `MaxId` bounds how many services are
ever created. With 2, two services are created (the last id is never handed out): a
name can be removed and come back, or another take its place, under a new id, and
the generator really runs out. `RestartSticks` is checked in `reload`, where a start
fails only for want of a pid, so that a restart dropped untried shows. Two pids for
two services mean that a replacement has to reuse a pid; the third pid in `orphans` leaves one for a descendant while the
service is restarted. Stop timeouts are 0 or 1: a tick can come before, at and
after the deadline. One command in the FIFO suffices for the staleness of its id,
since commands do not interact before they are read. Pids are symmetric in the
runs without liveness properties. In `control_fifo` the pipe holds two frames, so a
torn frame can be followed by a whole one and by its own rest, and three frames let
the stream become orderly again after a torn one; two bytes of two bits are enough
for an order of bytes to matter and for an id byte to pass for an operation. In
`status_file` the reader can hold an inode that has lost its name while both names
are in use (three inodes), and a crash at any call is followed by a whole second
life. In `child_setup` at most one call is impossible, since the first failure ends
the child.

**Fairness.** `WF(SupervisorStep)`: the loop blocks only in epoll_wait, which
returns when a descriptor is ready. `WF(TimerExpires)`: the timer is periodic
(1 s). `WF(TimePasses)`: the clock runs. `WF(ProcessKilled(p))`: SIGKILL cannot be
ignored. Nothing is assumed of users, or of what a service does with its stop
signal.

In `ControlFifo` only the event loop is fair; writers may stop half way. In
`StatusFile` a flush that was begun goes on (`WF(Write \/ Written \/ Fsync \/ Rename)`), which
is the same assumption; no call need fail. In `ChildSetup` the child is scheduled
(`WF(ChildExec)`) and the kernel
delivers signals that are not blocked (`WF(Deliver(s))`); the supervisor need not
act.

Deadlock is checked in the runs of `Supervisor`, where the model stutters explicitly
after the exit, and in `control_fifo` and `child_setup`; `status_file` may stop, when
svlopp is down for good.

## 4. What the violations show

1. **`shutdown_restart`** The timer arm (`main.rs:248`) applies restarts without
   looking at `sv_state`. A service that exited just before SIGTERM is started
   again after the only loop that stops services has run; it is never asked to
   stop and svlopp does not exit by itself.
2. **`reload_readd`** A service that is removed and restored unchanged before its
   process is reaped keeps `pending_action = Remove` (`service.rs:776` does nothing
   for an unchanged definition) and disappears although it is configured.
3. **`stop_config`** `update_config` precedes `stop_service` (`service.rs:783`), so
   the old process is stopped with the new definition's signal and timeout; the
   comment at `service.rs:780` says it continues with the old one.
4. **`fallback`** A fault signal during a stop is classified `Crashed`
   (`service.rs:134`), so the on_exit fallback is taken although svlopp was stopping
   the service; `README.md:222` says it is not.

One disagreement has no run: the repository's `README.md:111` draws the id of a
command with its most significant byte first, while the sentence above it says
little-endian, which is what the code does (`from_le_bytes`) and what
`OrderlyReadsAreFaithful` assumes of writers.

## 5. Proofs

Every safety property of a passing run, every action property and both refinements
are theorems. They are about the specifications without fairness and hold for every
value of the constants that satisfies the module's assumption:

- `Supervisor` (`ServiceAssumption`, `SupervisorAssumption`): any sets of names,
  definitions, pids, files and faults and any id limit. Two theorems say in their
  hypothesis which call must not fail: with a failing status write the file is
  legitimately old until the next flush, and a `kill(-pid)` that fails kills nobody;
  the code logs both and goes on. All others hold whatever fails.
- `ChildSetup` (`ChildSetupAssumption`): any set of definitions, users and
  surroundings, any number of impossible calls.
- `StatusFile` (`StatusFileAssumption`): any number of inodes, readers and starts,
  snapshots of any number and size.
- `ControlFifo` (`ControlFifoAssumption`): any width of bytes and ids, any distinct
  opcodes of the three operations and of any others, any number of writers, commands
  and frames, any pipe that holds a frame.

| Theorem | Property |
|---|---|
| `SupervisorProofs!TypeCorrect` | `[]TypeOK` |
| `SupervisorProofs!Supervision` | `[]EveryChildSupervised` |
| `SupervisorSafety!ExitIsClean` | `[]CleanExit` |
| `SupervisorSafety!NoChildForgotten` | `[]DeadChildNoticed` |
| `SupervisorSafety!NamesUnique` | `[]OneServicePerName` |
| `SupervisorSafety!CommandsSafe` | `[]CommandsReachTheirService` |
| `SupervisorSafety!RemovalIsFinal` | `RemovalSticks` |
| `SupervisorDeadlines!DeadlinesRespected` | `NoEarlyKill` |
| `SupervisorRefinement!Refinement` | `ImplementsLifecycle` |
| `SupervisorRefinement!OneProcessPerService` | `[]OneProcessEach` of `Lifecycle`, under the mapping |
| `SupervisorRefinement!RestartIsTried` | `RestartSticks` |
| `SupervisorRefinement!ArgvFollowsDefinition` | `[]ArgvOfDefinition` |
| `SupervisorRefinement!OutdatedIsReplaced` | `[]OutdatedReplaced` |
| `SupervisorOutcomes!StatusIsCurrent` | `[]StatusCurrent`, if status writes succeed |
| `SupervisorOutcomes!NoOrphanSurvives` | `[]OrphansCleaned`, if group kills succeed |
| `SupervisorOutcomes!ReloadIsApplied` | `[]ReloadApplied` |
| `ChildSetupProofs!ChildTypeCorrect` | `[]TypeOK` of `ChildSetup` |
| `ChildSetupProofs!SetupComplete` | `[]NeverHalfSetUp` |
| `ChildSetupProofs!FailuresHaveCauses` | `[]SetupFailsOnlyForCause` |
| `ChildSetupProofs!TerminalKeptAway` | `[]TerminalDoesNotReachPrograms` |
| `StatusFileProofs!StatusTypeCorrect` | `[]TypeOK` of `StatusFile` |
| `StatusFileProofs!ReadersAreSafe` | `[]ReadersSeeWholeSnapshots` |
| `StatusFileProofs!DirectoryIsFresh` | `[]FreshDirectory` |
| `StatusFileProofs!FileIsARegister` | `RegisterSpec` |
| `ControlFifoProofs!RoundTrip` | decoding inverts encoding, unknown operations are refused with their byte |
| `ControlFifoProofs!FifoTypeCorrect` | `[]TypeOK` of `ControlFifo` |
| `ControlFifoProofs!ReadsAreFaithful` | `[]OrderlyReadsAreFaithful` |
| `ControlFifoProofs!ResultsAreExplained` | `[]ResultsExplained` |
| `ControlFifoProofs!NeverWokenForNothing` | `[]NoIdleWakeup` |
| `ControlFifoProofs!FramesInOrder` | `InOrder` |

**The base invariant** is `Inv == TypeInv /\ Supervised /\ FreshIds`.
`EveryChildSupervised` is not inductive alone: `Reap` needs zombies to have an exit
status; `StartOk` needs the pid it takes to be nobody's (`FreeUnused`) and, for a new
service, the id to be unused (`FreshIds`); `BootStart` needs the services it visits
not to run (`BootStopped`); the loops need what they visit to exist
(`LoopsDefined`, `EntriesWhole`). Types depend on these too (a deadline is a number
because the definition is there), so both are proved together, one lemma per
action, from lemmas on the five ways the code writes a record (`Store`, `StartOk`,
`StopOk`, a new service, a removal).

**`SupervisorSafety`.** `CleanExit`: the exit is taken only when all are stopped, and
then `EveryChildSupervised` leaves no process. `DeadChildNoticed` needs that a batch
is worked off before the next is read (`BatchInSignals`). The last three share
`EntriesNext`: a step keeps an entry under its name, drops it, or adds one under
`next_id`. Unique names need what each loop knows of the names it has yet to visit
(`Indexed`); commands need that every id in the status file and the FIFO has been
handed out (`KnownInv`).

**`SupervisorDeadlines`.** The deadline in the record equals what the process is
owed (`Owed`), what a tick still has to visit stays overdue (`TickOverdue`), service
processes lead their own group (`Leads`), and the group about to be killed is not
that of a service again (`GroupVacant`): so the group kill, which looks at no
deadline, meets no service process.

**`SupervisorRefinement`.** `RegistryStep` lists the ways in which any step may write
the registry: not at all, a record stored, started or asked to stop in one of its
`Versions`, what a tick makes of a stopped service, a service dropped, a service
created under `next_id`, a reaped process buried. Every action is shown to be one of
them, under the base invariant; the refinement, `RestartSticks`,
`ArgvOfDefinition` and `OutdatedReplaced` then argue about these few ways and no longer about the actions.
For `OutdatedReplaced` a record that a step writes keeps its definition or comes with an
action (`Redefined`), and a process is started with the definition its service has at that
moment. `OneProcessEach` follows from `Supervised` under the mapping.

**`SupervisorOutcomes`.** The status file: `StatusInv` says current between any two
handlers, not only at the wait; the loop gets there only through actions that flush
or change nothing it shows. Groups: `OrphansCleaned` is inductive with `GroupsNamed`,
because a pid is not handed out while a group has its number. Reload:
`RemoveLoop`, `ApplyLoop` say what the visited part of each loop has established and
that nothing between two iterations undoes it (no process is reaped inside this
handler, so what is leaving stays live and marked), `IndexRight` that the index taken
at the start still finds the services; names must be unique (`NamesInv`).

**`ChildSetupProofs`.** `NeverHalfSetUp` speaks of the end of `child_exec` only.
`Prepared` says for each call what the ones before it have done and that the ones
after it have not been made; the latter is what `FailuresHaveCauses` needs (the group
is changed while the user is still svlopp's). `TerminalKeptAway` rests on
`CtrlCKills`: a child reached by Ctrl+C has INT pending and is at sigprocmask or
setpgid, and once the mask is restored INT comes before the next call.

**`StatusFileProofs`.** What can be opened under the file's name is whole
(`PathWhole`), and stays so because the writer holds only the temporary inode, which
no reader has ever had (`TmpPrivate`) and which contains exactly what was written
(`WriterInStep`); what a reader has is a prefix of a whole file (`ReadersInStep`); a
running svlopp is in a directory it made (`OwnDirectory`). The rename is the
register's one step, everything else up to the removal of the directory stutters.

**`ControlFifoProofs`.** The codec is arithmetic over the bytes of an id. Induction is
stated for a set of numbers (`NatSetInduction`, from the well-foundedness of `<`), and
`Recursion` shows that a recursive function whose step is given as a function exists;
with both, `from_le_bytes` of the digits of an id is that id for any number of bytes.
The stream: in a pipe that is clean, every byte has its whole frame around it and
frames are consecutive (`FramesAligned`, `Consecutive`), so a read that starts at the
head starts at a frame; bytes are those of the frames written (`BytesGenuine`);
`LastRead` connects what was consumed with what was decoded. `FramesInOrder` is about
every read, the first included: `Consecutive` also says that the head of an untorn pipe is
the frame after the last one read (`LastFrame`, 0 before the first).

**Only model-checked:** the liveness properties `StopCompletes`, `RestartHappens`,
`ShutdownCompletes`, `PipeDrained`, `FlushEnds` and `StopSignalArrives`:
fairness and ENABLED are outside this prover's reach. The four disagreements of
section 4 are counterexamples and need no proof.

## 6. Not modelled

Command line, logging, TOML parsing and the accessors of `signalfd_siginfo`:
formatting and wrappers without state. Stopped and continued children do not occur
without WUNTRACED. Power loss, which the fsync is for, is not modelled: the run
directory belongs on a tmpfs, and nothing in it outlives svlopp. Two instances of
svlopp on one run directory are not modelled: the code has no lock, and the second
simply takes the directory over. Stop signals that svlopp inherits ignored are left
out of `ChildSetup`. Clock arithmetic near the limits of Instant is not modelled.

## 7. Plan

Done: the core loop, the three refined layers below it, and the proofs above. Left:

1. `OrphansCleaned` and `StatusCurrent` with their faults: a survivor only where the
   kill of its group failed, a file that is old but was once the registry.
2. The safety half of `ShutdownCompletes`: once shutting down, the only live service
   processes are those asked to stop and those a tick has restarted.
3. What `Lifecycle` promises on its own (ids only grow, a buried process is never
   owned again), proved there and carried over by `Refinement`.

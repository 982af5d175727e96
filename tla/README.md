# Verification of the multi-user endpoint manager

This directory holds TLA+ models of the multi-user endpoint manager of
`globus_compute_endpoint`
(`src/compute_endpoint/globus_compute_endpoint/endpoint/endpoint_manager.py`,
class `EndpointManager`). It also holds the TLC configurations that
model-check them and TLAPS proofs of their main invariants. `PROJECT.json`
maps every model definition to the source lines it translates.

## 1. The system

The manager is a long-lived supervisor process. Its parts (numbered as in
`spec.md`) are:

| Part | Code | State | Operations |
|---|---|---|---|
| C0 construction | `__init__` 97-301 | `endpoint.json`, the registration, `identity_mapper` | register, check the answer, build the mapper, persist the id, or exit with a code |
| C1 identity mapping | `__init__` 196-241, `_event_loop` 497-524, 601-672 | `identity_mapper`, `parent_identities` | map an identity set to a local user, or check it against the manager's own identities |
| C2 command-queue subscriber | `CommandQueueSubscriber` (not under `src/`) | the local `_command_queue`, `_command_stop_event` | deliver a command, ack it, give up |
| C3 heartbeat publisher | `send_heartbeat` 391-415 | publisher thread | publish a status report (`heartbeat_period` 0 when shutting down) |
| C4 child registry and cache | `_children`, `_cached_cmd_start_args` (TTLCache) | pid → record; pid → start arguments | register, pop, cache, expire |
| C5 dispatch loop | `_event_loop` 495-709 | loop flags | poll, validate, resolve the user, dispatch `cmd_start_endpoint`, send failure notices |
| C6 child launcher | `cmd_start_endpoint` 767-1049, `send_failure_notice` 711-765 | the forked child | fork; in the child, drop privileges, `setsid`, redirect fds, exec, exit with a breadcrumb code |
| C7 supervisor | `request_shutdown`, `set_child_died`, `wait_for_children`, `_revive_child`, `start` 315-493 | `_time_to_stop`, `_wait_for_child` | handle signals, reap and revive children, shut down in two passes |

How they interact:

* The subscriber thread appends deliveries to a queue. The supervisor thread
  takes one per loop iteration (1 s timeout) and acks it before handling.
* Signal handlers run between any two steps of the supervisor. They only
  set `_time_to_stop` (SIGTERM/INT/QUIT) or `_wait_for_child` (SIGCHLD).
* Children are forked from the supervisor thread. A child exits whenever it
  likes; the kernel then keeps it as a zombie until `waitpid` reaps it.
* A start command for a name that is already running is not forked. Its
  arguments are cached against the running pid. If that child exits with
  status 0 inside the grace period, `wait_for_children` revives it from the
  cache through `cmd_start_endpoint`.
* On shutdown, `start()` first signals its own process group with SIGTERM
  (which runs its own `request_shutdown`). It then makes two passes over the
  registry (SIGTERM, then SIGKILL). Each pass takes on the child's uid/gid,
  signals `getpgid(pid)` and waits up to 10 s while reaping.

The behaviours that make this hard are:

* signal handlers interleaving with the loop;
* children exiting at any time, and pids being reused;
* revival of cached arguments that can be stale;
* the order of a child's `setsid` against the shutdown's process-group
  signals;
* the two privilege views (`is_privileged()` against
  `is_privileged(user_privs_only=True)`).

## 2. Modules

### `EndpointManager.tla`: the manager (C4, C5, C7, parts of C1, C2, C6)

**State.** The variables correspond to the code as follows:

* `children` and `cached` are `_children` and the TTL cache, as total
  functions on `Pids`. `NoRec` and `NoArgs` stand for "absent".
* `proc`, `rc` and `grp` are the kernel's view of each pid: free, alive or
  zombie; the exit status (0 or nonzero); and whether the child is still in
  the manager's process group.
* `timeToStop`, `waitForChild` and `cmdStop` are the three flags.
* `parentIds` is `parent_identities`.
* `q` and `delivered` are the local command queue and a delivery counter
  bounded by `MaxCmds`.
* `passwd` is the set of local users that exist.
* `pc`, `ret`, `pass`, `toSignal` and `iterated` are the supervisor's
  position in `start()`.

**Supervisor steps.** Each is one iteration of a loop of the code:

* `EventLoopStart`: the identity lookup at the start of `_event_loop`.
* `LoopTop`: the `while` test and the `_wait_for_child` test.
* `Poll`: `get` and `ack`, then `Handle`, the whole handling of one command
  with every early `continue`.
* `ReapStep`: one `waitpid` iteration with its revival.
* `ShutdownBegin`, `SignalChild` and `WaitPass`: the shutdown of `start()`.

`cmd_start_endpoint` is `StartEndpoint`, the disjunction of `StartRaises`
(the exception is handled by the caller's `OnError`) and `StartReturns`
(cache, or fork).

**Environment steps.** These are:

* `Deliver` and `SubscriberStop`: the subscriber, modelled from the spec.
* `ChildExit`: the exit, with the SIGCHLD handler.
* `ChildSetsid`: the child's `os.setsid()` at line 943.
* `Terminate`: SIGTERM.
* `Expire`: TTL expiry or eviction.
* `RemoveUser`: a local user deleted by the administrator.

**Abstractions.** What the model simplifies, and why each is safe:

* **Handler atomicity.** A command's whole handling is one step, and so is
  one reap iteration. Signal handlers only set flags, and the handling code
  reads those flags only at the points the model reads them.
* **Exit statuses** are collapsed to 0 and nonzero, because the code only
  tests `if not rc`.
* **Failure-notice helpers** get the name `NoName`. The code names them with
  their pid (`ep_name=f"{pid}"`), which can only collide with a user
  endpoint whose name is a number.
* **Privileges and identities.** The user and identity sets are model
  values. The policy file is the constant `IdMap`. The two privilege checks
  are the constants `UidPriv` and `AnyPriv`, with `UidPriv => AnyPriv`.
* **Commands.** Freshness, well-formedness and the method name are Boolean
  or three-valued fields of a command.
* **SIGTERM** during shutdown may or may not make a child exit; the model
  leaves that to `ChildExit`. SIGKILL kills at once.
* **The 10 s deadline** is a nondeterministic give-up after at least one
  iteration (`iterated`).
* **Dict iteration order** in the shutdown passes is any order (`toSignal`).
* **Records** carry a history field `ids`: the identity set of the command
  the child came from. The code keeps it only in its log text; the
  authorisation property needs it.

### `MC_EndpointManager.tla`: instances for TLC

This module has three pids, two users (`mu`, the manager's user, and
`alice`), two names and two identities. `i1` maps to `alice` and `i2` maps
to `mu`. There are six commands: three well-formed starts (both identities,
both names) and one of each kind of refusal (stale, non-JSON, unknown
method). Pids are symmetric: no definition tells two of them apart.

### `ChildLauncher.tla`: the forked child (C6)

This module covers the child branch of `cmd_start_endpoint` (lines
828-1049), for a set `Kids` of forked children that run on their own.

* **Steps.** One action per stretch of the `try` block between two
  `exit_code += 1` lines: `Bootstrap`, `Initgroups`, `Setresgid`,
  `Setresuid`, `Sandbox` (capabilities, no-new-privs, `setsid`), `Umask`,
  `Chdir`, `Render`, `Devnull`, `Pipe`, `Stdin`, `Stdout`, `Stderr`,
  `Write`, `Rlimit`, `Closerange` and `Exec`.
* **The two paths.** The three uid-change steps run only when the child's
  uid or gid differs from the manager's (`UidChange`).
* **Failure.** Any step may raise. `Fail` is the `except` (the notice is
  sent without forking) and the `finally` (`os._exit(exit_code)`).
* **State.** Each child has credentials (uid, gid, groups, capabilities,
  no-new-privs, session), its descriptor table (open descriptors and what
  0, 1 and 2 refer to), its breadcrumb `code`, the step that raised, and
  the payload size written to its own stdin pipe.
* **Privileges.** `privs` says whether the manager may set gid and uid. It
  is chosen once in `Init`. `os.initgroups` always needs the gid
  privilege, and its `PermissionError` is ignored (line 899).
  `setresgid`/`setresuid` succeed without privilege when the id is already
  the process's own (`SameGid`, `SameUid`: the target's gid or uid is the
  manager's) and raise otherwise. `SameIdAssumption` ties these to
  `UidChange`.
* **The pipe check.** `Pipe` is the pipe-size check: a payload of more
  than `PipeSize - 256` bytes raises `ValueError`. `Write` blocks
  (`status = "blocked"`) when the payload is larger than the buffer,
  because nothing reads the pipe before the exec.

`MC_ChildLauncher.tla` has three children:

* one whose target shares the manager's primary gid but not its uid;
* one that differs in both;
* one that keeps the manager's credentials (the other path).

It uses a 64 KiB buffer and payloads at the limit, one byte above it
(still fitting the buffer), and larger than the buffer.

### `ManagerStartup.tla`: construction and registration (C0)

This module covers `__init__` from the endpoint-id lookup to
`endpoint.json`, one action per stage:

* `Launch`: `endpoint_uuid = get_endpoint_id(conf_dir) or endpoint_uuid`,
  and the privilege of this launch.
* `Register`: `register_endpoint`. The answer has an id and a payload that
  is well-formed or not. The refusals exit with `EX_UNAVAILABLE` or
  `EX_DATAERR`, another API error escapes (exit 1), and a network failure
  exits with `EX_TEMPFAIL`.
* `IdCheck`: a mismatched id exits with `EX_SOFTWARE`.
* `MapperInit`: uid-change privilege with no path exits with `EX_OSFILE`,
  `PermissionError` with `EX_NOPERM`, and any other error with
  `EX_CONFIG`.
* `ShapeCheck`: a missing queue key exits with `EX_DATAERR`. Otherwise the
  answered id is written to `endpoint.json`.

The process may be killed at any stage (`Kill`). A constructed manager may
end (`Finish`). The administrator may relaunch it up to `MaxLaunches`
times, each time with any id argument, privilege and mapping path.
`endpoint.json` (`disk`) and what the control plane has registered
(`upstream`) survive a relaunch; everything else is per process.

The control plane is not under `src/`. It may answer with any id,
including one other than the id asked for, which is why the code checks
the answer. `MC_ManagerStartup` has two ids and four launches.

### `EndpointRegistry.tla`: what the manager promises

This is an abstract specification with two variables:

* `up`: a set of running endpoints, each a name, a user and the identity
  set that asked for it;
* `phase`: "serving", "draining" or "done".

Its actions are:

* `Start`: a free name, for an allowed user and identity pair, while
  serving;
* `Exit`;
* `Revive`: exit and restart in one step, while serving;
* `Drain`;
* `Finish`: only with nothing running.

It states two guarantees: `RegistrySafe` (one endpoint per name, each
allowed, none when done) and `StopIsFinal` (once serving stops, it never
resumes and nothing starts). No run checks them directly: they are proved
for the abstract specification and, through the refinement, for the
manager (section 5).

`EndpointManager` instantiates it as `Registry` under this refinement
mapping:

* `up` is the set of `[name, user, ids]` of the registry's user-endpoint
  records (`UepView`). Pids, zombies, notice helpers, the queue and the
  cache are hidden.
* `phase` is `PhaseView`. It is "serving" while `start()` is in the event
  loop, or reaping on the loop's behalf. It is "done" when `start()` has
  returned, and "draining" otherwise.
* `Allowed` is the pairs that `Authorized` accepts.

`RegistryRefined == Registry!Spec` is checked by TLC (run `refine`) and
proved by TLAPS.

### Proof modules

| Module | Extends | Proves |
|---|---|---|
| `EndpointManagerProofs` | EndpointManager | `TypeCorrect`, `ChildrenAuthorizedInvariant`, `UniqueEpNameInvariant` |
| `SupervisorProofs` | EndpointManagerProofs | `RegistryMatchesProcsInvariant`, `NoLostWakeupInvariant`, `ShutdownReapsAllInvariant`, `OwnIdentityAcceptedInvariant` |
| `EndpointRegistryProofs` | EndpointRegistry | `RegistrySafeInvariant`, `StopIsFinalHolds` |
| `RegistryProofs` | SupervisorProofs | `RegistryRefinement`, `ManagerStopIsFinal`, `RevivalUserExistsHolds` |
| `ChildLauncherProofs` | ChildLauncher | `LaunchTypeCorrect`, `ExecPrivilegesDroppedInvariant`, `NoStdinDeadlockInvariant`, `FailureCodeIsBreadcrumbInvariant` |
| `ManagerStartupProofs` | ManagerStartup | `IdStableHolds`, `StartupTypeCorrect` |

## 3. Runs

| Run | Config | Checks | Shows |
|---|---|---|---|
| priv | `MC_EndpointManager_priv.cfg` | TypeOK, RegistryMatchesProcs, UniqueEpName, ChildrenAuthorized, NoLostWakeup, ShutdownReapsAll, RevivalUserExists | A root manager keeps the registry in step with the kernel and one child per name. Only authorised users are started, directly or by revival. No revival starts an endpoint for a removed user. No SIGCHLD is lost. Shutdown ends with an empty registry. |
| unpriv | `MC_EndpointManager_unpriv.cfg` | ChildrenAuthorized, OwnIdentityAccepted | An unprivileged manager serves exactly its own identities. |
| live | `MC_EndpointManager_live.cfg` | ZombiesReaped | Every exited child is eventually reaped. |
| refine | `MC_EndpointManager_refine.cfg` | RegistryRefined | Every manager step is an abstract registry step or a stutter. |
| launcher | `MC_ChildLauncher.cfg` | TypeOK, ExecPrivilegesDropped, NoStdinDeadlock, FailureCodeIsBreadcrumb | A child execs only with its uid, gid, capabilities and descriptors dropped or set. It never blocks on its own stdin. A failing child exits with the breadcrumb of its step, never 0. |
| startup | `MC_ManagerStartup.cfg` | TypeOK, IdStable | Across kills and relaunches with any argument, `endpoint.json` is never rewritten with another id. |
| selfkill | `MC_EndpointManager_selfkill.cfg` | ManagerSurvivesShutdown (violation expected) | The SIGKILL pass can kill the manager. |
| breadcrumb | `MC_ChildLauncher_breadcrumb.cfg` | BreadcrumbIdentifiesStep (violation expected) | One exit code names different failing steps on the two paths. |
| groups | `MC_ChildLauncher_groups.cfg` | ExecGroupsDropped (violation expected) | A manager that may setuid but not setgid execs a user endpoint with its own supplementary groups. |
| revival | `MC_EndpointManager_revival.cfg` | RevivalRestartsSameEndpoint (violation expected) | A stale cache entry revives a crashed endpoint. |
| capability | `MC_EndpointManager_capability.cfg` | OwnIdentityAccepted (violation expected) | A manager with a non-uid capability refuses its own identities. |

**Bounds.** The bounds were chosen so that the interesting cases happen.

*EndpointManager:*

* Three pids allow two children of one name to be attempted while a
  failure-notice helper holds a third pid. They also make every fork fail
  for lack of a pid at some point, and let the kernel reuse a pid.
* Three commands are enough for the sequence start, duplicate start
  (cached), exit 0 (revival), and a concurrent start of the other name.
* The priv and refine runs reach about 159 000 distinct states, unpriv
  about 154 000 and live about 60 000. Each takes seconds.

*ChildLauncher:*

* Three children cover both paths, and both outcomes of an unprivileged
  `setresgid`.
* Every step may fail, under all four privilege outcomes.
* The run reaches about 55 000 states.

*ManagerStartup:*

* Four launches allow a launch that registers and then fails a local
  check, a relaunch that persists an id, and two more relaunches with the
  other id, or none, as argument.
* Two ids are enough for a mismatch.
* The run reaches about 13 000 states.

Each property of a passing run has a mutant in `PROJECT.json`: a plausible
bug in the mapped code (a dropped guard, a skipped step, a wrong variable)
that TLC catches under the run's own configuration.

**Fairness.** `FairSpec` (run `live` only) assumes weak fairness of the
supervisor thread alone. The code justifies this: every wait of that
thread is bounded (the 1 s queue poll, `waitpid(WNOHANG)`, 0.5 s sleeps,
the 10 s heartbeat future). No fairness is assumed for the environment:
children, users and the subscriber may do nothing.

**Deadlock** is checked for the manager: the stopped manager stutters
(`Terminated`). It is not checked for `ChildLauncher` or `ManagerStartup`,
whose processes really end: a child execs or exits, and a manager process
that has exited stays down once the launches are used up.

## 4. Findings

### Shutdown can SIGKILL the manager itself (run `selfkill`)

`start()` line 471 sends `os.killpg(os.getpgid(pid), SIGKILL)` for every
registered child. Two kinds of child share the manager's process group:

* A failure-notice helper is forked without `setsid`, and its record has
  `local_user_info=None`, so `setresgid`/`setresuid` get -1 and change
  nothing.
* A user-endpoint child has not yet reached `os.setsid()` (line 943).

If one of these is still registered in the second pass, the manager kills
its own group, including itself. The remaining children are never reaped,
and `start()` never returns. `spec.md` says that shutdown "always
progresses" and that "the registry is emptied before return".

### The breadcrumb exit code is ambiguous (run `breadcrumb`)

The three `exit_code += 1` of the uid-change block run only when the child
changes user. So code 71 means "initgroups failed" on one path and
"sandbox failed" on the other; 73 is setresuid on one and chdir on the
other, and so on up to exec. Spec 4.6 says a failing child "MUST `_exit`
with a numeric code that encodes *where* it failed". The parent does not
know which path the child took, so it cannot decode the code.

### A partly privileged manager keeps its groups (run `groups`)

The child ignores a `PermissionError` from `os.initgroups` whatever the
manager's privileges (line 899). `os.setresgid(gid, gid, gid)` (line 921)
needs no privilege when `gid` is already the process's own. Take a
manager that may change uid but not gid, starting a user whose primary
gid is the manager's:

* initgroups fails, and the failure is ignored;
* setresgid is allowed, since the gid does not change;
* setresuid succeeds, since the manager may change uid.

The user endpoint then runs as that user with the manager's supplementary
groups. Spec 4.6 step 6 tolerates the initgroups failure only "on
unprivileged managers" and makes the set-id failures fatal.

### A stale cache entry revives a crashed endpoint (run `revival`)

Cached start arguments are keyed by pid. They are popped only when that
pid exits with status 0 (line 337). After a nonzero exit the entry stays.
A new child that gets the same pid, such as a failure-notice helper (which
always exits 0), then revives the crashed endpoint under the old request.

### A non-uid capability disables every command (run `capability`)

`__init__` builds the identity mapper only when
`is_privileged(user_privs_only=True)` (line 200). `_event_loop` fetches the
parent identity set only when `is_privileged()` is false (line 497). So a
manager that holds any other capability has neither, and refuses every
start command, including those from its own identities. The spec (4.5, 6,
and the glossary) says that such a manager honours commands whose identity
set meets the parent set. The unpriv run shows the property holds when
neither check is true.

## 5. What is proved

The theorems hold for every value of the constants that satisfies the
modules' `ASSUME`s (`ConstantsAssumption`, `LauncherAssumption`,
`StartupAssumption`, `SameIdAssumption`: sentinels outside their sets, `UidPriv => AnyPriv`,
natural bounds).

**Types.** `TypeCorrect` and `LaunchTypeCorrect` each prove one step per
action. Lemmas type the fork helpers (`Spawn`, `Keep`, `StartReturns`,
`FailureNotice`) once.

**`ChildrenAuthorizedInvariant`.** The invariant is strengthened to
`AuthInv`, because a revival forks from *cached* arguments:

* `CachedAuthorized`: every cached argument's user is one its identity
  set maps to. This does not exclude the manager's own user, since caching
  comes before the same-user check.
* `ParentIdsOK`: `parent_identities` is empty or the manager's own set,
  and is empty when the manager is privileged.

**`UniqueEpNameInvariant`.** This invariant is inductive relative to
TypeOK: a user endpoint is forked only after the registry scan.

**`RegistryMatchesProcsInvariant`.** A record exists exactly while the
kernel holds the pid. The proof has one lemma per fork helper.

**`NoLostWakeupInvariant`.** The strengthening adds `NothingForked`: no
child exists before the loop starts. The key lemma, `ReapStepPc`, says the
waitpid loop returns to its caller only when no zombie is left.

**`ShutdownReapsAllInvariant`.** The strengthening `ShutdownInv` says:

* once shutdown starts, `_time_to_stop` is set, which blocks revival;
* while the registry is being waited on, every child has been signalled;
* in the SIGKILL pass, every registered child is either still to be
  signalled or a zombie;
* a wait that iterated in the SIGKILL pass has emptied the registry.

**`RegistryRefinement`.** The proof takes `RInv`, the conjunction of
`AuthInv`, `UniqueEpName`, `RegistryMatchesProcs`, `ShutdownInv` and
`UepView \subseteq Registry!Ep`. Lemmas about `View` (adding, keeping and
removing a record) and about each fork helper show that every step maps
to one of the following:

* `Start` (a fork of a fresh name);
* `Exit`, or `Revive` (a reap of a user endpoint);
* `Drain` (leaving the loop);
* `Finish` (by `ShutdownInv`);
* a stutter.

`UniqueEpName` is needed so that popping one record removes its view
element. `ShutdownInv` is needed because `Finish` requires an empty
registry.

**`ExecPrivilegesDroppedInvariant`, `NoStdinDeadlockInvariant`.** The
strengthening `LaunchInv` gives, for each step, what a child about to run
it has done: its descriptor table (`FdsAt`) and its credentials. The
set-id steps include their unprivileged success. `ExecPrivilegesDropped`
covers the uid and gid, not the supplementary groups, which the `groups`
run shows the code can leave as the manager's.

**`RevivalUserExistsHolds`** (in `RegistryProofs`). This theorem proves the
action property `RevivalUserExists` from `TypeOK` and
`RegistryMatchesProcs`. Popping a record never adds to the view
(`ViewPop`). The only fork in a reap is the revival, and it is guarded by
the `getpwuid` refresh.

**`IdStableHolds`.** This theorem proves the action property `IdStable`
from `IdInv`, which has two parts:

* while a launch is constructing, an id on disk is the id it asked for;
* past the check, the answer equals the id asked for.

**`StartupTypeCorrect`.** Every state that construction reaches is well
typed. The proof reuses `IdInv`, which contains `TypeOK`.

**`FailureCodeIsBreadcrumbInvariant`.** The strengthening is `CodesOK`.
TLC checked it on the `launcher` instance before the proof. It has two
parts for each child:

* its `exit_code` counter is the breadcrumb of the step it is at;
* an exited child's status is that counter and its recorded step is that
  step.

`Breadcrumb` is a `CHOOSE` over the path's indices. So the lemma
`BreadcrumbTable` computes its values once, from `PathsDistinct` (both
paths list distinct steps). Each step then only needs "the next step's
breadcrumb is one more". The uid-change steps take `UidChange` from
`LaunchInv`.

**`OwnIdentityAcceptedInvariant`.** This theorem is proved under the
hypothesis `AnyPriv => UidPriv`: any privilege the manager has includes
the uid-change one. The strengthening is `LookupDone`: while the loop
serves, an unprivileged manager holds its own identity set in
`parent_identities`.

The hypothesis is needed, and it is not an assumption the code justifies.
The `capability` run shows the property fails without it: a manager with
another capability skips the lookup and builds no mapper. The theorem
therefore says the property holds exactly when the two privilege checks
agree.

**`RegistrySafeInvariant`, `StopIsFinalHolds`** (in
`EndpointRegistryProofs`). These are stated about the abstract registry,
for any names, users and allowed pairs:

* at most one running endpoint per name;
* every running endpoint is allowed;
* none is running once the manager has finished;
* once serving stops, it never resumes and the set of running endpoints
  only shrinks.

`RegistrySafe` is inductive as it stands.

**`ManagerStopIsFinal`.** This carries `StopIsFinal` to the manager
through `RegistryRefinement`. `RP` instantiates the proofs module with the
refinement mapping. After the supervisor leaves the event loop, no fork
or revival starts a user endpoint, and serving never resumes.

**TLC only.** These results are checked by TLC but not proved:

* liveness (`ZombiesReaped`), since the prover cannot reason about
  fairness and `ENABLED` here;
* `OwnIdentityAccepted` on the `capability` instance, where the
  hypothesis above fails and TLC shows the violation;
* the other violations.

## 6. Not modelled

* **The heartbeat publisher** (`send_heartbeat` 391-415). It only
  publishes, and no manager state depends on the outcome.
* **`config.py`.** It normalises values once, and the models take its
  outputs as constants (`ForceSameUser`, the grace period as `Expire`).
* **The legacy `register_endpoint.py`.** It is a sequential file writer.
* **Code outside `src/`.** `PosixIdentityMapper`, the command-queue
  subscriber and `Endpoint.get_endpoint_id` are outside `src/`. The
  subscriber is modelled from the spec, as `Deliver` (any command, any
  number of times) and `SubscriberStop`.
* **The credential switch around `killpg` in shutdown.** The model has no
  process credentials for the manager, so a failing restore is not
  modelled.
* **A torn write of `endpoint.json`.** The model writes it atomically.

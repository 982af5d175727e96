--------------------------- MODULE ChildLauncher ---------------------------
(***************************************************************************)
(* The child branch of EndpointManager.cmd_start_endpoint: the privilege-  *)
(* drop pipeline that a forked child runs before it execs the user         *)
(* endpoint (endpoint_manager.py 828-1049).                                *)
(*                                                                         *)
(* Each forked child runs the pipeline on its own; a step is one stretch   *)
(* of the try block between two "exit_code += 1" lines.  Any step may      *)
(* raise; the except clause sends the failure notice without forking and   *)
(* the finally clause exits with the breadcrumb exit_code.                 *)
(***************************************************************************)
EXTENDS Naturals, Sequences

CONSTANTS
    Kids,       \* forked children
    UidChange,  \* per child: (os.getuid(), os.getgid()) != (uid, gid)
    SameUid,    \* per child: the target uid is the manager's uid
    SameGid,    \* per child: the target gid is the manager's gid
    PipeSize,   \* fcntl(write_handle, F_GETPIPE_SZ)
    Payloads    \* sizes of the JSON written to the child's stdin

ASSUME LauncherAssumption ==
    /\ UidChange \in [Kids -> BOOLEAN]
    /\ PipeSize \in Nat /\ Payloads \subseteq Nat

\* The uid-change block runs exactly when the target's uid or gid differs.
ASSUME SameIdAssumption ==
    /\ SameUid \in [Kids -> BOOLEAN] /\ SameGid \in [Kids -> BOOLEAN]
    /\ \A k \in Kids : UidChange[k] = ~(SameUid[k] /\ SameGid[k])

\* exit_code = 70, and the headroom kept below the pipe buffer size.
FirstCode == 70
Headroom == 256

Steps == {"bootstrap", "initgroups", "setresgid", "setresuid", "sandbox",
          "umask", "chdir", "render", "devnull", "pipe", "stdin", "stdout",
          "stderr", "write", "rlimit", "closerange", "exec"}

\* Credentials: "mgr" (inherited from the manager) or "target".
CredType == [uid: {"mgr", "target"}, gid: {"mgr", "target"},
             groups: {"mgr", "target"}, caps: BOOLEAN, nnp: BOOLEAN,
             sid: {"mgr", "own"}]

\* Descriptors above 2 that are open, and what 0, 1 and 2 refer to.
FdsType == [open: SUBSET {"inherited", "null", "pipe_r", "pipe_w"},
            std: [0..2 -> {"tty", "null", "pipe_r"}]]

VARIABLES
    privs,    \* may the manager setgid / setuid (fixed for the run)
    at,       \* the step a child is in
    code,     \* its exit_code
    status,   \* "run", "exec" (replaced by the endpoint), "exited", "blocked"
    exit,     \* the status it exited with
    failedAt, \* the step that raised (history)
    cred,     \* its credentials
    fds,      \* its file descriptors
    payload   \* size of stdin_data

vars == <<privs, at, code, status, exit, failedAt, cred, fds, payload>>

-----------------------------------------------------------------------------
Init ==
    /\ privs \in [setgid: BOOLEAN, setuid: BOOLEAN]
    /\ at = [k \in Kids |-> "bootstrap"]
    /\ code = [k \in Kids |-> FirstCode]
    /\ status = [k \in Kids |-> "run"]
    /\ exit = [k \in Kids |-> 0]
    /\ failedAt = [k \in Kids |-> "bootstrap"]
    /\ cred = [k \in Kids |-> [uid |-> "mgr", gid |-> "mgr", groups |-> "mgr",
                               caps |-> TRUE, nnp |-> FALSE, sid |-> "mgr"]]
    /\ fds = [k \in Kids |-> [open |-> {"inherited"},
                              std |-> [i \in 0..2 |-> "tty"]]]
    /\ payload = [k \in Kids |-> 0]

\* Child k is running step s.
In(k, s) == status[k] = "run" /\ at[k] = s

\* Seeded bug: the finally clause is dropped, so the failure notice's
\* sys.exit() ends the child with status 0.
FailNoticeExit(k) ==
    /\ status' = [status EXCEPT ![k] = "exited"]
    /\ exit' = [exit EXCEPT ![k] = 0]
    /\ failedAt' = [failedAt EXCEPT ![k] = at[k]]
    /\ UNCHANGED <<privs, at, code, cred, fds, payload>>

\* The step raises: send_failure_notice(fork=False), then sys.exit(exit_code).
Fail(k) ==
    /\ status' = [status EXCEPT ![k] = "exited"]
    /\ exit' = [exit EXCEPT ![k] = code[k]]
    /\ failedAt' = [failedAt EXCEPT ![k] = at[k]]
    /\ UNCHANGED <<privs, at, code, cred, fds, payload>>

\* The step completes: exit_code += 1 and on to step s.
Go(k, s) ==
    /\ at' = [at EXCEPT ![k] = s]
    /\ code' = [code EXCEPT ![k] = @ + 1]
    /\ UNCHANGED <<privs, status, exit, failedAt>>

\* A step that completes with credential record c and descriptors f.
GoWith(k, s, c, f) ==
    /\ Go(k, s)
    /\ cred' = [cred EXCEPT ![k] = c]
    /\ fds' = [fds EXCEPT ![k] = f]
    /\ UNCHANGED payload

-----------------------------------------------------------------------------
(* The steps, in the order of the code.                                    *)

\* Imports, logging, the config template, PATH and the environment file
\* (whose errors are only logged), HOME, then chdir("/").
Bootstrap(k) ==
    /\ In(k, "bootstrap")
    /\ \/ Fail(k)
       \/ GoWith(k, IF UidChange[k] THEN "initgroups" ELSE "sandbox",
                 cred[k], fds[k])

\* initgroups: a PermissionError is logged and ignored.
Initgroups(k) ==
    /\ In(k, "initgroups")
    /\ \/ Fail(k)
       \/ /\ privs.setgid
          /\ GoWith(k, "setresgid", [cred[k] EXCEPT !.groups = "target"], fds[k])
       \/ /\ ~privs.setgid
          /\ GoWith(k, "setresgid", cred[k], fds[k])

\* Seeded bug: a failing setresgid is logged and ignored like initgroups.
SetresgidIgnored(k) ==
    /\ In(k, "setresgid")
    /\ \/ ~privs.setgid /\ ~SameGid[k] /\ GoWith(k, "setresuid", cred[k], fds[k])
       \/ /\ privs.setgid \/ SameGid[k]
          /\ GoWith(k, "setresuid", [cred[k] EXCEPT !.gid = "target"], fds[k])

\* setresgid(gid, gid, gid): without the privilege the kernel allows it only
\* when gid is already the process's own, and raises otherwise.
Setresgid(k) ==
    /\ In(k, "setresgid")
    /\ \/ ~privs.setgid /\ ~SameGid[k] /\ Fail(k)
       \/ /\ privs.setgid \/ SameGid[k]
          /\ GoWith(k, "setresuid", [cred[k] EXCEPT !.gid = "target"], fds[k])

\* setresuid(uid, uid, uid): likewise, allowed unprivileged only when uid is
\* already the process's own.
Setresuid(k) ==
    /\ In(k, "setresuid")
    /\ \/ ~privs.setuid /\ ~SameUid[k] /\ Fail(k)
       \/ /\ privs.setuid \/ SameUid[k]
          /\ GoWith(k, "sandbox", [cred[k] EXCEPT !.uid = "target"], fds[k])

\* Drop capabilities, set no-new-privs, look the executable up, setsid().
Sandbox(k) ==
    /\ In(k, "sandbox")
    /\ \/ Fail(k)
       \/ GoWith(k, "umask",
                 [cred[k] EXCEPT !.caps = FALSE, !.nnp = TRUE, !.sid = "own"],
                 fds[k])

\* os.umask cannot fail.
Umask(k) ==
    /\ In(k, "umask")
    /\ GoWith(k, "chdir", cred[k], fds[k])

Chdir(k) ==
    /\ In(k, "chdir")
    /\ \/ Fail(k)
       \/ GoWith(k, "render", cred[k], fds[k])

\* Process title, the endpoint directory, the rendered user config and the
\* JSON stdin_data.
Render(k) ==
    /\ In(k, "render")
    /\ \/ Fail(k)
       \/ /\ Go(k, "devnull")
          /\ \E n \in Payloads : payload' = [payload EXCEPT ![k] = n]
          /\ UNCHANGED <<cred, fds>>

\* Open /dev/null (again while it lands on 0, 1 or 2).
Devnull(k) ==
    /\ In(k, "devnull")
    /\ \/ Fail(k)
       \/ GoWith(k, "pipe", cred[k],
                 [fds[k] EXCEPT !.open = @ \cup {"null"}])

\* Seeded bug: the size check against the pipe buffer is missing.
PipeUnchecked(k) ==
    /\ In(k, "pipe")
    /\ \/ Fail(k)
       \/ GoWith(k, "stdin", cred[k],
                 [fds[k] EXCEPT !.open = @ \cup {"pipe_r", "pipe_w"}])

\* os.pipe(), then ValueError when stdin_data exceeds the buffer size less
\* the headroom.
Pipe(k) ==
    /\ In(k, "pipe")
    /\ \/ Fail(k)
       \/ /\ payload[k] > PipeSize - Headroom
          /\ Fail(k)
       \/ /\ payload[k] <= PipeSize - Headroom
          /\ GoWith(k, "stdin", cred[k],
                    [fds[k] EXCEPT !.open = @ \cup {"pipe_r", "pipe_w"}])

\* dup2(read_handle, 0); close(read_handle).
Stdin(k) ==
    /\ In(k, "stdin")
    /\ \/ Fail(k)
       \/ GoWith(k, "stdout", cred[k],
                 [open |-> fds[k].open \ {"pipe_r"},
                  std |-> [fds[k].std EXCEPT ![0] = "pipe_r"]])

\* Seeded bug: the pipe's write end is duplicated onto stdout.
StdoutWrongFd(k) ==
    /\ In(k, "stdout")
    /\ \/ Fail(k)
       \/ GoWith(k, "stderr", cred[k],
                 [fds[k] EXCEPT !.std[1] = "pipe_w"])

\* dup2 of the /dev/null descriptor onto 1.
Stdout(k) ==
    /\ In(k, "stdout")
    /\ \/ Fail(k)
       \/ GoWith(k, "stderr", cred[k],
                 [fds[k] EXCEPT !.std[1] = "null"])

\* dup2 onto 2; leaving the with block closes the /dev/null descriptor.
Stderr(k) ==
    /\ In(k, "stderr")
    /\ \/ Fail(k)
       \/ GoWith(k, "write", cred[k],
                 [open |-> fds[k].open \ {"null"},
                  std |-> [fds[k].std EXCEPT ![2] = "null"]])

\* Write stdin_data into the pipe and close the write end.  Nothing reads
\* the pipe before the exec, so a write larger than the buffer blocks.
Write(k) ==
    /\ In(k, "write")
    /\ \/ /\ payload[k] > PipeSize
          /\ status' = [status EXCEPT ![k] = "blocked"]
          /\ UNCHANGED <<privs, at, code, exit, failedAt, cred, fds, payload>>
       \/ /\ payload[k] <= PipeSize
          /\ GoWith(k, "rlimit", cred[k],
                    [fds[k] EXCEPT !.open = @ \ {"pipe_w"}])

Rlimit(k) ==
    /\ In(k, "rlimit")
    /\ GoWith(k, "closerange", cred[k], fds[k])

\* closerange(3, hard_no) closes every descriptor above 2.
Closerange(k) ==
    /\ In(k, "closerange")
    /\ GoWith(k, "exec", cred[k], [fds[k] EXCEPT !.open = {}])

\* execvpe: the process becomes the user endpoint, or raises.
Exec(k) ==
    /\ In(k, "exec")
    /\ \/ Fail(k)
       \/ /\ status' = [status EXCEPT ![k] = "exec"]
          /\ UNCHANGED <<privs, at, code, exit, failedAt, cred, fds, payload>>

Step(k) ==
    \/ Bootstrap(k) \/ Initgroups(k) \/ Setresgid(k) \/ Setresuid(k)
    \/ Sandbox(k) \/ Umask(k) \/ Chdir(k) \/ Render(k) \/ Devnull(k)
    \/ Pipe(k) \/ Stdin(k) \/ Stdout(k) \/ Stderr(k) \/ Write(k)
    \/ Rlimit(k) \/ Closerange(k) \/ Exec(k)

\* Every child has exec'd, exited or hung.
Finished ==
    /\ \A k \in Kids : status[k] # "run"
    /\ UNCHANGED vars

Next == (\E k \in Kids : Step(k)) \/ Finished

Spec == Init /\ [][Next]_vars

-----------------------------------------------------------------------------
(* Properties.                                                             *)

TypeOK ==
    /\ privs \in [setgid: BOOLEAN, setuid: BOOLEAN]
    /\ at \in [Kids -> Steps]
    /\ code \in [Kids -> Nat]
    /\ status \in [Kids -> {"run", "exec", "exited", "blocked"}]
    /\ exit \in [Kids -> Nat]
    /\ failedAt \in [Kids -> Steps]
    /\ cred \in [Kids -> CredType]
    /\ fds \in [Kids -> FdsType]
    /\ payload \in [Kids -> Nat]

\* cmd_start_endpoint's child: whatever step fails and whatever privileges
\* the manager has, a child that execs the user endpoint runs with the
\* target user's uid and gid (when it had to change user), without
\* capabilities, with no-new-privs, in its own session, with stdin the
\* read end of the payload pipe (write end closed) and no other descriptor
\* inherited from the manager.
ExecPrivilegesDropped ==
    \A k \in Kids : status[k] = "exec" =>
        /\ UidChange[k] => cred[k].uid = "target" /\ cred[k].gid = "target"
        /\ ~cred[k].caps /\ cred[k].nnp /\ cred[k].sid = "own"
        /\ fds[k].open = {}
        /\ fds[k].std = [i \in 0..2 |-> IF i = 0 THEN "pipe_r" ELSE "null"]

\* The pipe-size check of cmd_start_endpoint: the child never hangs writing
\* its credentials and config into its own stdin pipe.
NoStdinDeadlock ==
    \A k \in Kids : status[k] # "blocked"

\* The pipeline of spec section 4.6 on each path, one entry per step that
\* ends in "exit_code += 1"; the code a failing child exits with is 70 plus
\* the number of steps it completed.
UidPath ==
    <<"bootstrap", "initgroups", "setresgid", "setresuid", "sandbox", "umask",
      "chdir", "render", "devnull", "pipe", "stdin", "stdout", "stderr",
      "write", "rlimit", "closerange", "exec">>
SameUidPath ==
    <<"bootstrap", "sandbox", "umask", "chdir", "render", "devnull", "pipe",
      "stdin", "stdout", "stderr", "write", "rlimit", "closerange", "exec">>
Path(k) == IF UidChange[k] THEN UidPath ELSE SameUidPath
Breadcrumb(path, s) ==
    FirstCode + (CHOOSE i \in 1..Len(path) : path[i] = s) - 1

\* The except/finally of the child branch: a child that fails exits with
\* the breadcrumb of the step that raised -- never 0, which the parent
\* would take for a clean exit and answer with a revival.
FailureCodeIsBreadcrumb ==
    \A k \in Kids : status[k] = "exited" =>
        exit[k] = Breadcrumb(Path(k), failedAt[k])

\* Spec 4.6: a failing child "MUST _exit with a numeric code that encodes
\* where it failed": two children that exit with the same code failed at
\* the same step.
BreadcrumbIdentifiesStep ==
    \A k1, k2 \in Kids :
        status[k1] = "exited" /\ status[k2] = "exited" /\ exit[k1] = exit[k2]
        => failedAt[k1] = failedAt[k2]


\* Spec 4.6 step 6: an initgroups failure is "tolerated on unprivileged
\* managers", and setresgid/setresuid failures are fatal; so a child that
\* changed user and execs the user endpoint has the target user's
\* supplementary groups, not the manager's.
ExecGroupsDropped ==
    \A k \in Kids : status[k] = "exec" /\ UidChange[k] =>
        cred[k].groups = "target"
=============================================================================

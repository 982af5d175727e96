-------------------------- MODULE EndpointManager --------------------------
(***************************************************************************)
(* The multi-user endpoint manager of globus_compute_endpoint              *)
(* (endpoint/endpoint_manager.py, class EndpointManager).                  *)
(*                                                                         *)
(* One supervisor thread runs start() -> _event_loop() -> shutdown.  The   *)
(* command-queue subscriber thread appends deliveries to a local queue;    *)
(* child processes exit at any time and the SIGCHLD / SIGTERM handlers     *)
(* only set flags.  A step of the supervisor is one iteration of a loop    *)
(* of the code; the handlers may run between any two of them.              *)
(***************************************************************************)
EXTENDS Naturals, Sequences, FiniteSets

CONSTANTS
    Pids,           \* process ids the kernel may hand out to forked children
    Users,          \* local user names (passwd entries)
    LocalUsers,     \* the passwd entries that exist when the manager starts
    MuUser,         \* the user the manager process runs as (self._mu_user)
    Names,          \* endpoint names a start command may carry
    Ids,            \* Globus identities (the "sub" of an identity record)
    IdMap,          \* PosixIdentityMapper.map_identity: identity set -> user
    ParentIds,      \* identity set of the manager's own credential (userinfo)
    Cmds,           \* the command messages the web service may send
    UidPriv,        \* is_privileged(user_privs_only=True): may change uid
    AnyPriv,        \* is_privileged(): root or any capability
    ForceSameUser,  \* config.force_mu_allow_same_user
    MaxCmds,        \* bound on the number of commands delivered
    NoUser, NoName  \* "no value" sentinels

\* The outcome classes of a method name: matches the regex and names
\* cmd_start_endpoint; fails the regex; matches it but names no method.
Methods == {"start", "badname", "unknown"}

CmdType == [json: BOOLEAN, fresh: BOOLEAN, hasIdent: BOOLEAN,
            ids: SUBSET Ids, method: Methods, name: Names \cup {NoName}]

ASSUME ConstantsAssumption ==
    /\ IsFiniteSet(Pids) /\ Pids # {}
    /\ LocalUsers \subseteq Users /\ MuUser \in LocalUsers
    /\ NoUser \notin Users /\ NoName \notin Names
    /\ IdMap \in [SUBSET Ids -> Users \cup {NoUser}]
    /\ ParentIds \subseteq Ids
    /\ Cmds \subseteq CmdType
    /\ UidPriv \in BOOLEAN /\ AnyPriv \in BOOLEAN /\ ForceSameUser \in BOOLEAN
    /\ UidPriv => AnyPriv
    /\ MaxCmds \in Nat

\* __init__: self._allow_same_user = not privileged, or forced by config.
AllowSameUser == ~AnyPriv \/ ForceSameUser

-----------------------------------------------------------------------------
(* Registry records (UserEndpointRecord) and cached start arguments.       *)
(* The field ids is a history field: the identity set of the command the   *)
(* child or the cached arguments came from; the code keeps it only in its  *)
(* logs, the properties need it.                                           *)

RecType == [kind: {"uep", "notice", "none"}, user: Users \cup {NoUser},
            name: Names \cup {NoName}, ids: SUBSET Ids]
NoRec == [kind |-> "none", user |-> NoUser, name |-> NoName, ids |-> {}]
NoticeRec == [kind |-> "notice", user |-> NoUser, name |-> NoName, ids |-> {}]
UepRec(u, n, ids) == [kind |-> "uep", user |-> u, name |-> n, ids |-> ids]

ArgsType == [user: Users \cup {NoUser}, name: Names \cup {NoName}, ids: SUBSET Ids]
NoArgs == [user |-> NoUser, name |-> NoName, ids |-> {}]
StartArgs(u, n, ids) == [user |-> u, name |-> n, ids |-> ids]

PcType == {"start", "loop", "poll", "reap", "shutdown", "signal", "wait",
           "done", "killed"}

VARIABLES
    pc,           \* where the supervisor thread is
    ret,          \* where wait_for_children returns to ("poll" or "wait")
    timeToStop,   \* self._time_to_stop
    waitForChild, \* self._wait_for_child
    cmdStop,      \* self._command_stop_event
    parentIds,    \* parent_identities of _event_loop
    q,            \* self._command_queue (deliveries not yet taken)
    delivered,    \* number of commands delivered so far (bounded)
    children,     \* self._children: pid -> record (NoRec when absent)
    cached,       \* self._cached_cmd_start_args: pid -> args (NoArgs when absent)
    proc,         \* kernel view of each pid: "free", "alive" or "zombie"
    rc,           \* exit status of a zombie: 0 or nonzero (1)
    grp,          \* process group of a child: the manager's ("mgr") or its own
    passwd,       \* the local users that exist
    pass,         \* shutdown pass: 1 = SIGTERM, 2 = SIGKILL
    toSignal,     \* children of the current pass not signalled yet
    iterated      \* the current shutdown wait loop has run at least once

vars == <<pc, ret, timeToStop, waitForChild, cmdStop, parentIds, q, delivered,
          children, cached, proc, rc, grp, passwd, pass, toSignal, iterated>>

-----------------------------------------------------------------------------
FreeIn(pr) == {p \in Pids : pr[p] = "free"}
Registered == {p \in Pids : children[p] # NoRec}

\* Pids of registered children whose ep_name is n (cmd_start_endpoint's scan).
Running(ch, n) == {p \in Pids : ch[p].name = n}

\* The parent of os.fork(): the kernel hands out any free pid, the parent
\* records the child; the child starts in the manager's process group.
Spawn(ch, ca, pr, rec, next) ==
    \E p \in FreeIn(pr) :
        /\ children' = [ch EXCEPT ![p] = rec]
        /\ proc' = [pr EXCEPT ![p] = "alive"]
        /\ grp' = [grp EXCEPT ![p] = "mgr"]
        /\ cached' = ca
        /\ pc' = next

\* No process is forked.
Keep(ch, ca, pr, next) ==
    /\ children' = ch /\ cached' = ca /\ proc' = pr /\ UNCHANGED grp
    /\ pc' = next

\* send_failure_notice(fork=True) from the event loop: fork a helper that
\* sends the notice and exits 0.  A failing fork re-raises, and nothing
\* catches it inside _event_loop: start() goes on to shut down.
FailureNotice ==
    \/ /\ FreeIn(proc) # {}
       /\ Spawn(children, cached, proc, NoticeRec, "loop")
    \/ /\ FreeIn(proc) = {}
       /\ Keep(children, cached, proc, "shutdown")

\* Seeded bug: no scan of the registry for a running endpoint of that name.
StartEndpointNoScan(ch, ca, pr, u, n, ids, OnError, next) ==
    \/ n = NoName /\ OnError
    \/ /\ n # NoName /\ ~AllowSameUser /\ u = MuUser
       /\ OnError
    \/ /\ n # NoName /\ (AllowSameUser \/ u # MuUser)
       /\ \/ FreeIn(pr) # {} /\ Spawn(ch, ca, pr, UepRec(u, n, ids), next)
          \/ FreeIn(pr) = {} /\ OnError

\* Seeded bug: the InvalidUserError check on the manager's own user is missing.
StartEndpointNoSameUserCheck(ch, ca, pr, u, n, ids, OnError, next) ==
    \/ n = NoName /\ OnError
    \/ /\ n # NoName
       /\ \E p \in Running(ch, n) :
             Keep(ch, [ca EXCEPT ![p] = StartArgs(u, n, ids)], pr, next)
    \/ /\ n # NoName /\ Running(ch, n) = {}
       /\ \/ FreeIn(pr) # {} /\ Spawn(ch, ca, pr, UepRec(u, n, ids), next)
          \/ FreeIn(pr) = {} /\ OnError

\* cmd_start_endpoint(user_record, args, kwargs) on the registry ch, cache
\* ca and process table pr.  It raises InvalidCommandError for a missing
\* name, InvalidUserError for the manager's own user, or the fork error.
StartRaises(ch, pr, u, n) ==
    \/ n = NoName
    \/ /\ n # NoName /\ Running(ch, n) = {}
       /\ ~AllowSameUser /\ u = MuUser
    \/ /\ n # NoName /\ Running(ch, n) = {}
       /\ AllowSameUser \/ u # MuUser
       /\ FreeIn(pr) = {}

\* Otherwise it caches the arguments against the running endpoint of that
\* name, or forks the new user endpoint.
StartReturns(ch, ca, pr, u, n, ids, next) ==
    /\ n # NoName
    /\ \/ \E p \in Running(ch, n) :
             Keep(ch, [ca EXCEPT ![p] = StartArgs(u, n, ids)], pr, next)
       \/ /\ Running(ch, n) = {}
          /\ AllowSameUser \/ u # MuUser
          /\ Spawn(ch, ca, pr, UepRec(u, n, ids), next)

\* OnError is what the caller does with the exception.
StartEndpoint(ch, ca, pr, u, n, ids, OnError, next) ==
    \/ StartRaises(ch, pr, u, n) /\ OnError
    \/ StartReturns(ch, ca, pr, u, n, ids, next)

\* Seeded bug: the parent-identity check accepts any identity set.
ResolveUserAnyIdentity(m) ==
    IF ~UidPriv \/ parentIds # {}
    THEN IF m.ids # {} THEN MuUser ELSE NoUser
    ELSE IF IdMap[m.ids] \in passwd THEN IdMap[m.ids] ELSE NoUser

\* The local user a command resolves to, or NoUser when it is refused:
\* the parent-identity check when there is no identity mapper (or the
\* parent identities are known), else the mapper and getpwnam.
ResolveUser(m) ==
    IF ~UidPriv \/ parentIds # {}
    THEN IF parentIds \cap m.ids # {} THEN MuUser ELSE NoUser
    ELSE IF IdMap[m.ids] \in passwd THEN IdMap[m.ids] ELSE NoUser

-----------------------------------------------------------------------------
(* The supervisor thread.                                                  *)

Init ==
    /\ pc = "start" /\ ret = "poll"
    /\ timeToStop = FALSE /\ waitForChild = FALSE /\ cmdStop = FALSE
    /\ parentIds = {}
    /\ q = << >> /\ delivered = 0
    /\ children = [p \in Pids |-> NoRec]
    /\ cached = [p \in Pids |-> NoArgs]
    /\ proc = [p \in Pids |-> "free"]
    /\ rc = [p \in Pids |-> 0]
    /\ grp = [p \in Pids |-> "mgr"]
    /\ passwd = LocalUsers
    /\ pass = 1 /\ toSignal = {} /\ iterated = FALSE

\* Mutant: the identity lookup is skipped whatever the privileges.
EventLoopStartNoLookup ==
    /\ pc = "start"
    /\ pc' = "loop"
    /\ UNCHANGED <<parentIds, timeToStop, ret, waitForChild, cmdStop, q,
                   delivered, children, cached, proc, rc, grp, passwd, pass,
                   toSignal, iterated>>

\* Start of _event_loop: an unprivileged manager fetches its identity set;
\* a failed or empty lookup stops the manager.
EventLoopStart ==
    /\ pc = "start"
    /\ \/ /\ AnyPriv
          /\ pc' = "loop" /\ UNCHANGED <<parentIds, timeToStop>>
       \/ /\ ~AnyPriv /\ ParentIds # {}
          /\ parentIds' = ParentIds /\ pc' = "loop" /\ UNCHANGED timeToStop
       \/ /\ ~AnyPriv
          /\ timeToStop' = TRUE /\ pc' = "shutdown" /\ UNCHANGED parentIds
    /\ UNCHANGED <<ret, waitForChild, cmdStop, q, delivered, children, cached,
                   proc, rc, grp, passwd, pass, toSignal, iterated>>

\* Seeded bug: the loop never looks at the SIGCHLD flag.
LoopTopNoReap ==
    /\ pc = "loop"
    /\ \/ timeToStop /\ pc' = "shutdown"
       \/ ~timeToStop /\ pc' = "poll"
    /\ UNCHANGED <<waitForChild, ret, timeToStop, cmdStop, parentIds, q,
                   delivered, children, cached, proc, rc, grp, passwd, pass,
                   toSignal, iterated>>

\* Top of the while loop: leave it, or call wait_for_children (which first
\* clears the flag), or go on to poll the queue.
LoopTop ==
    /\ pc = "loop"
    /\ \/ /\ timeToStop
          /\ pc' = "shutdown" /\ UNCHANGED <<waitForChild, ret>>
       \/ /\ ~timeToStop /\ waitForChild
          /\ waitForChild' = FALSE /\ ret' = "poll" /\ pc' = "reap"
       \/ /\ ~timeToStop /\ ~waitForChild
          /\ pc' = "poll" /\ UNCHANGED <<waitForChild, ret>>
    /\ UNCHANGED <<timeToStop, cmdStop, parentIds, q, delivered, children,
                   cached, proc, rc, grp, passwd, pass, toSignal, iterated>>

\* The handling of one command (after get and ack), to the end of the
\* iteration of the event loop.
Handle(m) ==
    \/ /\ ~m.json
       /\ Keep(children, cached, proc, "loop")
    \/ /\ m.json /\ ~m.fresh
       /\ FailureNotice
    \/ /\ m.json /\ m.fresh /\ ~m.hasIdent
       /\ FailureNotice
    \/ /\ m.json /\ m.fresh /\ m.hasIdent /\ ResolveUser(m) = NoUser
       /\ FailureNotice
    \/ /\ m.json /\ m.fresh /\ m.hasIdent /\ ResolveUser(m) # NoUser
       /\ m.method # "start"
       /\ FailureNotice
    \/ /\ m.json /\ m.fresh /\ m.hasIdent /\ ResolveUser(m) # NoUser
       /\ m.method = "start"
       /\ StartEndpoint(children, cached, proc, ResolveUser(m), m.name, m.ids,
                        FailureNotice, "loop")

\* queue.get(timeout=1.0): on Empty, stop if the subscriber has stopped;
\* else ack the delivery and handle it.
Poll ==
    /\ pc = "poll"
    /\ \/ /\ q = << >>
          /\ timeToStop' = (timeToStop \/ cmdStop)
          /\ pc' = "loop"
          /\ UNCHANGED <<q, children, cached, proc, grp>>
       \/ /\ q # << >>
          /\ q' = Tail(q)
          /\ Handle(Head(q))
          /\ UNCHANGED timeToStop
    /\ UNCHANGED <<ret, waitForChild, cmdStop, parentIds, delivered, rc,
                   passwd, pass, toSignal, iterated>>

\* Seeded bug: reaping does not pop the record from the registry.
ReapStepNoPop ==
    /\ pc = "reap"
    /\ \/ \E p \in Pids :
             /\ proc[p] = "zombie"
             /\ Keep(children, [cached EXCEPT ![p] = NoArgs],
                     [proc EXCEPT ![p] = "free"], "reap")
          /\ UNCHANGED ret
       \/ /\ \A p \in Pids : proc[p] # "zombie"
          /\ pc' = ret
          /\ UNCHANGED <<children, cached, proc, grp, ret>>
    /\ UNCHANGED <<timeToStop, waitForChild, cmdStop, parentIds, q, delivered,
                   rc, passwd, pass, toSignal, iterated>>

\* Seeded bug: "if pid > 0" for "while pid > 0": one child per call.
ReapStepOnce ==
    /\ pc = "reap"
    /\ \/ \E p \in Pids :
             /\ proc[p] = "zombie"
             /\ LET ch   == [children EXCEPT ![p] = NoRec]
                    pr   == [proc EXCEPT ![p] = "free"]
                    ca   == [cached EXCEPT ![p] = NoArgs]
                    args == cached[p]
                IN  IF rc[p] = 0
                    THEN IF ~timeToStop /\ args # NoArgs /\ args.user \in passwd
                         THEN StartEndpoint(ch, ca, pr, args.user, args.name,
                                            args.ids, Keep(ch, ca, pr, ret),
                                            ret)
                         ELSE Keep(ch, ca, pr, ret)
                    ELSE Keep(ch, cached, pr, ret)
          /\ UNCHANGED ret
       \/ /\ \A p \in Pids : proc[p] # "zombie"
          /\ pc' = ret
          /\ UNCHANGED <<children, cached, proc, grp, ret>>
    /\ UNCHANGED <<timeToStop, waitForChild, cmdStop, parentIds, q, delivered,
                   rc, passwd, pass, toSignal, iterated>>

\* Seeded bug: the cached passwd entry is reused without the getpwuid refresh.
ReapStepNoRefresh ==
    /\ pc = "reap"
    /\ \/ \E p \in Pids :
             /\ proc[p] = "zombie"
             /\ LET ch   == [children EXCEPT ![p] = NoRec]
                    pr   == [proc EXCEPT ![p] = "free"]
                    ca   == [cached EXCEPT ![p] = NoArgs]
                    args == cached[p]
                IN  IF rc[p] = 0
                    THEN IF ~timeToStop /\ args # NoArgs
                         THEN StartEndpoint(ch, ca, pr, args.user, args.name,
                                            args.ids, Keep(ch, ca, pr, "reap"),
                                            "reap")
                         ELSE Keep(ch, ca, pr, "reap")
                    ELSE Keep(ch, cached, pr, "reap")
          /\ UNCHANGED ret
       \/ /\ \A p \in Pids : proc[p] # "zombie"
          /\ pc' = ret
          /\ UNCHANGED <<children, cached, proc, grp, ret>>
    /\ UNCHANGED <<timeToStop, waitForChild, cmdStop, parentIds, q, delivered,
                   rc, passwd, pass, toSignal, iterated>>

\* One iteration of wait_for_children's waitpid(-1, WNOHANG) loop: reap a
\* zombie, drop its record and, after a clean exit, pop its cached start
\* arguments and revive it (_revive_child, whose errors are only logged);
\* or find no zombie and return.
ReapStep ==
    /\ pc = "reap"
    /\ \/ \E p \in Pids :
             /\ proc[p] = "zombie"
             /\ LET ch   == [children EXCEPT ![p] = NoRec]
                    pr   == [proc EXCEPT ![p] = "free"]
                    ca   == [cached EXCEPT ![p] = NoArgs]
                    args == cached[p]
                IN  IF rc[p] = 0
                    THEN IF ~timeToStop /\ args # NoArgs /\ args.user \in passwd
                         THEN StartEndpoint(ch, ca, pr, args.user, args.name,
                                            args.ids, Keep(ch, ca, pr, "reap"),
                                            "reap")
                         ELSE Keep(ch, ca, pr, "reap")
                    ELSE Keep(ch, cached, pr, "reap")
          /\ UNCHANGED ret
       \/ /\ \A p \in Pids : proc[p] # "zombie"
          /\ pc' = ret
          /\ UNCHANGED <<children, cached, proc, grp, ret>>
    /\ UNCHANGED <<timeToStop, waitForChild, cmdStop, parentIds, q, delivered,
                   rc, passwd, pass, toSignal, iterated>>

\* After the loop: set the stop events, send the final heartbeat, and
\* SIGTERM the manager's own process group -- which runs the manager's own
\* request_shutdown handler.
ShutdownBegin ==
    /\ pc = "shutdown"
    /\ cmdStop' = TRUE /\ timeToStop' = TRUE
    /\ pass' = 1 /\ toSignal' = Registered /\ pc' = "signal"
    /\ UNCHANGED <<ret, waitForChild, parentIds, q, delivered, children, cached,
                   proc, rc, grp, passwd, iterated>>

\* One child of the current pass: setresgid/setresuid to its owner, then
\* killpg(getpgid(pid), sig), then restore.  SIGTERM forces nothing (the
\* child may exit at any time anyway); SIGKILL kills the child's group --
\* and the manager itself when the child is still in the manager's group.
SignalChild ==
    /\ pc = "signal"
    /\ \/ \E p \in toSignal :
             /\ toSignal' = toSignal \ {p}
             /\ \/ /\ pass = 1
                   /\ UNCHANGED <<pc, proc, rc, waitForChild>>
                \/ /\ pass = 2 /\ grp[p] = "own"
                   /\ proc' = [proc EXCEPT ![p] = IF @ = "alive" THEN "zombie" ELSE @]
                   /\ rc' = [rc EXCEPT ![p] = IF proc[p] = "alive" THEN 1 ELSE @]
                   /\ waitForChild' = TRUE
                   /\ UNCHANGED pc
                \/ /\ pass = 2 /\ grp[p] = "mgr"
                   /\ pc' = "killed"
                   /\ UNCHANGED <<proc, rc, waitForChild>>
          /\ UNCHANGED iterated
       \/ /\ toSignal = {}
          /\ pc' = "wait" /\ iterated' = FALSE
          /\ UNCHANGED <<toSignal, proc, rc, waitForChild>>
    /\ UNCHANGED <<ret, timeToStop, cmdStop, parentIds, q, delivered, children,
                   cached, grp, passwd, pass>>

\* Seeded bug: a single SIGTERM pass, no SIGKILL pass.
WaitPassSinglePass ==
    /\ pc = "wait"
    /\ \/ /\ Registered # {}
          /\ waitForChild' = FALSE /\ ret' = "wait" /\ pc' = "reap"
          /\ iterated' = TRUE
       \/ /\ Registered = {} \/ iterated
          /\ pc' = "done" /\ UNCHANGED <<waitForChild, ret, iterated>>
    /\ UNCHANGED <<pass, toSignal, timeToStop, cmdStop, parentIds, q, delivered,
                   children, cached, proc, rc, grp, passwd>>

\* Seeded bug: off-by-one in the pass loop: a third pass after SIGKILL.
WaitPassExtraPass ==
    /\ pc = "wait"
    /\ \/ /\ Registered # {}
          /\ waitForChild' = FALSE /\ ret' = "wait" /\ pc' = "reap"
          /\ iterated' = TRUE
          /\ UNCHANGED <<pass, toSignal>>
       \/ /\ Registered = {} \/ iterated
          /\ pass' = pass + 1 /\ toSignal' = Registered /\ pc' = "signal"
          /\ UNCHANGED <<waitForChild, ret, iterated>>
    /\ UNCHANGED <<timeToStop, cmdStop, parentIds, q, delivered, children,
                   cached, proc, rc, grp, passwd>>

\* The deadline loop of a pass: while children remain and the 10s
\* deadline has not passed, sleep and call wait_for_children; then the next
\* pass, or the joins at the end of start().
WaitPass ==
    /\ pc = "wait"
    /\ \/ /\ Registered # {}
          /\ waitForChild' = FALSE /\ ret' = "wait" /\ pc' = "reap"
          /\ iterated' = TRUE
          /\ UNCHANGED <<pass, toSignal>>
       \/ /\ Registered = {} \/ iterated
          /\ \/ /\ pass = 1
                /\ pass' = 2 /\ toSignal' = Registered /\ pc' = "signal"
             \/ /\ pass = 2
                /\ pc' = "done" /\ UNCHANGED <<pass, toSignal>>
          /\ UNCHANGED <<waitForChild, ret, iterated>>
    /\ UNCHANGED <<timeToStop, cmdStop, parentIds, q, delivered, children,
                   cached, proc, rc, grp, passwd>>

Supervisor == EventLoopStart \/ LoopTop \/ Poll \/ ReapStep
              \/ ShutdownBegin \/ SignalChild \/ WaitPass

-----------------------------------------------------------------------------
(* The environment: deliveries, children, signals, the cache clock and    *)
(* the system administrator.                                               *)

ManagerAlive == pc \notin {"done", "killed"}

\* The subscriber thread puts a delivery on the queue.
Deliver(m) ==
    /\ ManagerAlive /\ ~cmdStop /\ delivered < MaxCmds
    /\ q' = Append(q, m) /\ delivered' = delivered + 1
    /\ UNCHANGED <<pc, ret, timeToStop, waitForChild, cmdStop, parentIds,
                   children, cached, proc, rc, grp, passwd, pass, toSignal,
                   iterated>>

\* The subscriber gives up and sets its stop_event.
SubscriberStop ==
    /\ ManagerAlive /\ ~cmdStop
    /\ cmdStop' = TRUE
    /\ UNCHANGED <<pc, ret, timeToStop, waitForChild, parentIds, q, delivered,
                   children, cached, proc, rc, grp, passwd, pass, toSignal,
                   iterated>>

\* A child exits (a failure-notice helper always with sys.exit() == 0); the
\* kernel sends SIGCHLD and set_child_died sets the flag.
ChildExit(p) ==
    /\ ManagerAlive /\ proc[p] = "alive"
    /\ proc' = [proc EXCEPT ![p] = "zombie"]
    /\ \E code \in IF children[p].kind = "notice" THEN {0} ELSE {0, 1} :
           rc' = [rc EXCEPT ![p] = code]
    /\ waitForChild' = TRUE
    /\ UNCHANGED <<pc, ret, timeToStop, cmdStop, parentIds, q, delivered,
                   children, cached, grp, passwd, pass, toSignal, iterated>>

\* A user-endpoint child reaches os.setsid() in its privilege-drop pipeline.
ChildSetsid(p) ==
    /\ ManagerAlive /\ proc[p] = "alive"
    /\ children[p].kind = "uep" /\ grp[p] = "mgr"
    /\ grp' = [grp EXCEPT ![p] = "own"]
    /\ UNCHANGED <<pc, ret, timeToStop, waitForChild, cmdStop, parentIds, q,
                   delivered, children, cached, proc, rc, passwd, pass,
                   toSignal, iterated>>

\* SIGTERM, SIGINT or SIGQUIT: request_shutdown.
Terminate ==
    /\ ManagerAlive /\ ~timeToStop
    /\ timeToStop' = TRUE
    /\ UNCHANGED <<pc, ret, waitForChild, cmdStop, parentIds, q, delivered,
                   children, cached, proc, rc, grp, passwd, pass, toSignal,
                   iterated>>

\* A TTLCache entry outlives mu_child_ep_grace_period_s.
Expire(p) ==
    /\ ManagerAlive /\ cached[p] # NoArgs
    /\ cached' = [cached EXCEPT ![p] = NoArgs]
    /\ UNCHANGED <<pc, ret, timeToStop, waitForChild, cmdStop, parentIds, q,
                   delivered, children, proc, rc, grp, passwd, pass, toSignal,
                   iterated>>

\* The administrator removes a local user.
RemoveUser(u) ==
    /\ ManagerAlive /\ u \in passwd \ {MuUser}
    /\ passwd' = passwd \ {u}
    /\ UNCHANGED <<pc, ret, timeToStop, waitForChild, cmdStop, parentIds, q,
                   delivered, children, cached, proc, rc, grp, pass, toSignal,
                   iterated>>

\* The manager has exited (or been killed); nothing more happens.
Terminated ==
    /\ ~ManagerAlive
    /\ UNCHANGED vars

Environment ==
    \/ \E m \in Cmds : Deliver(m)
    \/ SubscriberStop \/ Terminate
    \/ \E p \in Pids : ChildExit(p) \/ ChildSetsid(p) \/ Expire(p)
    \/ \E u \in Users : RemoveUser(u)

Next == Supervisor \/ Environment \/ Terminated

Spec == Init /\ [][Next]_vars

\* The supervisor thread never blocks for long: every wait of it is the
\* 1s queue poll, a non-blocking waitpid or a bounded sleep.
FairSpec == Spec /\ WF_vars(Supervisor)

-----------------------------------------------------------------------------
(* Properties.                                                             *)

TypeOK ==
    /\ pc \in PcType /\ ret \in {"poll", "wait"}
    /\ timeToStop \in BOOLEAN /\ waitForChild \in BOOLEAN /\ cmdStop \in BOOLEAN
    /\ parentIds \subseteq Ids
    /\ q \in Seq(Cmds) /\ delivered \in 0..MaxCmds
    /\ children \in [Pids -> RecType]
    /\ cached \in [Pids -> ArgsType]
    /\ proc \in [Pids -> {"free", "alive", "zombie"}]
    /\ rc \in [Pids -> {0, 1}]
    /\ grp \in [Pids -> {"mgr", "own"}]
    /\ passwd \subseteq Users
    /\ pass \in {1, 2} /\ toSignal \subseteq Pids /\ iterated \in BOOLEAN

\* Spec, data model: a pid is in the child registry exactly while the
\* kernel still holds that child (running or not yet reaped by waitpid).
RegistryMatchesProcs ==
    \A p \in Pids : children[p] # NoRec <=> proc[p] # "free"

\* cmd_start_endpoint / _revive_child: at most one registered user endpoint
\* per endpoint name, whatever order starts, exits and revivals come in.
UniqueEpName ==
    \A p1, p2 \in Pids :
        /\ p1 # p2
        /\ children[p1].kind = "uep" /\ children[p2].kind = "uep"
        => children[p1].name # children[p2].name

\* _event_loop identity checks and cmd_start_endpoint's same-user check:
\* every user-endpoint child, forked directly or revived from cached
\* arguments, runs as the user its command's identity set is authorised
\* for, and never as the manager's own user unless that is allowed.
IdentityOK(u, ids) ==
    IF UidPriv THEN IdMap[ids] = u
               ELSE ids \cap ParentIds # {} /\ u = MuUser
Authorized(u, ids) ==
    /\ AllowSameUser \/ u # MuUser
    /\ IdentityOK(u, ids)
ChildrenAuthorized ==
    \A p \in Pids : children[p].kind = "uep" =>
        Authorized(children[p].user, children[p].ids)

\* set_child_died / wait_for_children: while the event loop runs, a child
\* that has exited and is not reaped always has the wake-up flag set, so
\* the next iteration reaps it (no SIGCHLD is lost between the flag reset
\* and the waitpid loop).
NoLostWakeup ==
    pc \in {"loop", "poll"} =>
        \A p \in Pids : proc[p] = "zombie" => waitForChild

\* start(): when shutdown completes, every child has been reaped and the
\* registry is empty, even if a child ignores SIGTERM.
ShutdownReapsAll ==
    pc = "done" => Registered = {}

\* start(): shutdown signals children, it never kills the manager itself.
ManagerSurvivesShutdown ==
    pc # "killed"

\* A manager that cannot change uid serves its own identities: once the
\* loop runs, a command whose identity set meets the identity set of the
\* manager's own credential resolves to the manager's user (spec: "If the
\* manager is unprivileged or has no identity mapper: require that at least
\* one sub ... intersects the manager's own parent identity set"; "no
\* command succeeds unless its identity set intersects the pre-computed
\* parent identity set").  The code fetches that set in _event_loop only
\* when is_privileged() is false, but builds no mapper in __init__ unless
\* is_privileged(user_privs_only=True).
OwnIdentityAccepted ==
    pc \in {"loop", "poll"} /\ ~UidPriv =>
        \A m \in Cmds : m.ids \cap ParentIds # {} => ResolveUser(m) # NoUser

\* wait_for_children: every exited child is eventually reaped, unless the
\* manager has exited first.
ZombiesReaped ==
    \A p \in Pids :
        proc[p] = "zombie" ~> (proc[p] # "zombie" \/ pc \in {"done", "killed"})

-----------------------------------------------------------------------------
(* Refinement of the abstract registry.  The running endpoints are the    *)
(* user-endpoint records of the registry; the manager serves until its    *)
(* supervisor leaves the event loop.                                       *)

UepPids == {p \in Pids : children[p].kind = "uep"}

\* The endpoint a user-endpoint record stands for, and the endpoints of a
\* registry ch.
EpOf(r) == [name |-> r.name, user |-> r.user, ids |-> r.ids]
View(ch) == {EpOf(ch[p]) : p \in {p2 \in Pids : ch[p2].kind = "uep"}}
UepView == View(children)
PhaseView ==
    IF pc \in {"start", "loop", "poll"} \/ (pc = "reap" /\ ret = "poll")
    THEN "serving"
    ELSE IF pc = "done" THEN "done" ELSE "draining"

Registry == INSTANCE EndpointRegistry
    WITH up <- UepView, phase <- PhaseView,
         Allowed <- {pr \in Users \X SUBSET Ids : Authorized(pr[1], pr[2])}

\* The manager implements the abstract registry: every step starts an
\* authorised endpoint under a free name while serving, ends one, does both
\* (a reap with revival), stops serving, finishes with no endpoint left,
\* or changes nothing the registry shows (queue, cache, helpers, signals).
RegistryRefined == Registry!Spec

\* wait_for_children / _revive_child, spec 4.4: a revival restarts the
\* endpoint that exited -- the cached arguments popped for a reaped pid
\* start an endpoint of the same name as the child reaped at that pid.
RevivalRestartsSameEndpoint ==
    [][pc = "reap" =>
         \A e \in UepView' \ UepView :
             \E p \in UepPids : proc[p] = "zombie" /\ proc'[p] # "zombie"
                                /\ children[p].name = e.name]_vars



\* _revive_child refreshes the cached passwd entry with getpwuid before it
\* restarts an endpoint: a revival never starts an endpoint for a local user
\* that has been removed since its start command was cached.
RevivalUserExists ==
    [][pc = "reap" => \A e \in UepView' \ UepView : e.user \in passwd]_vars
=============================================================================

------------------------- MODULE SupervisorProofs -------------------------
(***************************************************************************)
(* Proofs about the supervisor thread of EndpointManager: the registry    *)
(* follows the kernel's process table, no SIGCHLD wake-up is lost while   *)
(* the event loop runs, and shutdown ends with an empty registry.          *)
(***************************************************************************)
EXTENDS EndpointManagerProofs

USE ConstantsAssumption

-----------------------------------------------------------------------------
(* RegistryMatchesProcs is inductive relative to TypeOK: os.fork() records *)
(* the child it was handed a free pid for, waitpid frees the pid and pops  *)
(* its record in the same iteration, and an exit or a signal only turns a  *)
(* running child into a zombie.                                            *)

\* The registry ch and the process table pr agree on which pids are taken.
Match(ch, pr) == \A p \in Pids : ch[p] # NoRec <=> pr[p] # "free"

LEMMA SpawnMatch ==
    ASSUME NEW ch \in [Pids -> RecType], NEW ca,
           NEW pr \in [Pids -> {"free", "alive", "zombie"}],
           NEW rec, NEW next, rec # NoRec, Match(ch, pr),
           Spawn(ch, ca, pr, rec, next)
    PROVE  Match(children', proc')
BY DEF Spawn, FreeIn, Match

LEMMA StartReturnsMatch ==
    ASSUME NEW ch \in [Pids -> RecType], NEW ca,
           NEW pr \in [Pids -> {"free", "alive", "zombie"}],
           NEW u, NEW n, NEW ids, NEW next, Match(ch, pr),
           StartReturns(ch, ca, pr, u, n, ids, next)
    PROVE  Match(children', proc')
<1>1. UepRec(u, n, ids) # NoRec
  BY DEF UepRec, NoRec
<1>2. QED
  BY <1>1, SpawnMatch DEF StartReturns, Keep

LEMMA FailureNoticeMatch ==
    ASSUME children \in [Pids -> RecType],
           proc \in [Pids -> {"free", "alive", "zombie"}],
           Match(children, proc), FailureNotice
    PROVE  Match(children', proc')
<1>1. NoticeRec # NoRec
  BY DEF NoticeRec, NoRec
<1>2. QED
  BY <1>1, SpawnMatch DEF FailureNotice, Keep

LEMMA MatchStep == TypeOK /\ RegistryMatchesProcs /\ [Next]_vars
                   => RegistryMatchesProcs'
<1> SUFFICES ASSUME TypeOK, Match(children, proc), [Next]_vars
             PROVE  Match(children', proc')
  BY DEF RegistryMatchesProcs, Match
<1>0. /\ children \in [Pids -> RecType]
      /\ proc \in [Pids -> {"free", "alive", "zombie"}]
  BY DEF TypeOK
<1>1. CASE Poll
  <2>1. FailureNotice => Match(children', proc')
    BY <1>0, FailureNoticeMatch
  <2>2. Handle(Head(q)) => Match(children', proc')
    BY <1>0, <2>1, StartReturnsMatch DEF Handle, Keep, StartEndpoint
  <2>3. QED
    BY <1>1, <2>2 DEF Poll
<1>2. CASE ReapStep
  <2>1. ASSUME NEW p \in Pids, proc[p] = "zombie",
               LET ch   == [children EXCEPT ![p] = NoRec]
                   pr   == [proc EXCEPT ![p] = "free"]
                   ca   == [cached EXCEPT ![p] = NoArgs]
                   args == cached[p]
               IN  IF rc[p] = 0
                   THEN IF ~timeToStop /\ args # NoArgs /\ args.user \in passwd
                        THEN StartEndpoint(ch, ca, pr, args.user, args.name,
                                           args.ids, Keep(ch, ca, pr, "reap"),
                                           "reap")
                        ELSE Keep(ch, ca, pr, "reap")
                   ELSE Keep(ch, cached, pr, "reap")
        PROVE  Match(children', proc')
    <3> DEFINE ch   == [children EXCEPT ![p] = NoRec]
               pr   == [proc EXCEPT ![p] = "free"]
               ca   == [cached EXCEPT ![p] = NoArgs]
               args == cached[p]
    <3>1. /\ ch \in [Pids -> RecType]
          /\ pr \in [Pids -> {"free", "alive", "zombie"}]
          /\ Match(ch, pr)
      BY <1>0 DEF Match, NoRec, RecType
    <3>2. Keep(ch, ca, pr, "reap") => Match(children', proc')
      BY <3>1 DEF Keep
    <3>3. Keep(ch, cached, pr, "reap") => Match(children', proc')
      BY <3>1 DEF Keep
    <3>4. StartEndpoint(ch, ca, pr, args.user, args.name, args.ids,
                        Keep(ch, ca, pr, "reap"), "reap") => Match(children', proc')
      BY <3>1, <3>2, StartReturnsMatch DEF StartEndpoint
    <3>5. QED
      BY <2>1, <3>2, <3>3, <3>4
  <2>2. QED
    BY <1>2, <2>1 DEF ReapStep
<1>3. CASE SignalChild
  BY <1>0, <1>3 DEF SignalChild, Match
<1>4. ASSUME NEW p \in Pids, ChildExit(p) PROVE Match(children', proc')
  BY <1>0, <1>4 DEF ChildExit, Match
<1>5. CASE \/ EventLoopStart \/ LoopTop \/ ShutdownBegin \/ WaitPass
           \/ \E m \in Cmds : Deliver(m)
           \/ SubscriberStop \/ Terminate
           \/ \E p \in Pids : ChildSetsid(p) \/ Expire(p)
           \/ \E u \in Users : RemoveUser(u)
           \/ Terminated \/ UNCHANGED vars
  BY <1>5 DEF EventLoopStart, LoopTop, ShutdownBegin, WaitPass,
              Deliver, SubscriberStop, Terminate, ChildSetsid,
              Expire, RemoveUser, Terminated, vars, Match
<1>6. QED
  BY <1>1, <1>2, <1>3, <1>4, <1>5 DEF Next, Supervisor, Environment

\* The registry holds a record for a pid exactly while the kernel holds
\* that child, through every fork (of an endpoint, a revival or a notice
\* helper), exit, SIGKILL and waitpid.
THEOREM RegistryMatchesProcsInvariant == Spec => []RegistryMatchesProcs
<1>1. Init => RegistryMatchesProcs
  BY DEF Init, RegistryMatchesProcs
<1>2. QED
  BY <1>1, InitTypeOK, TypeOKStep, MatchStep, PTL DEF Spec

-----------------------------------------------------------------------------
(* NoLostWakeup needs one more fact to be inductive: before the event     *)
(* loop nothing has been forked, so no child can have exited unnoticed.   *)

NothingForked == pc = "start" => \A p \in Pids : proc[p] = "free"

WakeInv == NoLostWakeup /\ NothingForked

\* A reap iteration stays in wait_for_children, or returns when no zombie
\* is left.
LEMMA ReapStepPc ==
    ASSUME ReapStep
    PROVE  \/ pc' = "reap"
           \/ pc' = ret /\ (\A p \in Pids : proc'[p] # "zombie")
<1>1. ASSUME NEW ch, NEW ca, NEW pr, NEW u, NEW n, NEW ids,
             StartEndpoint(ch, ca, pr, u, n, ids, Keep(ch, ca, pr, "reap"), "reap")
      PROVE  pc' = "reap"
  BY <1>1 DEF StartEndpoint, StartReturns, Spawn, Keep
<1>2. QED
  BY <1>1 DEF ReapStep, Keep

\* A fork in the event loop adds a running child and no zombie.
LEMMA PollZombies ==
    ASSUME TypeOK, Poll
    PROVE  /\ pc = "poll" /\ pc' \in {"loop", "shutdown"}
           /\ \A p \in Pids : proc'[p] = "zombie" => proc[p] = "zombie"
           /\ UNCHANGED waitForChild
<1>1. ASSUME NEW ch, NEW ca, NEW pr \in [Pids -> {"free", "alive", "zombie"}],
             NEW rec, NEW next, Spawn(ch, ca, pr, rec, next)
      PROVE  \A p \in Pids : proc'[p] = "zombie" => pr[p] = "zombie"
  BY <1>1 DEF Spawn, FreeIn
<1>2. FailureNotice => /\ pc' \in {"loop", "shutdown"}
                       /\ \A p \in Pids : proc'[p] = "zombie" => proc[p] = "zombie"
  BY <1>1 DEF FailureNotice, Keep, Spawn, TypeOK
<1>3. ASSUME NEW u, NEW n, NEW ids,
             StartReturns(children, cached, proc, u, n, ids, "loop")
      PROVE  /\ pc' \in {"loop", "shutdown"}
             /\ \A p \in Pids : proc'[p] = "zombie" => proc[p] = "zombie"
  BY <1>1, <1>3 DEF StartReturns, Keep, Spawn, TypeOK
<1>4. Handle(Head(q)) => /\ pc' \in {"loop", "shutdown"}
                         /\ \A p \in Pids : proc'[p] = "zombie" => proc[p] = "zombie"
  BY <1>2, <1>3, Zenon DEF Handle, Keep, StartEndpoint
<1>5. QED
  BY <1>4 DEF Poll

LEMMA WakeStep == TypeOK /\ WakeInv /\ [Next]_vars => WakeInv'
<1> SUFFICES ASSUME TypeOK, WakeInv, [Next]_vars PROVE WakeInv'
  OBVIOUS
<1>1. CASE EventLoopStart
  BY <1>1 DEF EventLoopStart, WakeInv, NoLostWakeup, NothingForked
<1>2. CASE LoopTop
  BY <1>2 DEF LoopTop, WakeInv, NoLostWakeup, NothingForked
<1>3. CASE Poll
  BY <1>3, PollZombies DEF WakeInv, NoLostWakeup, NothingForked
<1>4. CASE ReapStep
  <2>1. UNCHANGED waitForChild /\ ret \in {"poll", "wait"}
    BY <1>4 DEF ReapStep, TypeOK
  <2>2. QED
    BY <1>4, <2>1, ReapStepPc DEF WakeInv, NoLostWakeup, NothingForked
<1>5. CASE ShutdownBegin \/ SignalChild \/ WaitPass
  BY <1>5 DEF ShutdownBegin, SignalChild, WaitPass, WakeInv, NoLostWakeup,
              NothingForked
<1>6. ASSUME NEW p \in Pids, ChildExit(p) PROVE WakeInv'
  BY <1>6 DEF ChildExit, WakeInv, NoLostWakeup, NothingForked
<1>7. CASE \/ \E m \in Cmds : Deliver(m)
           \/ SubscriberStop \/ Terminate
           \/ \E p \in Pids : ChildSetsid(p) \/ Expire(p)
           \/ \E u \in Users : RemoveUser(u)
           \/ Terminated \/ UNCHANGED vars
  BY <1>7 DEF Deliver, SubscriberStop, Terminate, ChildSetsid, Expire,
              RemoveUser, Terminated, vars, WakeInv, NoLostWakeup, NothingForked
<1>8. QED
  BY <1>1, <1>2, <1>3, <1>4, <1>5, <1>6, <1>7 DEF Next, Supervisor, Environment

\* set_child_died sets _wait_for_child on every exit, and the event loop
\* clears it only on its way into the waitpid loop, which returns only
\* when no zombie is left: while the loop runs, no exited child goes
\* unnoticed.
THEOREM NoLostWakeupInvariant == Spec => []NoLostWakeup
<1>1. Init => WakeInv
  BY DEF Init, WakeInv, NoLostWakeup, NothingForked
<1>2. QED
  BY <1>1, InitTypeOK, TypeOKStep, WakeStep, PTL DEF Spec, WakeInv

-----------------------------------------------------------------------------
(* ShutdownReapsAll rests on what each stage of start()'s shutdown has     *)
(* established, relative to TypeOK and RegistryMatchesProcs.              *)

\* Shutdown has begun (start() has SIGTERMed its own group, which ran
\* request_shutdown): _time_to_stop is set for good.
Stopping ==
    pc \in {"signal", "wait", "done", "killed"} \/ ret = "wait"

\* The wait loop of a pass, or the reaping it calls.
Waiting == pc \in {"wait", "done"} \/ (pc = "reap" /\ ret = "wait")

\* What shutdown has established so far: once the SIGKILL pass has
\* signalled a child, that child is dead; a wait loop that has reaped
\* once has reaped them all.
ShutdownInv ==
    /\ Stopping => timeToStop
    /\ Waiting => toSignal = {}
    /\ pass = 2 /\ (pc = "signal" \/ Waiting) =>
           \A p \in Registered : p \in toSignal \/ proc[p] = "zombie"
    /\ pass = 2 /\ pc = "wait" /\ iterated => Registered = {}
    /\ pc = "done" => pass = 2 /\ Registered = {}

\* A reap iteration during shutdown revives nothing (_time_to_stop is set):
\* it only frees a zombie's pid and pops its record.
LEMMA ReapStepStopping ==
    ASSUME TypeOK, ReapStep, timeToStop
    PROVE  \/ \E p \in Pids :
                 /\ proc[p] = "zombie"
                 /\ children' = [children EXCEPT ![p] = NoRec]
                 /\ proc' = [proc EXCEPT ![p] = "free"]
                 /\ pc' = "reap"
           \/ /\ \A p \in Pids : proc[p] # "zombie"
              /\ pc' = ret /\ UNCHANGED <<children, proc>>
BY DEF ReapStep, Keep

LEMMA ShutdownStep ==
    TypeOK /\ RegistryMatchesProcs /\ ShutdownInv /\ [Next]_vars => ShutdownInv'
<1> SUFFICES ASSUME TypeOK, RegistryMatchesProcs, ShutdownInv, [Next]_vars
             PROVE  ShutdownInv'
  OBVIOUS
<1>1. CASE EventLoopStart \/ LoopTop
  BY <1>1 DEF EventLoopStart, LoopTop, ShutdownInv, Stopping, Waiting
<1>2. CASE Poll
  <2>1. UNCHANGED <<ret, pass>> /\ (timeToStop => timeToStop')
    <3>1. UNCHANGED <<ret, pass>>
      BY <1>2 DEF Poll
    <3>2. CASE q = << >>
      BY <1>2, <3>2 DEF Poll, TypeOK
    <3>3. CASE q # << >>
      BY <1>2, <3>3 DEF Poll
    <3>4. QED
      BY <3>1, <3>2, <3>3
  <2>2. QED
    BY <1>2, <2>1, PollZombies DEF ShutdownInv, Stopping, Waiting
<1>3. CASE ReapStep
  <2>1. UNCHANGED <<ret, pass, timeToStop, toSignal, iterated>>
    BY <1>3 DEF ReapStep
  <2>2. CASE ret = "poll"
    BY <1>3, <2>1, <2>2, ReapStepPc DEF ShutdownInv, Stopping, Waiting
  <2>3. CASE ret = "wait"
    <3>1. timeToStop /\ toSignal = {} /\ pc = "reap"
      BY <1>3, <2>3 DEF ShutdownInv, Stopping, Waiting, ReapStep
    <3>2. pass = 2 => \A p \in Registered : proc[p] = "zombie"
      BY <2>3, <3>1 DEF ShutdownInv, Waiting
    <3>3. ASSUME NEW p \in Pids, proc[p] = "zombie",
                 children' = [children EXCEPT ![p] = NoRec],
                 proc' = [proc EXCEPT ![p] = "free"],
                 pc' = "reap"
          PROVE  ShutdownInv'
      BY <2>1, <2>3, <3>1, <3>2, <3>3 DEF ShutdownInv, Stopping, Waiting,
                                         Registered, TypeOK
    <3>4. ASSUME \A p \in Pids : proc[p] # "zombie", pc' = ret,
                 UNCHANGED <<children, proc>>
          PROVE  ShutdownInv'
      <4>1. pass = 2 => Registered = {}
        BY <3>2, <3>4 DEF Registered
      <4>2. QED
        BY <2>1, <2>3, <3>1, <3>4, <4>1 DEF ShutdownInv, Stopping, Waiting,
                                           Registered
    <3>5. QED
      BY <1>3, <3>1, <3>3, <3>4, ReapStepStopping
  <2>4. QED
    BY <2>2, <2>3 DEF TypeOK
<1>4. CASE ShutdownBegin
  BY <1>4 DEF ShutdownBegin, ShutdownInv, Stopping, Waiting
<1>5. CASE SignalChild
  <2>1. UNCHANGED <<ret, pass, timeToStop, children>> /\ pc = "signal"
    BY <1>5 DEF SignalChild
  <2>2. timeToStop
    BY <2>1 DEF ShutdownInv, Stopping
  <2>3. ASSUME NEW p \in toSignal, toSignal' = toSignal \ {p},
               UNCHANGED iterated,
               \/ pass = 1 /\ UNCHANGED <<pc, proc>>
               \/ /\ pass = 2
                  /\ proc' = [proc EXCEPT ![p] = IF @ = "alive" THEN "zombie" ELSE @]
                  /\ UNCHANGED pc
               \/ pass = 2 /\ pc' = "killed"
        PROVE  ShutdownInv'
    <3>1. p \in Registered => proc[p] \in {"alive", "zombie"}
      BY DEF RegistryMatchesProcs, Registered, TypeOK
    <3>2. QED
      BY <2>1, <2>2, <2>3, <3>1 DEF ShutdownInv, Stopping, Waiting,
                                    Registered, TypeOK
  <2>4. ASSUME toSignal = {}, pc' = "wait", iterated' = FALSE,
               UNCHANGED <<toSignal, proc>>
        PROVE  ShutdownInv'
    BY <2>1, <2>2, <2>4 DEF ShutdownInv, Stopping, Waiting, Registered
  <2>5. QED
    BY <1>5, <2>3, <2>4 DEF SignalChild
<1>6. CASE WaitPass
  <2>1. UNCHANGED <<timeToStop, children, proc>> /\ pc = "wait"
    BY <1>6 DEF WaitPass
  <2>2. timeToStop /\ toSignal = {}
    BY <2>1 DEF ShutdownInv, Stopping, Waiting
  <2>3. QED
    BY <1>6, <2>1, <2>2 DEF WaitPass, ShutdownInv, Stopping, Waiting, Registered
<1>7. ASSUME NEW p \in Pids, ChildExit(p) PROVE ShutdownInv'
  BY <1>7 DEF ChildExit, ShutdownInv, Stopping, Waiting, Registered, TypeOK
<1>8. CASE \/ \E m \in Cmds : Deliver(m)
           \/ SubscriberStop \/ Terminate
           \/ \E p \in Pids : ChildSetsid(p) \/ Expire(p)
           \/ \E u \in Users : RemoveUser(u)
           \/ Terminated \/ UNCHANGED vars
  BY <1>8 DEF Deliver, SubscriberStop, Terminate, ChildSetsid, Expire,
              RemoveUser, Terminated, vars, ShutdownInv, Stopping, Waiting,
              Registered
<1>9. QED
  BY <1>1, <1>2, <1>3, <1>4, <1>5, <1>6, <1>7, <1>8 DEF Next, Supervisor,
                                                         Environment

LEMMA InitShutdown == Init => ShutdownInv
BY DEF Init, ShutdownInv, Stopping, Waiting

\* start()'s two passes end with an empty registry: the SIGKILL pass kills
\* every registered child (or the manager itself), and the pass's wait loop
\* leaves only when waitpid found no zombie after it, so every child it
\* signalled has been reaped; the SIGTERM pass needs no child to cooperate.
THEOREM ShutdownReapsAllInvariant == Spec => []ShutdownReapsAll
<1>1. /\ Init => TypeOK /\ RegistryMatchesProcs /\ ShutdownInv
      /\ TypeOK /\ RegistryMatchesProcs /\ ShutdownInv /\ [Next]_vars
         => (TypeOK /\ RegistryMatchesProcs /\ ShutdownInv)'
  BY InitTypeOK, InitShutdown, TypeOKStep, MatchStep, ShutdownStep
     DEF Init, RegistryMatchesProcs
<1>2. ShutdownInv => ShutdownReapsAll
  BY DEF ShutdownInv, ShutdownReapsAll
<1>3. QED
  BY <1>1, <1>2, PTL DEF Spec


-----------------------------------------------------------------------------
(***************************************************************************)
(* OwnIdentityAccepted.  _event_loop fetches the parent identity set only *)
(* when is_privileged() is false, and the code reaches the positions of   *)
(* the loop (and of a reap called from it) only through that lookup; the  *)
(* set is never changed afterwards.  So in a manager whose two privilege  *)
(* checks agree, a manager without uid change holds its own identity set  *)
(* whenever it serves commands.                                            *)
(***************************************************************************)
ServingPc == pc \in {"loop", "poll"} \/ (pc = "reap" /\ ret = "poll")

LookupDone == ServingPc /\ ~AnyPriv => parentIds = ParentIds

LEMMA LookupStep == TypeOK /\ LookupDone /\ [Next]_vars => LookupDone'
<1> SUFFICES ASSUME TypeOK, LookupDone, [Next]_vars PROVE LookupDone'
  OBVIOUS
<1>1. CASE EventLoopStart
  BY <1>1 DEF EventLoopStart, LookupDone, ServingPc
<1>2. CASE LoopTop
  BY <1>2 DEF LoopTop, LookupDone, ServingPc
<1>3. CASE Poll
  <2>1. pc = "poll" /\ UNCHANGED <<parentIds, ret>>
    BY <1>3 DEF Poll
  <2>2. QED
    BY <2>1 DEF LookupDone, ServingPc
<1>4. CASE ReapStep
  <2>1. UNCHANGED <<parentIds, ret>> /\ pc = "reap"
    BY <1>4 DEF ReapStep
  <2>2. pc' = "reap" \/ pc' = ret
    BY <1>4, ReapStepPc
  <2>3. QED
    BY <2>1, <2>2 DEF LookupDone, ServingPc, TypeOK
<1>5. CASE ShutdownBegin \/ SignalChild \/ WaitPass
  BY <1>5 DEF ShutdownBegin, SignalChild, WaitPass, LookupDone, ServingPc
<1>6. ASSUME NEW p \in Pids, ChildExit(p) PROVE LookupDone'
  BY <1>6 DEF ChildExit, LookupDone, ServingPc
<1>7. CASE \/ \E m \in Cmds : Deliver(m)
           \/ SubscriberStop \/ Terminate
           \/ \E p \in Pids : ChildSetsid(p) \/ Expire(p)
           \/ \E u \in Users : RemoveUser(u)
           \/ Terminated \/ UNCHANGED vars
  BY <1>7 DEF Deliver, SubscriberStop, Terminate, ChildSetsid, Expire,
              RemoveUser, Terminated, vars, LookupDone, ServingPc
<1>8. QED
  BY <1>1, <1>2, <1>3, <1>4, <1>5, <1>6, <1>7 DEF Next, Supervisor, Environment

\* A manager whose privilege checks agree (is_privileged() exactly when it
\* may change uid) and that cannot change uid accepts, while its event loop
\* runs, every command whose identity set meets the identity set of its own
\* credential, resolving it to its own user.  (Run capability shows that
\* the hypothesis is needed: with a capability but no uid change, the
\* code refuses every command.)
THEOREM OwnIdentityAcceptedInvariant ==
    (AnyPriv => UidPriv) => (Spec => []OwnIdentityAccepted)
<1> SUFFICES ASSUME AnyPriv => UidPriv PROVE Spec => []OwnIdentityAccepted
  OBVIOUS
<1>1. Init => TypeOK /\ LookupDone
  BY InitTypeOK DEF Init, LookupDone, ServingPc
<1>2. TypeOK /\ LookupDone /\ [Next]_vars => (TypeOK /\ LookupDone)'
  BY TypeOKStep, LookupStep
<1>3. TypeOK /\ LookupDone => OwnIdentityAccepted
  <2> SUFFICES ASSUME TypeOK, LookupDone, pc \in {"loop", "poll"}, ~UidPriv,
                      NEW m \in Cmds, m.ids \cap ParentIds # {}
               PROVE  ResolveUser(m) # NoUser
    BY DEF OwnIdentityAccepted
  <2>1. parentIds = ParentIds
    BY DEF LookupDone, ServingPc
  <2>2. ResolveUser(m) = MuUser
    BY <2>1 DEF ResolveUser
  <2>3. QED
    BY <2>2
<1>4. QED
  BY <1>1, <1>2, <1>3, PTL DEF Spec

=============================================================================

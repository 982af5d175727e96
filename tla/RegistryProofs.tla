-------------------------- MODULE RegistryProofs --------------------------
(***************************************************************************)
(* Proof that EndpointManager implements EndpointRegistry under the       *)
(* mapping of EndpointManager.tla: the running endpoints are the views of *)
(* the user-endpoint records of the registry, and the phase is where the  *)
(* supervisor thread is in start().                                        *)
(***************************************************************************)
EXTENDS SupervisorProofs

USE ConstantsAssumption

-----------------------------------------------------------------------------
(* How the endpoints a registry shows change when one record is written.  *)

\* Writing a user-endpoint record over a pid that held none adds its endpoint.
LEMMA ViewAdd ==
    ASSUME NEW ch \in [Pids -> RecType], NEW k \in Pids, ch[k].kind # "uep",
           NEW r, r.kind = "uep"
    PROVE  View([ch EXCEPT ![k] = r]) = View(ch) \cup {EpOf(r)}
BY DEF View

\* Writing a record that is no user endpoint over one that is none either
\* changes nothing the registry shows.
LEMMA ViewKeep ==
    ASSUME NEW ch \in [Pids -> RecType], NEW k \in Pids, ch[k].kind # "uep",
           NEW r, r.kind # "uep"
    PROVE  View([ch EXCEPT ![k] = r]) = View(ch)
BY DEF View

\* Popping a user endpoint's record removes its endpoint: no other record
\* shows the same one, since names are unique.
LEMMA ViewRemove ==
    ASSUME NEW ch \in [Pids -> RecType], Uniq(ch), NEW p \in Pids,
           ch[p].kind = "uep"
    PROVE  View([ch EXCEPT ![p] = NoRec]) = View(ch) \ {EpOf(ch[p])}
<1>1. \A p2 \in Pids : p2 # p /\ ch[p2].kind = "uep" => EpOf(ch[p2]) # EpOf(ch[p])
  BY DEF Uniq, EpOf
<1>2. QED
  BY <1>1 DEF View, NoRec

\* Popping a record of no user endpoint changes nothing the registry shows.
LEMMA ViewRemoveOther ==
    ASSUME NEW ch \in [Pids -> RecType], NEW p \in Pids, ch[p].kind # "uep"
    PROVE  View([ch EXCEPT ![p] = NoRec]) = View(ch)
BY ViewKeep DEF NoRec

\* os.fork() in the parent writes its record over a free pid, whose record
\* is absent.
LEMMA SpawnView ==
    ASSUME NEW ch \in [Pids -> RecType], NEW ca,
           NEW pr \in [Pids -> {"free", "alive", "zombie"}], Match(ch, pr),
           NEW rec, NEW next, Spawn(ch, ca, pr, rec, next)
    PROVE  View(children') = IF rec.kind = "uep" THEN View(ch) \cup {EpOf(rec)}
                                                 ELSE View(ch)
<1>1. PICK k \in FreeIn(pr) : children' = [ch EXCEPT ![k] = rec]
  BY DEF Spawn
<1>2. k \in Pids /\ ch[k].kind # "uep"
  BY <1>1 DEF FreeIn, Match, NoRec
<1>3. QED
  BY <1>1, <1>2, ViewAdd, ViewKeep

\* The endpoint a start command for user u, name n and identity set ids
\* asks for.
Asked(u, n, ids) == [name |-> n, user |-> u, ids |-> ids]

\* cmd_start_endpoint, when it returns, either forks nothing the registry
\* shows (it cached the arguments) or adds the endpoint asked for, under a
\* name no running endpoint has, after the same-user check.
LEMMA StartReturnsView ==
    ASSUME NEW ch \in [Pids -> RecType], NEW ca,
           NEW pr \in [Pids -> {"free", "alive", "zombie"}], Match(ch, pr),
           NEW u \in Users, NEW n \in Names \cup {NoName}, NEW ids \in SUBSET Ids,
           NEW next, StartReturns(ch, ca, pr, u, n, ids, next)
    PROVE  \/ View(children') = View(ch)
           \/ /\ Asked(u, n, ids) \in Registry!Ep
              /\ \A d \in View(ch) : d.name # n
              /\ AllowSameUser \/ u # MuUser
              /\ View(children') = View(ch) \cup {Asked(u, n, ids)}
<1>1. CASE \E k \in Running(ch, n) :
               Keep(ch, [ca EXCEPT ![k] = StartArgs(u, n, ids)], pr, next)
  BY <1>1 DEF Keep
<1>2. CASE /\ Running(ch, n) = {}
           /\ AllowSameUser \/ u # MuUser
           /\ Spawn(ch, ca, pr, UepRec(u, n, ids), next)
  <2>1. n # NoName
    BY DEF StartReturns
  <2>2. Asked(u, n, ids) \in Registry!Ep
    BY <2>1 DEF Asked, Registry!Ep
  <2>3. \A d \in View(ch) : d.name # n
    BY <1>2 DEF View, Running, EpOf
  <2>4. View(children') = View(ch) \cup {Asked(u, n, ids)}
    <3>1. UepRec(u, n, ids).kind = "uep" /\ EpOf(UepRec(u, n, ids)) = Asked(u, n, ids)
      BY DEF UepRec, EpOf, Asked
    <3>2. QED
      BY <1>2, <3>1, SpawnView
  <2>5. QED
    BY <1>2, <2>2, <2>3, <2>4
<1>3. QED
  BY <1>1, <1>2 DEF StartReturns

\* A failure-notice helper is no user endpoint.
LEMMA FailureNoticeView ==
    ASSUME children \in [Pids -> RecType],
           proc \in [Pids -> {"free", "alive", "zombie"}], Match(children, proc),
           FailureNotice
    PROVE  /\ View(children') = View(children)
           /\ pc' \in {"loop", "shutdown"}
<1>1. NoticeRec.kind # "uep"
  BY DEF NoticeRec
<1>2. QED
  BY <1>1, SpawnView DEF FailureNotice, Keep, Spawn

-----------------------------------------------------------------------------
(* The abstract steps, stated on the mapped state.                        *)

AbsStep == [Registry!Next]_Registry!vars

Serving == PhaseView = "serving" /\ PhaseView' = "serving"

LEMMA StutterStep ==
    ASSUME UepView' = UepView, PhaseView' = PhaseView PROVE AbsStep
BY DEF AbsStep, Registry!vars

LEMMA DrainStep ==
    ASSUME PhaseView = "serving", PhaseView' = "draining", UepView' = UepView
    PROVE  AbsStep
BY DEF AbsStep, Registry!Next, Registry!Drain

LEMMA ExitStep ==
    ASSUME NEW e \in Registry!Ep, e \in UepView, UepView' = UepView \ {e},
           PhaseView' = PhaseView
    PROVE  AbsStep
BY DEF AbsStep, Registry!Next, Registry!Exit

LEMMA StartStep ==
    ASSUME Serving, NEW u \in Users, NEW n, NEW ids \in SUBSET Ids,
           Asked(u, n, ids) \in Registry!Ep, Authorized(u, ids),
           \A d \in UepView : d.name # n,
           UepView' = UepView \cup {Asked(u, n, ids)}
    PROVE  AbsStep
<1>1. Asked(u, n, ids).name \notin Registry!NamesOf(UepView)
  BY DEF Asked, Registry!NamesOf
<1>2. <<Asked(u, n, ids).user, Asked(u, n, ids).ids>>
          \in {pr \in Users \X SUBSET Ids : Authorized(pr[1], pr[2])}
  BY DEF Asked
<1>3. Registry!Start(Asked(u, n, ids))
  BY <1>1, <1>2 DEF Registry!Start, Serving
<1>4. QED
  BY <1>3 DEF AbsStep, Registry!Next

LEMMA ReviveStep ==
    ASSUME Serving, NEW e \in Registry!Ep, e \in UepView,
           NEW u \in Users, NEW n, NEW ids \in SUBSET Ids,
           Asked(u, n, ids) \in Registry!Ep, Authorized(u, ids),
           \A d \in UepView \ {e} : d.name # n,
           UepView' = (UepView \ {e}) \cup {Asked(u, n, ids)}
    PROVE  AbsStep
<1>1. Asked(u, n, ids).name \notin Registry!NamesOf(UepView \ {e})
  BY DEF Asked, Registry!NamesOf
<1>2. <<Asked(u, n, ids).user, Asked(u, n, ids).ids>>
          \in {pr \in Users \X SUBSET Ids : Authorized(pr[1], pr[2])}
  BY DEF Asked
<1>3. Registry!Revive(e, Asked(u, n, ids))
  BY <1>1, <1>2 DEF Registry!Revive, Serving
<1>4. QED
  BY <1>3 DEF AbsStep, Registry!Next

\* Every step of the abstract registry keeps its endpoints in Ep.
LEMMA AbsStepEp ==
    ASSUME UepView \subseteq Registry!Ep, AbsStep PROVE UepView' \subseteq Registry!Ep
BY DEF AbsStep, Registry!Next, Registry!vars, Registry!Start, Registry!Exit,
       Registry!Revive, Registry!Drain, Registry!Finish

LEMMA FinishStep ==
    ASSUME PhaseView = "draining", UepView = {}, PhaseView' = "done",
           UepView' = UepView
    PROVE  AbsStep
BY DEF AbsStep, Registry!Next, Registry!Finish

\* cmd_start_endpoint returns to the caller's next statement.
LEMMA StartReturnsPc ==
    ASSUME NEW ch, NEW ca, NEW pr, NEW u, NEW n, NEW ids, NEW next,
           StartReturns(ch, ca, pr, u, n, ids, next)
    PROVE  pc' = next
BY DEF StartReturns, Keep, Spawn

-----------------------------------------------------------------------------
(* The invariant the refinement rests on: the authorisation, uniqueness,  *)
(* registry and shutdown invariants proved before, and the endpoints the  *)
(* registry shows are well formed.                                         *)

RInv ==
    /\ AuthInv /\ UniqueEpName /\ RegistryMatchesProcs /\ ShutdownInv
    /\ UepView \subseteq Registry!Ep

LEMMA RefStep == RInv /\ [Next]_vars => AbsStep
<1> SUFFICES ASSUME RInv, [Next]_vars PROVE AbsStep
  OBVIOUS
<1>0. /\ TypeOK /\ ParentIdsOK /\ ShutdownInv
      /\ children \in [Pids -> RecType]
      /\ proc \in [Pids -> {"free", "alive", "zombie"}]
      /\ Match(children, proc) /\ Uniq(children) /\ CaAuth(cached)
      /\ UepView \subseteq Registry!Ep
  BY DEF RInv, AuthInv, TypeOK, RegistryMatchesProcs, Match, UniqueEpName, Uniq,
         CachedAuthorized, CaAuth
<1>1. CASE EventLoopStart
  <2>1. UNCHANGED children /\ pc = "start" /\ pc' \in {"loop", "shutdown"}
    BY <1>1 DEF EventLoopStart
  <2>2. UepView' = UepView /\ PhaseView = "serving"
    BY <2>1 DEF UepView, PhaseView
  <2>3. QED
    BY <2>1, <2>2, StutterStep, DrainStep DEF PhaseView
<1>2. CASE LoopTop
  <2>1. /\ UNCHANGED children /\ pc = "loop"
        /\ \/ pc' = "shutdown"
           \/ pc' = "reap" /\ ret' = "poll"
           \/ pc' = "poll"
    BY <1>2 DEF LoopTop
  <2>2. UepView' = UepView /\ PhaseView = "serving"
    BY <2>1 DEF UepView, PhaseView
  <2>3. QED
    BY <2>1, <2>2, StutterStep, DrainStep DEF PhaseView
<1>3. CASE Poll
  <2>0. pc = "poll" /\ PhaseView = "serving"
    BY <1>3 DEF Poll, PhaseView
  <2>1. CASE q = << >>
    <3>1. UNCHANGED children /\ pc' = "loop"
      BY <1>3, <2>1 DEF Poll
    <3>2. QED
      BY <2>0, <3>1, StutterStep DEF UepView, PhaseView
  <2>2. CASE q # << >>
    <3> DEFINE m == Head(q)
    <3>0. m \in CmdType /\ Handle(m)
      <4>1. m \in CmdType
        BY <1>0, <2>2 DEF TypeOK
      <4>2. Handle(m)
        BY <1>3, <2>2 DEF Poll
      <4>3. QED
        BY <4>1, <4>2
    <3>1. FailureNotice => AbsStep
      BY <1>0, <2>0, FailureNoticeView, StutterStep, DrainStep DEF UepView, PhaseView
    <3>2. Keep(children, cached, proc, "loop") => AbsStep
      BY <2>0, StutterStep DEF Keep, UepView, PhaseView
    <3>3. ASSUME ResolveUser(m) # NoUser,
                 StartReturns(children, cached, proc, ResolveUser(m), m.name,
                              m.ids, "loop")
          PROVE  AbsStep
      <4> DEFINE u == ResolveUser(m)
      <4>1. u \in Users /\ m.name \in Names \cup {NoName} /\ m.ids \in SUBSET Ids
        BY <1>0, <3>0, <3>3 DEF ResolveUser, TypeOK, CmdType
      <4>2. IdentityOK(u, m.ids)
        BY <1>0, <3>0, <3>3, ResolveUserOK
      <4>3. pc' = "loop" /\ Serving
        BY <2>0, <3>3, StartReturnsPc DEF Serving, PhaseView
      <4>4. \/ UepView' = UepView
            \/ /\ Asked(u, m.name, m.ids) \in Registry!Ep
               /\ \A d \in UepView : d.name # m.name
               /\ AllowSameUser \/ u # MuUser
               /\ UepView' = UepView \cup {Asked(u, m.name, m.ids)}
        BY <1>0, <3>3, <4>1, StartReturnsView DEF UepView
      <4>5. QED
        BY <4>1, <4>2, <4>3, <4>4, StutterStep, StartStep DEF Authorized, Serving
    <3>4. QED
      BY <3>0, <3>1, <3>2, <3>3 DEF Handle, StartEndpoint
  <2>3. QED
    BY <2>1, <2>2
<1>4. CASE ReapStep
  <2>0. pc = "reap" /\ UNCHANGED ret
    BY <1>4 DEF ReapStep
  <2>1. ASSUME NEW p \in Pids, proc[p] = "zombie",
               LET ch   == [children EXCEPT ![p] = NoRec]
                   pr   == [proc EXCEPT ![p] = "free"]
                   ca   == [cached EXCEPT ![p] = NoArgs]
                   args == cached[p]
               IN  IF rc[p] = 0
                   THEN IF ~timeToStop /\ args # NoArgs /\ args.user \in passwd
                        THEN StartEndpoint(ch, ca, pr, args.user, args.name,
                                           args.ids, Keep(ch, ca, pr, "reap"),
                                           "reap")
                        ELSE Keep(ch, ca, pr, "reap")
                   ELSE Keep(ch, cached, pr, "reap")
        PROVE  AbsStep
    <3> DEFINE ch   == [children EXCEPT ![p] = NoRec]
               pr   == [proc EXCEPT ![p] = "free"]
               ca   == [cached EXCEPT ![p] = NoArgs]
               args == cached[p]
               new  == Asked(args.user, args.name, args.ids)
               Out  == \/ View(children') = View(ch)
                       \/ /\ ~timeToStop
                          /\ args.user \in Users /\ args.ids \in SUBSET Ids
                          /\ new \in Registry!Ep
                          /\ \A d \in View(ch) : d.name # args.name
                          /\ Authorized(args.user, args.ids)
                          /\ View(children') = View(ch) \cup {new}
    <3>1. /\ ch \in [Pids -> RecType]
          /\ pr \in [Pids -> {"free", "alive", "zombie"}]
          /\ Match(ch, pr)
      BY <1>0 DEF Match, NoRec, RecType
    <3>2. Out /\ pc' = "reap"
      <4>1. Keep(ch, ca, pr, "reap") => View(children') = View(ch) /\ pc' = "reap"
        BY DEF Keep
      <4>2. Keep(ch, cached, pr, "reap") => View(children') = View(ch) /\ pc' = "reap"
        BY DEF Keep
      <4>3. ASSUME ~timeToStop, args # NoArgs, args.user \in passwd,
                   StartEndpoint(ch, ca, pr, args.user, args.name, args.ids,
                                 Keep(ch, ca, pr, "reap"), "reap")
            PROVE  Out /\ pc' = "reap"
        <5>1. /\ args.user \in Users /\ args.name \in Names \cup {NoName}
              /\ args.ids \in SUBSET Ids
          BY <1>0, <4>3 DEF TypeOK, ArgsType
        <5>2. IdentityOK(args.user, args.ids)
          BY <1>0, <4>3 DEF CaAuth
        <5>3. CASE StartReturns(ch, ca, pr, args.user, args.name, args.ids, "reap")
          <6>1. pc' = "reap"
            BY <5>3, StartReturnsPc
          <6>2. \/ View(children') = View(ch)
                \/ /\ new \in Registry!Ep
                   /\ \A d \in View(ch) : d.name # args.name
                   /\ AllowSameUser \/ args.user # MuUser
                   /\ View(children') = View(ch) \cup {new}
            BY <3>1, <5>1, <5>3, StartReturnsView
          <6>3. QED
            BY <4>3, <5>1, <5>2, <6>1, <6>2 DEF Authorized
        <5>4. QED
          BY <4>1, <4>3, <5>3 DEF StartEndpoint
      <4>4. QED
        BY <2>1, <4>1, <4>2, <4>3
    <3>3. PhaseView' = PhaseView
      BY <2>0, <3>2 DEF PhaseView
    <3>4. ~timeToStop => Serving
      <4>1. ~timeToStop => ret = "poll"
        BY <1>0 DEF ShutdownInv, Stopping, TypeOK
      <4>2. QED
        BY <2>0, <3>3, <4>1 DEF Serving, PhaseView
    <3>5. CASE children[p].kind = "uep"
      <4> DEFINE e == EpOf(children[p])
      <4>1. View(ch) = UepView \ {e} /\ e \in UepView
        BY <1>0, <3>5, ViewRemove DEF UepView, View
      <4>2. e \in Registry!Ep
        BY <1>0, <4>1
      <4>3. CASE View(children') = View(ch)
        BY <3>3, <4>1, <4>2, <4>3, ExitStep DEF UepView
      <4>4. CASE /\ ~timeToStop
                 /\ args.user \in Users /\ args.ids \in SUBSET Ids
                 /\ new \in Registry!Ep
                 /\ \A d \in View(ch) : d.name # args.name
                 /\ Authorized(args.user, args.ids)
                 /\ View(children') = View(ch) \cup {new}
        <5>1. Serving
          BY <3>4, <4>4
        <5>2. UepView' = (UepView \ {e}) \cup {new}
          BY <4>1, <4>4 DEF UepView
        <5>3. \A d \in UepView \ {e} : d.name # args.name
          BY <4>1, <4>4
        <5>4. QED
          BY <4>1, <4>2, <4>4, <5>1, <5>2, <5>3, ReviveStep
      <4>5. QED
        BY <3>2, <4>3, <4>4
    <3>6. CASE children[p].kind # "uep"
      <4>1. View(ch) = UepView
        BY <1>0, <3>6, ViewRemoveOther DEF UepView
      <4>2. CASE View(children') = View(ch)
        BY <3>3, <4>1, <4>2, StutterStep DEF UepView
      <4>3. CASE /\ ~timeToStop
                 /\ args.user \in Users /\ args.ids \in SUBSET Ids
                 /\ new \in Registry!Ep
                 /\ \A d \in View(ch) : d.name # args.name
                 /\ Authorized(args.user, args.ids)
                 /\ View(children') = View(ch) \cup {new}
        <5>1. Serving
          BY <3>4, <4>3
        <5>2. UepView' = UepView \cup {new} /\ \A d \in UepView : d.name # args.name
          BY <4>1, <4>3 DEF UepView
        <5>3. QED
          BY <4>3, <5>1, <5>2, StartStep
      <4>4. QED
        BY <3>2, <4>2, <4>3
    <3>7. QED
      BY <3>5, <3>6
  <2>2. ASSUME \A p \in Pids : proc[p] # "zombie", pc' = ret,
               UNCHANGED <<children, cached, proc, grp, ret>>
        PROVE  AbsStep
    BY <1>0, <2>0, <2>2, StutterStep DEF UepView, PhaseView, TypeOK
  <2>3. QED
    BY <1>4, <2>1, <2>2 DEF ReapStep
<1>5. CASE ShutdownBegin \/ SignalChild
  <2>1. /\ UNCHANGED <<children, ret>> /\ pc \in {"shutdown", "signal"}
        /\ pc' \in {"signal", "killed", "wait"}
    BY <1>5 DEF ShutdownBegin, SignalChild
  <2>2. QED
    BY <2>1, StutterStep DEF UepView, PhaseView
<1>6. CASE WaitPass
  <2>1. UNCHANGED children /\ pc = "wait" /\ PhaseView = "draining"
    BY <1>6 DEF WaitPass, PhaseView
  <2>2. UepView' = UepView
    BY <2>1 DEF UepView
  <2>3. CASE pc' = "done"
    <3>1. Registered = {}
      BY <1>0, <1>6, <2>1, <2>3 DEF WaitPass, ShutdownInv
    <3>2. UepView = {}
      BY <3>1 DEF Registered, UepView, View, NoRec
    <3>3. QED
      BY <2>1, <2>2, <2>3, <3>2, FinishStep DEF PhaseView
  <2>4. CASE pc' # "done"
    <3>1. (pc' = "reap" /\ ret' = "wait") \/ pc' = "signal"
      BY <1>6, <2>4 DEF WaitPass
    <3>2. QED
      BY <2>1, <2>2, <3>1, StutterStep DEF PhaseView
  <2>5. QED
    BY <2>3, <2>4
<1>7. CASE \/ \E m \in Cmds : Deliver(m)
           \/ SubscriberStop \/ Terminate
           \/ \E p \in Pids : ChildExit(p) \/ ChildSetsid(p) \/ Expire(p)
           \/ \E u \in Users : RemoveUser(u)
           \/ Terminated \/ UNCHANGED vars
  <2>1. UNCHANGED <<children, pc, ret>>
    BY <1>7 DEF Deliver, SubscriberStop, Terminate, ChildExit, ChildSetsid,
                Expire, RemoveUser, Terminated, vars
  <2>2. QED
    BY <2>1, StutterStep DEF UepView, PhaseView
<1>8. QED
  BY <1>1, <1>2, <1>3, <1>4, <1>5, <1>6, <1>7 DEF Next, Supervisor, Environment

LEMMA InitRInv == Init => RInv
<1> SUFFICES ASSUME Init PROVE RInv
  OBVIOUS
<1>1. UepView = {}
  BY DEF Init, UepView, View, NoRec
<1>2. QED
  BY <1>1, InitAuth, InitShutdown
  DEF RInv, Init, UniqueEpName, RegistryMatchesProcs, NoRec

LEMMA RInvStep == RInv /\ [Next]_vars => RInv'
<1> SUFFICES ASSUME RInv, [Next]_vars PROVE RInv'
  OBVIOUS
<1>1. TypeOK /\ RegistryMatchesProcs
  BY DEF RInv, AuthInv
<1>2. (AuthInv /\ UniqueEpName /\ RegistryMatchesProcs /\ ShutdownInv)'
  BY <1>1, AuthStep, UniqStep, MatchStep, ShutdownStep DEF RInv
<1>3. (UepView \subseteq Registry!Ep)'
  BY RefStep, AbsStepEp DEF RInv
<1>4. QED
  BY <1>2, <1>3 DEF RInv

\* The manager implements the abstract registry, for every value of the
\* constants: the forks of cmd_start_endpoint and _revive_child start
\* authorised endpoints under free names while the event loop serves, a
\* revival never runs during shutdown, waitpid only ends endpoints, and
\* start() returns only with no endpoint left.
THEOREM RegistryRefinement == Spec => RegistryRefined
<1>1. Init => Registry!Init
  BY DEF Init, Registry!Init, UepView, View, NoRec, PhaseView
<1>2. QED
  BY <1>1, InitRInv, RInvStep, RefStep, PTL
  DEF Spec, RegistryRefined, Registry!Spec, AbsStep

-----------------------------------------------------------------------------
(* The registry's guarantees, carried to the manager by the refinement.   *)

RP == INSTANCE EndpointRegistryProofs
    WITH up <- UepView, phase <- PhaseView,
         Allowed <- {pr \in Users \X SUBSET Ids : Authorized(pr[1], pr[2])}

\* Once the supervisor leaves the event loop (the shutdown passes, their
\* reaping, the end of start()), no user endpoint is started or revived and
\* the loop is never entered again: _revive_child's _time_to_stop guard
\* and the single pass through start() make shutdown final.
THEOREM ManagerStopIsFinal == Spec => Registry!StopIsFinal
<1>1. RP!Spec => RP!StopIsFinal
  BY RP!StopIsFinalHolds
<1>2. RP!Spec <=> Registry!Spec
  BY DEF RP!Spec, Registry!Spec, RP!Init, Registry!Init, RP!Next,
         Registry!Next, RP!Start, Registry!Start, RP!Exit, Registry!Exit,
         RP!Revive, Registry!Revive, RP!Drain, Registry!Drain, RP!Finish,
         Registry!Finish, RP!vars, Registry!vars, RP!NamesOf,
         Registry!NamesOf, RP!Ep, Registry!Ep
<1>3. RP!StopIsFinal <=> Registry!StopIsFinal
  BY DEF RP!StopIsFinal, Registry!StopIsFinal, RP!vars, Registry!vars
<1>4. QED
  BY <1>1, <1>2, <1>3, RegistryRefinement DEF RegistryRefined

-----------------------------------------------------------------------------
(* RevivalUserExists: a reap starts an endpoint only from cached         *)
(* arguments whose user getpwuid still finds.                             *)

\* Popping a record never adds an endpoint to what the registry shows.
LEMMA ViewPop ==
    ASSUME NEW ch, NEW p \in Pids
    PROVE  View([ch EXCEPT ![p] = NoRec]) \subseteq View(ch)
BY DEF View, NoRec

LEMMA RevivalUserStep ==
    ASSUME TypeOK, RegistryMatchesProcs, [Next]_vars, pc = "reap"
    PROVE  \A e \in UepView' \ UepView : e.user \in passwd
<1>0. /\ children \in [Pids -> RecType]
      /\ proc \in [Pids -> {"free", "alive", "zombie"}]
      /\ Match(children, proc)
  BY DEF TypeOK, RegistryMatchesProcs, Match
<1>1. CASE ReapStep
  <2>1. ASSUME NEW p \in Pids, proc[p] = "zombie",
               LET ch   == [children EXCEPT ![p] = NoRec]
                   pr   == [proc EXCEPT ![p] = "free"]
                   ca   == [cached EXCEPT ![p] = NoArgs]
                   args == cached[p]
               IN  IF rc[p] = 0
                   THEN IF ~timeToStop /\ args # NoArgs /\ args.user \in passwd
                        THEN StartEndpoint(ch, ca, pr, args.user, args.name,
                                           args.ids, Keep(ch, ca, pr, "reap"),
                                           "reap")
                        ELSE Keep(ch, ca, pr, "reap")
                   ELSE Keep(ch, cached, pr, "reap")
        PROVE  \A e \in UepView' \ UepView : e.user \in passwd
    <3> DEFINE ch   == [children EXCEPT ![p] = NoRec]
               pr   == [proc EXCEPT ![p] = "free"]
               ca   == [cached EXCEPT ![p] = NoArgs]
               args == cached[p]
    <3>1. /\ ch \in [Pids -> RecType]
          /\ pr \in [Pids -> {"free", "alive", "zombie"}]
          /\ Match(ch, pr)
          /\ View(ch) \subseteq UepView
      BY <1>0, ViewPop DEF Match, NoRec, RecType, UepView
    <3>2. passwd' = passwd
      BY <1>1 DEF ReapStep
    <3>3. ASSUME ~timeToStop, args # NoArgs, args.user \in passwd,
                 StartReturns(ch, ca, pr, args.user, args.name, args.ids, "reap")
          PROVE  \A e \in UepView' \ UepView : e.user \in passwd
      <4>1. /\ args.user \in Users /\ args.name \in Names \cup {NoName}
            /\ args.ids \in SUBSET Ids
        BY <3>3 DEF TypeOK, ArgsType
      <4>2. \/ View(children') = View(ch)
            \/ View(children') = View(ch) \cup {Asked(args.user, args.name, args.ids)}
        BY <3>1, <3>3, <4>1, StartReturnsView
      <4>3. UepView' = View(children') /\ UepView = View(children)
        BY DEF UepView
      <4>4. Asked(args.user, args.name, args.ids).user = args.user
        BY DEF Asked
      <4>5. QED
        BY <3>1, <3>3, <4>2, <4>3, <4>4
    <3>4. ASSUME Keep(ch, ca, pr, "reap") \/ Keep(ch, cached, pr, "reap")
          PROVE  \A e \in UepView' \ UepView : e.user \in passwd
      BY <3>1, <3>4 DEF Keep, UepView
    <3>5. QED
      BY <2>1, <3>3, <3>4 DEF StartEndpoint
  <2>2. ASSUME \A p \in Pids : proc[p] # "zombie",
               UNCHANGED <<children, cached, proc, grp, ret>>
        PROVE  \A e \in UepView' \ UepView : e.user \in passwd
    BY <2>2 DEF UepView
  <2>3. QED
    BY <1>1, <2>1, <2>2 DEF ReapStep
<1>2. CASE \/ \E m \in Cmds : Deliver(m)
           \/ SubscriberStop \/ Terminate
           \/ \E p \in Pids : ChildExit(p) \/ ChildSetsid(p) \/ Expire(p)
           \/ \E u \in Users : RemoveUser(u)
           \/ Terminated \/ UNCHANGED vars
  <2>1. UNCHANGED children
    BY <1>2 DEF Deliver, SubscriberStop, Terminate, ChildExit, ChildSetsid,
                Expire, RemoveUser, Terminated, vars
  <2>2. QED
    BY <2>1 DEF UepView
<1>3. QED
  BY <1>1, <1>2 DEF Next, Supervisor, Environment, EventLoopStart, LoopTop,
                    Poll, ShutdownBegin, SignalChild, WaitPass

\* _revive_child's getpwuid refresh: however long a start command waited in
\* the cache, and whatever users were removed meanwhile, no revival starts
\* an endpoint for a user that no longer exists.
THEOREM RevivalUserExistsHolds == Spec => RevivalUserExists
<1>1. TypeOK /\ RegistryMatchesProcs /\ [Next]_vars
        => [pc = "reap" => \A e \in UepView' \ UepView : e.user \in passwd]_vars
  BY RevivalUserStep
<1>2. QED
  BY <1>1, TypeCorrect, RegistryMatchesProcsInvariant, PTL
  DEF Spec, RevivalUserExists

=============================================================================

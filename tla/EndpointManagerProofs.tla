---------------------- MODULE EndpointManagerProofs ----------------------
(***************************************************************************)
(* Proofs about EndpointManager, for every value of the constants that    *)
(* satisfies ConstantsAssumption.                                          *)
(***************************************************************************)
EXTENDS EndpointManager, TLAPS

USE ConstantsAssumption

\* The fork helpers leave the registry, the cache and the process table
\* well typed when they start from well-typed values.
LEMMA SpawnType ==
    ASSUME NEW ch \in [Pids -> RecType], NEW ca \in [Pids -> ArgsType],
           NEW pr \in [Pids -> {"free", "alive", "zombie"}],
           NEW rec \in RecType, NEW next \in PcType,
           grp \in [Pids -> {"mgr", "own"}],
           Spawn(ch, ca, pr, rec, next)
    PROVE  /\ children' \in [Pids -> RecType]
           /\ cached' \in [Pids -> ArgsType]
           /\ proc' \in [Pids -> {"free", "alive", "zombie"}]
           /\ grp' \in [Pids -> {"mgr", "own"}]
           /\ pc' \in PcType
BY DEF Spawn, FreeIn

LEMMA KeepType ==
    ASSUME NEW ch \in [Pids -> RecType], NEW ca \in [Pids -> ArgsType],
           NEW pr \in [Pids -> {"free", "alive", "zombie"}],
           NEW next \in PcType,
           grp \in [Pids -> {"mgr", "own"}],
           Keep(ch, ca, pr, next)
    PROVE  /\ children' \in [Pids -> RecType]
           /\ cached' \in [Pids -> ArgsType]
           /\ proc' \in [Pids -> {"free", "alive", "zombie"}]
           /\ grp' \in [Pids -> {"mgr", "own"}]
           /\ pc' \in PcType
BY DEF Keep

\* What the typing of every step that may fork has to establish.
ForkTypeOK ==
    /\ children' \in [Pids -> RecType]
    /\ cached' \in [Pids -> ArgsType]
    /\ proc' \in [Pids -> {"free", "alive", "zombie"}]
    /\ grp' \in [Pids -> {"mgr", "own"}]
    /\ pc' \in PcType

LEMMA StartReturnsType ==
    ASSUME NEW ch \in [Pids -> RecType], NEW ca \in [Pids -> ArgsType],
           NEW pr \in [Pids -> {"free", "alive", "zombie"}],
           NEW u \in Users, NEW n \in Names \cup {NoName}, NEW ids \in SUBSET Ids,
           NEW next \in PcType,
           grp \in [Pids -> {"mgr", "own"}],
           StartReturns(ch, ca, pr, u, n, ids, next)
    PROVE  ForkTypeOK
<1>1. UepRec(u, n, ids) \in RecType
  BY DEF UepRec, RecType
<1>2. \A p \in Pids : [ca EXCEPT ![p] = StartArgs(u, n, ids)] \in [Pids -> ArgsType]
  BY DEF StartArgs, ArgsType
<1>3. QED
  BY <1>1, <1>2, SpawnType, KeepType DEF StartReturns, ForkTypeOK, Running

LEMMA FailureNoticeType ==
    ASSUME children \in [Pids -> RecType], cached \in [Pids -> ArgsType],
           proc \in [Pids -> {"free", "alive", "zombie"}],
           grp \in [Pids -> {"mgr", "own"}],
           FailureNotice
    PROVE  ForkTypeOK
<1>1. NoticeRec \in RecType
  BY DEF NoticeRec, RecType
<1>2. QED
  BY <1>1, SpawnType, KeepType DEF FailureNotice, ForkTypeOK, PcType

-----------------------------------------------------------------------------
LEMMA InitTypeOK == Init => TypeOK
<1> SUFFICES ASSUME Init PROVE TypeOK
  OBVIOUS
<1>1. NoRec \in RecType /\ NoArgs \in ArgsType
  BY DEF RecType, NoRec, ArgsType, NoArgs
<1>2. children \in [Pids -> RecType] /\ cached \in [Pids -> ArgsType]
  BY <1>1 DEF Init
<1>3. q \in Seq(Cmds) /\ delivered \in 0..MaxCmds
  BY DEF Init
<1>4. QED
  BY <1>2, <1>3 DEF Init, TypeOK, PcType

LEMMA TypeOKStep == TypeOK /\ [Next]_vars => TypeOK'
<1>2. TypeOK /\ [Next]_vars => TypeOK'
  <2> SUFFICES ASSUME TypeOK, [Next]_vars PROVE TypeOK'
    OBVIOUS
  <2>1. CASE EventLoopStart
    BY <2>1 DEF EventLoopStart, TypeOK, PcType
  <2>2. CASE LoopTop
    BY <2>2 DEF LoopTop, TypeOK, PcType
  <2>3. CASE Poll
    <3>1. CASE q = << >>
      BY <2>3, <3>1 DEF Poll, TypeOK, PcType
    <3>2. CASE q # << >>
      <4>1. Head(q) \in CmdType /\ Tail(q) \in Seq(Cmds)
        BY <3>2 DEF TypeOK
      <4> DEFINE m == Head(q)
      <4>2. Handle(m) => ForkTypeOK
        <5>1. m.ids \in SUBSET Ids /\ m.name \in Names \cup {NoName}
          BY <4>1 DEF CmdType
        <5>2. ResolveUser(m) # NoUser => ResolveUser(m) \in Users
          BY DEF ResolveUser, TypeOK
        <5>3. FailureNotice => ForkTypeOK
          BY FailureNoticeType DEF TypeOK
        <5>4. Keep(children, cached, proc, "loop") => ForkTypeOK
          BY KeepType DEF TypeOK, ForkTypeOK, PcType
        <5>5. ASSUME ResolveUser(m) # NoUser,
                     StartEndpoint(children, cached, proc, ResolveUser(m), m.name,
                                   m.ids, FailureNotice, "loop")
              PROVE  ForkTypeOK
          BY <5>1, <5>2, <5>3, <5>5, StartReturnsType DEF StartEndpoint, TypeOK, PcType
        <5>6. QED
          BY <5>3, <5>4, <5>5 DEF Handle
      <4>3. QED
        BY <2>3, <3>2, <4>1, <4>2 DEF Poll, TypeOK, ForkTypeOK
    <3>3. QED
      BY <3>1, <3>2
  <2>4. CASE ReapStep
    <3>1. ASSUME NEW p \in Pids, proc[p] = "zombie",
                 LET ch   == [children EXCEPT ![p] = NoRec]
                     pr   == [proc EXCEPT ![p] = "free"]
                     ca   == [cached EXCEPT ![p] = NoArgs]
                     args == cached[p]
                 IN  IF rc[p] = 0
                     THEN IF ~timeToStop /\ args # NoArgs /\ args.user \in passwd
                          THEN StartEndpoint(ch, ca, pr, args.user, args.name,
                                             args.ids, Keep(ch, ca, pr, "reap"),
                                             "reap")
                          ELSE Keep(ch, ca, pr, "reap")
                     ELSE Keep(ch, cached, pr, "reap")
          PROVE  ForkTypeOK
      <4> DEFINE ch   == [children EXCEPT ![p] = NoRec]
                 pr   == [proc EXCEPT ![p] = "free"]
                 ca   == [cached EXCEPT ![p] = NoArgs]
                 args == cached[p]
      <4>1. /\ ch \in [Pids -> RecType]
            /\ pr \in [Pids -> {"free", "alive", "zombie"}]
            /\ ca \in [Pids -> ArgsType]
        BY DEF TypeOK, NoRec, RecType, NoArgs, ArgsType
      <4>2. Keep(ch, ca, pr, "reap") => ForkTypeOK
        BY <4>1, KeepType DEF TypeOK, ForkTypeOK, PcType
      <4>3. Keep(ch, cached, pr, "reap") => ForkTypeOK
        BY <4>1, KeepType DEF TypeOK, ForkTypeOK, PcType
      <4>4. ASSUME args # NoArgs, args.user \in passwd,
                   StartEndpoint(ch, ca, pr, args.user, args.name, args.ids,
                                 Keep(ch, ca, pr, "reap"), "reap")
            PROVE  ForkTypeOK
        <5>1. args.user \in Users /\ args.name \in Names \cup {NoName}
              /\ args.ids \in SUBSET Ids
          BY <4>4 DEF TypeOK, ArgsType
        <5>2. QED
          BY <4>1, <4>2, <4>4, <5>1, StartReturnsType DEF StartEndpoint, TypeOK, PcType
      <4>5. QED
        BY <3>1, <4>2, <4>3, <4>4
    <3>2. ASSUME \A p \in Pids : proc[p] # "zombie", pc' = ret,
                 UNCHANGED <<children, cached, proc, grp, ret>>
          PROVE  ForkTypeOK
      BY <3>2 DEF TypeOK, ForkTypeOK, PcType
    <3>3. ForkTypeOK
      BY <2>4, <3>1, <3>2 DEF ReapStep
    <3>4. QED
      BY <2>4, <3>3 DEF ReapStep, TypeOK, ForkTypeOK
  <2>5. CASE ShutdownBegin
    BY <2>5 DEF ShutdownBegin, TypeOK, PcType, Registered
  <2>6. CASE SignalChild
    BY <2>6 DEF SignalChild, TypeOK, PcType
  <2>7. CASE WaitPass
    BY <2>7 DEF WaitPass, TypeOK, PcType, Registered
  <2>8. CASE \E m \in Cmds : Deliver(m)
    BY <2>8 DEF Deliver, TypeOK
  <2>9. CASE SubscriberStop \/ Terminate
    BY <2>9 DEF SubscriberStop, Terminate, TypeOK
  <2>10. ASSUME NEW p \in Pids, ChildExit(p) PROVE TypeOK'
    BY <2>10 DEF ChildExit, TypeOK
  <2>14. ASSUME NEW p \in Pids, ChildSetsid(p) PROVE TypeOK'
    BY <2>14 DEF ChildSetsid, TypeOK
  <2>15. ASSUME NEW p \in Pids, Expire(p) PROVE TypeOK'
    BY <2>15 DEF Expire, TypeOK, NoArgs, ArgsType
  <2>11. CASE \E u \in Users : RemoveUser(u)
    BY <2>11 DEF RemoveUser, TypeOK
  <2>12. CASE Terminated \/ UNCHANGED vars
    BY <2>12 DEF Terminated, vars, TypeOK
  <2>13. QED
    BY <2>1, <2>2, <2>3, <2>4, <2>5, <2>6, <2>7, <2>8, <2>9, <2>10, <2>11, <2>12,
       <2>14, <2>15
       DEF Next, Supervisor, Environment
<1>3. QED
  BY <1>2

\* Every reachable state is well typed: the registry, the cache, the process
\* table and the command queue keep their shapes through every handler.
THEOREM TypeCorrect == Spec => []TypeOK
BY InitTypeOK, TypeOKStep, PTL DEF Spec

-----------------------------------------------------------------------------
(* The inductive invariant behind ChildrenAuthorized: cached start         *)
(* arguments carry an identity set that authorises their user (they may    *)
(* name the manager's own user: the same-user check comes after caching),  *)
(* and the parent identities are the constant ParentIds or empty.          *)

CachedAuthorized ==
    \A p \in Pids : cached[p] # NoArgs =>
        IdentityOK(cached[p].user, cached[p].ids)

ParentIdsOK ==
    /\ parentIds \in {{}, ParentIds}
    /\ AnyPriv => parentIds = {}

AuthInv == TypeOK /\ ChildrenAuthorized /\ CachedAuthorized /\ ParentIdsOK

\* The two authorisation conditions, on any registry and cache.
ChAuth(ch) == \A p \in Pids : ch[p].kind = "uep" => Authorized(ch[p].user, ch[p].ids)
CaAuth(ca) == \A p \in Pids : ca[p] # NoArgs => IdentityOK(ca[p].user, ca[p].ids)

\* The user a command resolves to is one its identity set is authorised
\* for: the mapper's answer when the manager may change uid (then it has
\* no parent identities), the manager's own user when the parent identity
\* check passed.
LEMMA ResolveUserOK ==
    ASSUME TypeOK, ParentIdsOK, NEW m \in CmdType, ResolveUser(m) # NoUser
    PROVE  IdentityOK(ResolveUser(m), m.ids)
<1>1. CASE UidPriv
  <2>1. parentIds = {}
    BY <1>1 DEF ParentIdsOK
  <2>2. ResolveUser(m) = IdMap[m.ids]
    BY <1>1, <2>1 DEF ResolveUser
  <2>3. QED
    BY <1>1, <2>2 DEF IdentityOK
<1>2. CASE ~UidPriv
  <2>1. parentIds \cap m.ids # {} /\ ResolveUser(m) = MuUser
    BY <1>2 DEF ResolveUser
  <2>2. parentIds = ParentIds
    BY <2>1 DEF ParentIdsOK
  <2>3. QED
    BY <1>2, <2>1, <2>2 DEF IdentityOK
<1>3. QED
  BY <1>1, <1>2

\* A fork that registers an authorised record keeps both conditions.
LEMMA SpawnAuth ==
    ASSUME NEW ch \in [Pids -> RecType], NEW ca \in [Pids -> ArgsType],
           NEW pr, NEW rec, NEW next,
           ChAuth(ch), CaAuth(ca),
           rec.kind = "uep" => Authorized(rec.user, rec.ids),
           Spawn(ch, ca, pr, rec, next)
    PROVE  ChAuth(children') /\ CaAuth(cached')
BY DEF Spawn, FreeIn, ChAuth, CaAuth

LEMMA KeepAuth ==
    ASSUME NEW ch, NEW ca, NEW pr, NEW next,
           ChAuth(ch), CaAuth(ca), Keep(ch, ca, pr, next)
    PROVE  ChAuth(children') /\ CaAuth(cached')
BY DEF Keep

\* cmd_start_endpoint with an authorised identity set either caches the
\* arguments (before the same-user check) or forks a child that passed it.
LEMMA StartReturnsAuth ==
    ASSUME NEW ch \in [Pids -> RecType], NEW ca \in [Pids -> ArgsType],
           NEW pr, NEW u, NEW n, NEW ids, NEW next,
           ChAuth(ch), CaAuth(ca), IdentityOK(u, ids),
           StartReturns(ch, ca, pr, u, n, ids, next)
    PROVE  ChAuth(children') /\ CaAuth(cached')
<1>1. ASSUME NEW p \in Running(ch, n),
             Keep(ch, [ca EXCEPT ![p] = StartArgs(u, n, ids)], pr, next)
      PROVE  ChAuth(children') /\ CaAuth(cached')
  <2>1. p \in Pids
    BY DEF Running
  <2>2. CaAuth([ca EXCEPT ![p] = StartArgs(u, n, ids)])
    BY <2>1 DEF CaAuth, StartArgs
  <2>3. QED
    BY <1>1, <2>2, KeepAuth
<1>2. ASSUME AllowSameUser \/ u # MuUser,
             Spawn(ch, ca, pr, UepRec(u, n, ids), next)
      PROVE  ChAuth(children') /\ CaAuth(cached')
  <2>1. Authorized(UepRec(u, n, ids).user, UepRec(u, n, ids).ids)
    BY <1>2 DEF UepRec, Authorized
  <2>2. QED
    BY <1>2, <2>1, SpawnAuth
<1>3. QED
  BY <1>1, <1>2 DEF StartReturns

LEMMA FailureNoticeAuth ==
    ASSUME children \in [Pids -> RecType], cached \in [Pids -> ArgsType],
           ChAuth(children), CaAuth(cached), FailureNotice
    PROVE  ChAuth(children') /\ CaAuth(cached')
<1>1. NoticeRec.kind # "uep"
  BY DEF NoticeRec
<1>2. QED
  BY <1>1, SpawnAuth, KeepAuth DEF FailureNotice

LEMMA InitAuth == Init => AuthInv
<1> SUFFICES ASSUME Init PROVE AuthInv
  OBVIOUS
<1>1. ChildrenAuthorized /\ CachedAuthorized
  BY DEF Init, ChildrenAuthorized, CachedAuthorized, NoRec
<1>2. QED
  BY <1>1, InitTypeOK DEF AuthInv, ParentIdsOK, Init

LEMMA AuthStep == AuthInv /\ [Next]_vars => AuthInv'
<1> SUFFICES ASSUME AuthInv, [Next]_vars
             PROVE  ChAuth(children') /\ CaAuth(cached') /\ ParentIdsOK'
  BY TypeOKStep DEF AuthInv, ChildrenAuthorized, CachedAuthorized, ChAuth, CaAuth
<1>0. /\ children \in [Pids -> RecType] /\ cached \in [Pids -> ArgsType]
      /\ ChAuth(children) /\ CaAuth(cached) /\ ParentIdsOK
  BY DEF AuthInv, TypeOK, ChildrenAuthorized, CachedAuthorized, ChAuth, CaAuth
<1>1. CASE EventLoopStart
  BY <1>0, <1>1 DEF EventLoopStart, ParentIdsOK
<1>2. CASE Poll
  <2>1. CASE q = << >>
    BY <1>0, <1>2, <2>1 DEF Poll, ParentIdsOK
  <2>2. CASE q # << >>
    <3> DEFINE m == Head(q)
    <3>1. m \in CmdType
      BY <2>2 DEF AuthInv, TypeOK
    <3>2. Handle(m) => ChAuth(children') /\ CaAuth(cached')
      <4>1. FailureNotice => ChAuth(children') /\ CaAuth(cached')
        BY <1>0, FailureNoticeAuth
      <4>2. Keep(children, cached, proc, "loop") => ChAuth(children') /\ CaAuth(cached')
        BY <1>0, KeepAuth
      <4>3. ASSUME ResolveUser(m) # NoUser,
                   StartEndpoint(children, cached, proc, ResolveUser(m), m.name,
                                 m.ids, FailureNotice, "loop")
            PROVE  ChAuth(children') /\ CaAuth(cached')
        <5>1. IdentityOK(ResolveUser(m), m.ids)
          BY <1>0, <3>1, <4>3, ResolveUserOK DEF AuthInv
        <5>2. QED
          BY <1>0, <4>1, <4>3, <5>1, StartReturnsAuth DEF StartEndpoint
      <4>4. QED
        BY <4>1, <4>2, <4>3 DEF Handle
    <3>3. QED
      BY <1>0, <1>2, <2>2, <3>2 DEF Poll, ParentIdsOK
  <2>3. QED
    BY <2>1, <2>2
<1>3. CASE ReapStep
  <2>1. ASSUME NEW p \in Pids, proc[p] = "zombie",
               LET ch   == [children EXCEPT ![p] = NoRec]
                   pr   == [proc EXCEPT ![p] = "free"]
                   ca   == [cached EXCEPT ![p] = NoArgs]
                   args == cached[p]
               IN  IF rc[p] = 0
                   THEN IF ~timeToStop /\ args # NoArgs /\ args.user \in passwd
                        THEN StartEndpoint(ch, ca, pr, args.user, args.name,
                                           args.ids, Keep(ch, ca, pr, "reap"),
                                           "reap")
                        ELSE Keep(ch, ca, pr, "reap")
                   ELSE Keep(ch, cached, pr, "reap")
        PROVE  ChAuth(children') /\ CaAuth(cached')
    <3> DEFINE ch   == [children EXCEPT ![p] = NoRec]
               pr   == [proc EXCEPT ![p] = "free"]
               ca   == [cached EXCEPT ![p] = NoArgs]
               args == cached[p]
    <3>1. /\ ch \in [Pids -> RecType] /\ ca \in [Pids -> ArgsType]
          /\ ChAuth(ch) /\ CaAuth(ca)
      BY <1>0 DEF ChAuth, CaAuth, NoRec, RecType, NoArgs, ArgsType
    <3>2. Keep(ch, ca, pr, "reap") => ChAuth(children') /\ CaAuth(cached')
      BY <3>1, KeepAuth
    <3>3. Keep(ch, cached, pr, "reap") => ChAuth(children') /\ CaAuth(cached')
      BY <1>0, <3>1, KeepAuth
    <3>4. ASSUME args # NoArgs,
                 StartEndpoint(ch, ca, pr, args.user, args.name, args.ids,
                               Keep(ch, ca, pr, "reap"), "reap")
          PROVE  ChAuth(children') /\ CaAuth(cached')
      <4>1. IdentityOK(args.user, args.ids)
        BY <1>0, <3>4 DEF CaAuth
      <4>2. QED
        BY <3>1, <3>2, <3>4, <4>1, StartReturnsAuth DEF StartEndpoint
    <3>5. QED
      BY <2>1, <3>2, <3>3, <3>4
  <2>2. QED
    BY <1>0, <1>3, <2>1 DEF ReapStep, ParentIdsOK
<1>4. CASE ShutdownBegin \/ SignalChild \/ WaitPass \/ LoopTop
  BY <1>0, <1>4 DEF ShutdownBegin, SignalChild, WaitPass, LoopTop, ParentIdsOK
<1>5. CASE \E p \in Pids : Expire(p)
  BY <1>0, <1>5 DEF Expire, CaAuth, ParentIdsOK
<1>6. CASE \/ \E m \in Cmds : Deliver(m)
           \/ SubscriberStop \/ Terminate
           \/ \E p \in Pids : ChildExit(p) \/ ChildSetsid(p)
           \/ \E u \in Users : RemoveUser(u)
           \/ Terminated \/ UNCHANGED vars
  BY <1>0, <1>6 DEF Deliver, SubscriberStop, Terminate, ChildExit, ChildSetsid,
                    RemoveUser, Terminated, vars, ParentIdsOK
<1>7. QED
  BY <1>1, <1>2, <1>3, <1>4, <1>5, <1>6 DEF Next, Supervisor, Environment

\* Every user endpoint the manager forks or revives runs as a user that the
\* identity set of its start command is authorised for (mapped identity,
\* or the parent identity check), and as the manager's own user only when
\* same-user endpoints are allowed.
THEOREM ChildrenAuthorizedInvariant == Spec => []ChildrenAuthorized
<1>1. AuthInv => ChildrenAuthorized
  BY DEF AuthInv
<1>2. QED
  BY InitAuth, AuthStep, <1>1, PTL DEF Spec

-----------------------------------------------------------------------------
(* UniqueEpName is inductive relative to TypeOK: a user endpoint is forked *)
(* or revived only after the registry scan found no child of that name.    *)

Uniq(ch) ==
    \A p1, p2 \in Pids :
        p1 # p2 /\ ch[p1].kind = "uep" /\ ch[p2].kind = "uep"
        => ch[p1].name # ch[p2].name

LEMMA SpawnUniq ==
    ASSUME NEW ch \in [Pids -> RecType], NEW ca, NEW pr, NEW rec, NEW next,
           Uniq(ch), rec.kind = "uep" => Running(ch, rec.name) = {},
           Spawn(ch, ca, pr, rec, next)
    PROVE  Uniq(children')
BY DEF Spawn, FreeIn, Uniq, Running

LEMMA StartReturnsUniq ==
    ASSUME NEW ch \in [Pids -> RecType], NEW ca, NEW pr, NEW u, NEW n, NEW ids,
           NEW next,
           Uniq(ch), StartReturns(ch, ca, pr, u, n, ids, next)
    PROVE  Uniq(children')
<1>1. ASSUME Spawn(ch, ca, pr, UepRec(u, n, ids), next), Running(ch, n) = {}
      PROVE  Uniq(children')
  BY <1>1, SpawnUniq DEF UepRec
<1>2. QED
  BY <1>1 DEF StartReturns, Keep

LEMMA FailureNoticeUniq ==
    ASSUME children \in [Pids -> RecType], Uniq(children), FailureNotice
    PROVE  Uniq(children')
BY SpawnUniq DEF FailureNotice, NoticeRec, Keep

LEMMA UniqStep == TypeOK /\ UniqueEpName /\ [Next]_vars => UniqueEpName'
<1> SUFFICES ASSUME TypeOK, Uniq(children), [Next]_vars PROVE Uniq(children')
  BY DEF UniqueEpName, Uniq
<1>0. children \in [Pids -> RecType]
  BY DEF TypeOK
<1>1. CASE Poll
  <2>1. CASE q # << >>
    <3> DEFINE m == Head(q)
    <3>1. FailureNotice => Uniq(children')
      BY <1>0, FailureNoticeUniq
    <3>2. Handle(m) => Uniq(children')
      BY <1>0, <3>1, StartReturnsUniq DEF Handle, Keep, StartEndpoint
    <3>3. QED
      BY <1>1, <2>1, <3>2 DEF Poll
  <2>2. QED
    BY <1>1, <2>1 DEF Poll
<1>2. CASE ReapStep
  <2>1. ASSUME NEW p \in Pids, proc[p] = "zombie",
               LET ch   == [children EXCEPT ![p] = NoRec]
                   pr   == [proc EXCEPT ![p] = "free"]
                   ca   == [cached EXCEPT ![p] = NoArgs]
                   args == cached[p]
               IN  IF rc[p] = 0
                   THEN IF ~timeToStop /\ args # NoArgs /\ args.user \in passwd
                        THEN StartEndpoint(ch, ca, pr, args.user, args.name,
                                           args.ids, Keep(ch, ca, pr, "reap"),
                                           "reap")
                        ELSE Keep(ch, ca, pr, "reap")
                   ELSE Keep(ch, cached, pr, "reap")
        PROVE  Uniq(children')
    <3> DEFINE ch   == [children EXCEPT ![p] = NoRec]
               pr   == [proc EXCEPT ![p] = "free"]
               ca   == [cached EXCEPT ![p] = NoArgs]
               args == cached[p]
    <3>1. ch \in [Pids -> RecType] /\ Uniq(ch)
      BY <1>0 DEF Uniq, NoRec, RecType
    <3>2. Keep(ch, ca, pr, "reap") => Uniq(children')
      BY <3>1 DEF Keep
    <3>3. StartEndpoint(ch, ca, pr, args.user, args.name, args.ids,
                        Keep(ch, ca, pr, "reap"), "reap") => Uniq(children')
      BY <3>1, <3>2, StartReturnsUniq DEF StartEndpoint
    <3>4. QED
      BY <2>1, <3>1, <3>2, <3>3 DEF Keep
  <2>2. QED
    BY <1>2, <2>1 DEF ReapStep
<1>3. CASE \/ EventLoopStart \/ LoopTop \/ ShutdownBegin \/ SignalChild \/ WaitPass
           \/ \E m \in Cmds : Deliver(m)
           \/ SubscriberStop \/ Terminate
           \/ \E p \in Pids : ChildExit(p) \/ ChildSetsid(p) \/ Expire(p)
           \/ \E u \in Users : RemoveUser(u)
           \/ Terminated \/ UNCHANGED vars
  BY <1>3 DEF EventLoopStart, LoopTop, ShutdownBegin, SignalChild, WaitPass,
              Deliver, SubscriberStop, Terminate, ChildExit, ChildSetsid,
              Expire, RemoveUser, Terminated, vars
<1>4. QED
  BY <1>1, <1>2, <1>3 DEF Next, Supervisor, Environment

\* However starts, exits, clean-exit revivals and cached duplicate starts
\* interleave, the registry never holds two user endpoints of one name.
THEOREM UniqueEpNameInvariant == Spec => []UniqueEpName
<1>1. Init => UniqueEpName
  BY DEF Init, UniqueEpName, NoRec
<1>2. QED
  BY <1>1, InitTypeOK, TypeOKStep, UniqStep, PTL DEF Spec

=============================================================================

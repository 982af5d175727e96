------------------------ MODULE ManagerStartupProofs ------------------------
(***************************************************************************)
(* Proof that construction never rewrites endpoint.json with another id.  *)
(***************************************************************************)
EXTENDS ManagerStartup, TLAPS

USE StartupAssumption

(***************************************************************************)
(* IdStable is not inductive by itself: the write in ShapeCheck is safe   *)
(* only because the id asked for in this launch was read from the file,   *)
(* and the answer was checked against it.  IdInv records both facts.      *)
(***************************************************************************)
RequestedIsDisk ==
    pc \in {"register", "idcheck", "mapper", "shape"} /\ disk # NoId => reqId = disk
AnswerChecked == pc \in {"mapper", "shape", "ready"} /\ reqId # NoId => regId = reqId
IdInv == TypeOK /\ RequestedIsDisk /\ AnswerChecked

\* The initial state satisfies the invariant.
LEMMA InitIdInv == Init => IdInv
<1> SUFFICES ASSUME Init PROVE IdInv
  OBVIOUS
<1>1. exitCode \in ExitCodes \cup {0}
  BY DEF Init, ExitCodes
<1>2. launches \in 0..MaxLaunches
  BY StartupAssumption DEF Init
<1>3. QED BY <1>1, <1>2 DEF Init, IdInv, TypeOK, RequestedIsDisk, AnswerChecked, OptId

\* An exit leaves the process down and endpoint.json as it was.
LEMMA ExitIdInv ==
    ASSUME IdInv, NEW code \in ExitCodes \cup {0}, Exit(code)
    PROVE  IdInv' /\ disk' = disk
BY DEF IdInv, TypeOK, RequestedIsDisk, AnswerChecked, Exit

\* A launch reads the id from endpoint.json when there is one.
LEMMA LaunchIdInv ==
    ASSUME IdInv, NEW arg \in OptId, NEW u \in BOOLEAN, NEW path \in BOOLEAN,
           Launch(arg, u, path)
    PROVE  IdInv' /\ disk' = disk
<1>1. launches' \in 0..MaxLaunches
  BY StartupAssumption DEF IdInv, TypeOK, Launch
<1>2. reqId' \in OptId /\ pc' = "register"
  BY DEF IdInv, TypeOK, Launch
<1>3. RequestedIsDisk' /\ AnswerChecked'
  BY <1>2 DEF Launch, RequestedIsDisk, AnswerChecked
<1>4. QED BY <1>1, <1>2, <1>3 DEF IdInv, TypeOK, Launch

\* Every step keeps the invariant and leaves a written id in place.
LEMMA IdStep == IdInv /\ [Next]_vars => IdInv' /\ (disk # NoId => disk' = disk)
<1> SUFFICES ASSUME IdInv, [Next]_vars
             PROVE  IdInv' /\ (disk # NoId => disk' = disk)
    OBVIOUS
<1>1. CASE \E arg \in OptId, u, path \in BOOLEAN : Launch(arg, u, path)
  BY <1>1, LaunchIdInv
<1>2. CASE Register
  <2>1. CASE \E code \in {69, 65, 1, 75} : Exit(code)
    <3>1. PICK code \in {69, 65, 1, 75} : Exit(code)
      BY <2>1
    <3>2. code \in ExitCodes \cup {0}
      BY DEF ExitCodes
    <3>3. QED BY <3>1, <3>2, ExitIdInv
  <2>2. CASE \E id \in EpIds, shape \in BOOLEAN :
              /\ regId' = id /\ shapeOK' = shape
              /\ upstream' = upstream \cup {id}
              /\ pc' = "idcheck"
              /\ UNCHANGED <<disk, reqId, uidPriv, mapPath, mapper, exitCode,
                             launches>>
    <3>1. PICK id \in EpIds, shape \in BOOLEAN :
              /\ regId' = id /\ shapeOK' = shape
              /\ upstream' = upstream \cup {id}
              /\ pc' = "idcheck"
              /\ UNCHANGED <<disk, reqId, uidPriv, mapPath, mapper, exitCode,
                             launches>>
      BY <2>2
    <3>2. TypeOK'
      BY <3>1 DEF IdInv, TypeOK, OptId
    <3>3. RequestedIsDisk' /\ AnswerChecked'
      BY <1>2, <3>1 DEF Register, IdInv, RequestedIsDisk, AnswerChecked
    <3>4. QED BY <3>1, <3>2, <3>3 DEF IdInv
  <2>3. QED BY <1>2, <2>1, <2>2 DEF Register
<1>3. CASE IdCheck
  <2>1. CASE reqId # NoId /\ regId # reqId
    <3>1. Exit(70)
      BY <1>3, <2>1 DEF IdCheck
    <3>2. QED BY <3>1, ExitIdInv DEF ExitCodes
  <2>2. CASE ~(reqId # NoId /\ regId # reqId)
    BY <1>3, <2>2 DEF IdCheck, IdInv, TypeOK, RequestedIsDisk, AnswerChecked
  <2>3. QED BY <2>1, <2>2
<1>4. CASE MapperInit
  <2>1. CASE Exit(72) \/ Exit(77) \/ Exit(78)
    <3>1. 72 \in ExitCodes \cup {0} /\ 77 \in ExitCodes \cup {0}
          /\ 78 \in ExitCodes \cup {0}
      BY DEF ExitCodes
    <3>2. QED BY <2>1, <3>1, ExitIdInv
  <2>2. CASE pc' = "shape" /\ UNCHANGED <<disk, upstream, reqId, regId,
                shapeOK, uidPriv, mapPath, exitCode, launches>>
             /\ mapper' \in BOOLEAN
    <3>1. TypeOK'
      BY <2>2 DEF IdInv, TypeOK
    <3>2. RequestedIsDisk' /\ AnswerChecked'
      BY <1>4, <2>2 DEF MapperInit, IdInv, RequestedIsDisk, AnswerChecked
    <3>3. QED BY <2>2, <3>1, <3>2 DEF IdInv
  <2>3. QED BY <1>4, <2>1, <2>2 DEF MapperInit, IdInv, TypeOK
<1>5. CASE ShapeCheck
  <2>1. CASE ~shapeOK
    <3>1. Exit(65)
      BY <1>5, <2>1 DEF ShapeCheck
    <3>2. QED BY <3>1, ExitIdInv DEF ExitCodes
  <2>2. CASE shapeOK
    \* The answer was checked against the id read from endpoint.json.
    <3>1. disk # NoId => regId = disk
      BY <1>5 DEF ShapeCheck, IdInv, RequestedIsDisk, AnswerChecked
    <3>2. QED BY <1>5, <2>2, <3>1
              DEF ShapeCheck, IdInv, TypeOK, RequestedIsDisk, AnswerChecked
  <2>3. QED BY <2>1, <2>2
<1>6. CASE Kill \/ Finish
  <3>1. Exit(137) \/ Exit(0)
    BY <1>6 DEF Kill, Finish
  <3>2. QED BY <3>1, ExitIdInv DEF ExitCodes
<1>7. CASE UNCHANGED vars
  BY <1>7 DEF vars, IdInv, TypeOK, RequestedIsDisk, AnswerChecked
<1>8. QED BY <1>1, <1>2, <1>3, <1>4, <1>5, <1>6, <1>7 DEF Next

\* Theorem: in every behaviour, once endpoint.json holds an endpoint id no
\* later launch of the manager's construction replaces it (IdStable), for
\* any set of ids and any number of launches.
THEOREM IdStableHolds == Spec => IdStable
<1>1. IdInv /\ [Next]_vars => [disk # NoId => disk' = disk]_vars
  BY IdStep
<1>2. QED BY InitIdInv, IdStep, <1>1, PTL DEF Spec, IdStable

\* Every state construction reaches is well typed: the id on disk and in
\* flight are ids or NoId, the exit code is one of __init__'s codes, and the
\* launch count stays within its bound, through kills and relaunches.
THEOREM StartupTypeCorrect == Spec => []TypeOK
<1>1. IdInv /\ [Next]_vars => IdInv'
  BY IdStep
<1>2. IdInv => TypeOK
  BY DEF IdInv
<1>3. QED BY InitIdInv, <1>1, <1>2, PTL DEF Spec
=============================================================================

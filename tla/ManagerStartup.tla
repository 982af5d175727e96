--------------------------- MODULE ManagerStartup ---------------------------
(***************************************************************************)
(* Construction of the multi-user endpoint manager (EndpointManager.      *)
(* __init__): the endpoint id is taken from <conf_dir>/endpoint.json or   *)
(* the caller, the endpoint is registered with the control plane, the     *)
(* answer's id is checked against the requested one, the identity mapper  *)
(* is set up when the process may change uid, the registration payload's  *)
(* shape is checked, and endpoint.json is written.  Every failure ends the *)
(* process with an exit code.  The process may also be killed at any step *)
(* and launched again by the administrator, possibly with another         *)
(* configuration, privilege or endpoint-id argument; endpoint.json is the *)
(* only state that survives.                                               *)
(***************************************************************************)
EXTENDS Naturals

CONSTANTS
    EpIds,        \* endpoint UUIDs
    NoId,         \* "no id": endpoint.json absent, or no id argument
    MaxLaunches   \* bound on the number of process launches

ASSUME StartupAssumption ==
    /\ NoId \notin EpIds
    /\ MaxLaunches \in Nat

VARIABLES
    disk,       \* the id in endpoint.json, or NoId
    upstream,   \* the ids the control plane has registered for this endpoint
    pc,         \* "down", "register", "idcheck", "mapper", "shape", "ready"
    reqId,      \* endpoint_uuid: the id asked for, or NoId
    regId,      \* reg_info["endpoint_id"]: the id the control plane answered
    shapeOK,    \* whether reg_info has the queue-info keys
    uidPriv,    \* is_privileged(user_privs_only=True) of this launch
    mapPath,    \* whether identity_mapping_config_path is set in this launch
    mapper,     \* whether identity_mapper was created
    exitCode,   \* the exit code of the last process that exited, 0 if none
    launches    \* number of launches so far

vars == <<disk, upstream, pc, reqId, regId, shapeOK, uidPriv, mapPath,
          mapper, exitCode, launches>>

OptId == EpIds \cup {NoId}

\* os.EX_UNAVAILABLE, EX_DATAERR, EX_TEMPFAIL, EX_SOFTWARE, EX_OSFILE,
\* EX_NOPERM, EX_CONFIG; 1 for an exception that escapes __init__; 137 for a
\* process killed by a signal.
ExitCodes == {1, 65, 69, 70, 72, 75, 77, 78, 137}

TypeOK ==
    /\ disk \in OptId
    /\ upstream \subseteq EpIds
    /\ pc \in {"down", "register", "idcheck", "mapper", "shape", "ready"}
    /\ reqId \in OptId
    /\ regId \in OptId
    /\ shapeOK \in BOOLEAN /\ uidPriv \in BOOLEAN
    /\ mapPath \in BOOLEAN /\ mapper \in BOOLEAN
    /\ exitCode \in ExitCodes \cup {0}
    /\ launches \in 0..MaxLaunches

\* A fresh conf_dir: no endpoint.json, nothing registered.
Init ==
    /\ disk = NoId /\ upstream = {}
    /\ pc = "down" /\ reqId = NoId /\ regId = NoId
    /\ shapeOK = TRUE /\ uidPriv = FALSE /\ mapPath = FALSE /\ mapper = FALSE
    /\ exitCode = 0 /\ launches = 0

\* sys.exit(code) (or an uncaught exception) during construction.
Exit(code) ==
    /\ pc' = "down" /\ exitCode' = code
    /\ UNCHANGED <<disk, upstream, reqId, regId, shapeOK, uidPriv, mapPath,
                   mapper, launches>>

\* The administrator starts the manager with an endpoint-id argument `arg`,
\* uid-change privilege `u` and a mapping path set or not (`path`).
\* endpoint_uuid = Endpoint.get_endpoint_id(conf_dir) or endpoint_uuid.
Launch(arg, u, path) ==
    /\ pc = "down" /\ launches < MaxLaunches
    /\ launches' = launches + 1
    /\ reqId' = IF disk # NoId THEN disk ELSE arg
    /\ uidPriv' = u /\ mapPath' = path /\ mapper' = FALSE
    /\ pc' = "register"
    /\ UNCHANGED <<disk, upstream, regId, shapeOK, exitCode>>

\* Mutant: the requested id, not the answered one, is recorded.
RegisterRecordsRequested ==
    /\ pc = "register"
    /\ \/ \E id \in EpIds, shape \in BOOLEAN :
              /\ regId' = id /\ shapeOK' = shape
              /\ upstream' = upstream \cup {reqId}
              /\ pc' = "idcheck"
              /\ UNCHANGED <<disk, reqId, uidPriv, mapPath, mapper, exitCode,
                             launches>>
       \/ \E code \in {69, 65, 1, 75} : Exit(code)

\* register_endpoint(endpoint_id=endpoint_uuid, ...): the control plane
\* registers and answers with an id and a payload of some shape, or refuses
\* (409/423/404: EX_UNAVAILABLE; 400/422: EX_DATAERR; other statuses are
\* re-raised), or the network fails (EX_TEMPFAIL).
Register ==
    /\ pc = "register"
    /\ \/ \E id \in EpIds, shape \in BOOLEAN :
              /\ regId' = id /\ shapeOK' = shape
              /\ upstream' = upstream \cup {id}
              /\ pc' = "idcheck"
              /\ UNCHANGED <<disk, reqId, uidPriv, mapPath, mapper, exitCode,
                             launches>>
       \/ \E code \in {69, 65, 1, 75} : Exit(code)

\* Mutant: the answered id is not compared with the requested one.
IdCheckNoMismatch ==
    /\ pc = "idcheck"
    /\ pc' = "mapper"
    /\ UNCHANGED <<disk, upstream, reqId, regId, shapeOK, uidPriv, mapPath,
                   mapper, exitCode, launches>>

\* A requested id that the answer does not match is fatal (EX_SOFTWARE).
IdCheck ==
    /\ pc = "idcheck"
    /\ IF reqId # NoId /\ regId # reqId
         THEN Exit(70)
         ELSE /\ pc' = "mapper"
              /\ UNCHANGED <<disk, upstream, reqId, regId, shapeOK, uidPriv,
                             mapPath, mapper, exitCode, launches>>

\* Identity mapping only with uid-change privilege: no path is EX_OSFILE; the
\* mapper's constructor may raise PermissionError (EX_NOPERM) or anything
\* else (EX_CONFIG).
MapperInit ==
    /\ pc = "mapper"
    /\ \/ /\ ~uidPriv
          /\ pc' = "shape"
          /\ UNCHANGED <<disk, upstream, reqId, regId, shapeOK, uidPriv,
                         mapPath, mapper, exitCode, launches>>
       \/ uidPriv /\ ~mapPath /\ Exit(72)
       \/ /\ uidPriv /\ mapPath
          /\ \/ /\ mapper' = TRUE /\ pc' = "shape"
                /\ UNCHANGED <<disk, upstream, reqId, regId, shapeOK, uidPriv,
                               mapPath, exitCode, launches>>
             \/ Exit(77)
             \/ Exit(78)

\* A payload without the queue-info keys is EX_DATAERR; otherwise the
\* answered id is written to endpoint.json and the subscriber and publisher
\* are built.
ShapeCheck ==
    /\ pc = "shape"
    /\ IF ~shapeOK
         THEN Exit(65)
         ELSE /\ disk' = regId /\ pc' = "ready"
              /\ UNCHANGED <<upstream, reqId, regId, shapeOK, uidPriv, mapPath,
                             mapper, exitCode, launches>>

\* The process is killed by a signal at any point.
Kill ==
    /\ pc # "down"
    /\ Exit(137)

\* A constructed manager runs start() and returns.
Finish ==
    /\ pc = "ready"
    /\ Exit(0)

Next ==
    \/ \E arg \in OptId, u, path \in BOOLEAN : Launch(arg, u, path)
    \/ Register \/ IdCheck \/ MapperInit \/ ShapeCheck \/ Kill \/ Finish

Spec == Init /\ [][Next]_vars

-----------------------------------------------------------------------------
(***************************************************************************)
(* Properties.                                                             *)
(***************************************************************************)

\* Once endpoint.json names an endpoint, no later launch rewrites it with
\* another id, whatever endpoint-id argument it is given and whatever the
\* control plane answers: construction reads the file before the argument
\* and exits with EX_SOFTWARE on a mismatched answer (spec: "If an endpoint
\* UUID was pre-existing on disk and the server returns a different one,
\* exit software").
IdStable == [][disk # NoId => disk' = disk]_vars

=============================================================================

-------------------------- MODULE EndpointRegistry --------------------------
(***************************************************************************)
(* What the multi-user endpoint manager promises about the user endpoints *)
(* it runs, with pids, zombies, failure-notice helpers, the command queue *)
(* and the start-argument cache hidden: a set of running endpoints, at    *)
(* most one per name, each running as a user its requester is authorised  *)
(* for; endpoints are started only while the manager serves, and the      *)
(* manager finishes only when none is left.                                *)
(***************************************************************************)
CONSTANTS
    Names,    \* endpoint names
    Users,    \* local users
    Ids,      \* Globus identities
    Allowed   \* the <<user, identity set>> pairs a start may run as

\* A running user endpoint: its name, its user, and the identity set of the
\* command that asked for it.
Ep == [name: Names, user: Users, ids: SUBSET Ids]

VARIABLES
    up,       \* the running user endpoints
    phase     \* "serving", "draining" (shutting down) or "done"

vars == <<up, phase>>

NamesOf(S) == {e.name : e \in S}

Init == up = {} /\ phase = "serving"

\* A start command (or a revival) launches an endpoint whose name is free.
Start(e) ==
    /\ phase = "serving"
    /\ e.name \notin NamesOf(up)
    /\ <<e.user, e.ids>> \in Allowed
    /\ up' = up \cup {e}
    /\ UNCHANGED phase

\* An endpoint ends (it exited and was reaped).
Exit(e) ==
    /\ e \in up
    /\ up' = up \ {e}
    /\ UNCHANGED phase

\* An endpoint ends and another is launched from cached arguments in the
\* same step.
Revive(e, f) ==
    /\ phase = "serving"
    /\ e \in up
    /\ f.name \notin NamesOf(up \ {e})
    /\ <<f.user, f.ids>> \in Allowed
    /\ up' = (up \ {e}) \cup {f}
    /\ UNCHANGED phase

\* The manager stops serving commands.
Drain ==
    /\ phase = "serving"
    /\ phase' = "draining"
    /\ UNCHANGED up

\* Shutdown completes with no endpoint left.
Finish ==
    /\ phase = "draining" /\ up = {}
    /\ phase' = "done"
    /\ UNCHANGED up

Next ==
    \/ \E e \in Ep : Start(e) \/ Exit(e)
    \/ \E e, f \in Ep : Revive(e, f)
    \/ Drain \/ Finish

Spec == Init /\ [][Next]_vars

-----------------------------------------------------------------------------
(* What the registry guarantees.                                           *)

\* The running endpoints: one per name, each with an allowed user and
\* identity set, and none once the manager has finished.
RegistrySafe ==
    /\ up \subseteq Ep /\ phase \in {"serving", "draining", "done"}
    /\ \A e, f \in up : e.name = f.name => e = f
    /\ \A e \in up : <<e.user, e.ids>> \in Allowed
    /\ phase = "done" => up = {}

\* Once the manager stops serving it never serves again, and no endpoint is
\* started or revived: the set of running endpoints only shrinks.
StopIsFinal ==
    [][phase # "serving" => phase' # "serving" /\ up' \subseteq up]_vars

=============================================================================

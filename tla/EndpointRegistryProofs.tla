----------------------- MODULE EndpointRegistryProofs -----------------------
(***************************************************************************)
(* Proofs of what the abstract registry guarantees, for every set of      *)
(* names, users, identities and allowed pairs.  RegistrySafe is inductive *)
(* as it stands: a start or a revival checks the name and the pair, an    *)
(* exit only removes, and finishing requires the registry to be empty.    *)
(***************************************************************************)
EXTENDS EndpointRegistry, TLAPS

LEMMA SafeInit == Init => RegistrySafe
BY DEF Init, RegistrySafe

LEMMA SafeStep == RegistrySafe /\ [Next]_vars => RegistrySafe'
<1> SUFFICES ASSUME RegistrySafe, [Next]_vars PROVE RegistrySafe'
  OBVIOUS
<1>1. ASSUME NEW e \in Ep, Start(e) PROVE RegistrySafe'
  <2>1. \A f \in up : f.name # e.name
    BY <1>1 DEF Start, NamesOf
  <2>2. QED
    BY <1>1, <2>1 DEF Start, RegistrySafe
<1>2. ASSUME NEW e \in Ep, Exit(e) PROVE RegistrySafe'
  BY <1>2 DEF Exit, RegistrySafe
<1>3. ASSUME NEW e \in Ep, NEW f \in Ep, Revive(e, f) PROVE RegistrySafe'
  <2>1. \A g \in up \ {e} : g.name # f.name
    BY <1>3 DEF Revive, NamesOf
  <2>2. QED
    BY <1>3, <2>1 DEF Revive, RegistrySafe
<1>4. CASE Drain
  BY <1>4 DEF Drain, RegistrySafe
<1>5. CASE Finish
  BY <1>5 DEF Finish, RegistrySafe
<1>6. CASE UNCHANGED vars
  BY <1>6 DEF vars, RegistrySafe
<1>7. QED
  BY <1>1, <1>2, <1>3, <1>4, <1>5, <1>6 DEF Next

\* At most one running endpoint per name, each running as an allowed user
\* for the identity set that asked for it, and none after the manager has
\* finished: whatever order starts, exits, revivals and the shutdown come in.
THEOREM RegistrySafeInvariant == Spec => []RegistrySafe
BY SafeInit, SafeStep, PTL DEF Spec

\* Once serving stops, no step starts or revives an endpoint and serving
\* never resumes.
THEOREM StopIsFinalHolds == Spec => StopIsFinal
<1>1. RegistrySafe /\ [Next]_vars
        => [phase # "serving" => phase' # "serving" /\ up' \subseteq up]_vars
  BY DEF RegistrySafe, Next, Start, Exit, Revive, Drain, Finish, vars
<1>2. QED
  BY <1>1, RegistrySafeInvariant, PTL DEF Spec, StopIsFinal
=============================================================================

------------------------ MODULE MC_EndpointManager ------------------------
(* Small instances of EndpointManager for TLC.                             *)
EXTENDS EndpointManager, TLC

CONSTANTS p1, p2, p3, mu, alice, e1, e2, i1, i2

MCPids == {p1, p2, p3}
MCUsers == {mu, alice}
MCNames == {e1, e2}
MCIds == {i1, i2}

\* The policy file: i1 is alice's identity, i2 maps to the manager's user.
MCIdMap == [s \in SUBSET MCIds |->
               IF i1 \in s THEN alice ELSE IF i2 \in s THEN mu ELSE NoUser]

Cmd(json, fresh, hasIdent, ids, method, name) ==
    [json |-> json, fresh |-> fresh, hasIdent |-> hasIdent, ids |-> ids,
     method |-> method, name |-> name]

\* Well-formed starts of both names by both identities, and one command of
\* each way of being refused.
MCCmds ==
    { Cmd(TRUE, TRUE, TRUE, {i1}, "start", e1),
      Cmd(TRUE, TRUE, TRUE, {i2}, "start", e1),
      Cmd(TRUE, TRUE, TRUE, {i1}, "start", e2),
      Cmd(TRUE, FALSE, TRUE, {i1}, "start", e2),
      Cmd(FALSE, TRUE, TRUE, {i1}, "start", e1),
      Cmd(TRUE, TRUE, TRUE, {i1}, "unknown", e1) }

MCSymmetry == Permutations(MCPids)
=============================================================================

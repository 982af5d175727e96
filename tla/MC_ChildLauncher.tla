------------------------- MODULE MC_ChildLauncher -------------------------
(* Three forked children: one whose target shares the manager's primary  *)
(* gid but not its uid, one that differs in both, and one that keeps the  *)
(* manager's credentials; payloads on both sides of the size check and of *)
(* the buffer size.                                                        *)
EXTENDS ChildLauncher, TLC

CONSTANTS k1, k2, k3

MCKids == {k1, k2, k3}
MCSameUid == (k1 :> FALSE) @@ (k2 :> FALSE) @@ (k3 :> TRUE)
MCSameGid == (k1 :> TRUE) @@ (k2 :> FALSE) @@ (k3 :> TRUE)
MCUidChange == [k \in MCKids |-> ~(MCSameUid[k] /\ MCSameGid[k])]

\* A Linux default pipe buffer; payloads at the check's limit, just above
\* it but still fitting the buffer, and larger than the buffer.
MCPipeSize == 65536
MCPayloads == {65280, 65281, 65537}
=============================================================================

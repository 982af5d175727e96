\* A manager with a capability (e.g. CAP_NET_BIND_SERVICE) but not the uid
\* ones: is_privileged() is true, is_privileged(user_privs_only=True) false.
CONSTANTS
    p1 = p1  p2 = p2  p3 = p3  mu = mu  alice = alice
    e1 = e1  e2 = e2  i1 = i1  i2 = i2
    NoUser = NoUser  NoName = NoName
    Pids <- MCPids
    Users <- MCUsers
    LocalUsers <- MCUsers
    MuUser = mu
    Names <- MCNames
    Ids <- MCIds
    IdMap <- MCIdMap
    ParentIds = {i1}
    Cmds <- MCCmds
    UidPriv = FALSE
    AnyPriv = TRUE
    ForceSameUser = FALSE
    MaxCmds = 3
SYMMETRY MCSymmetry
SPECIFICATION Spec
INVARIANT OwnIdentityAccepted

\* A manager that may setuid but not setgid starting a user who shares its
\* primary gid: initgroups fails and is ignored, setresgid is allowed.
CONSTANTS
    k1 = k1  k2 = k2  k3 = k3
    Kids <- MCKids
    UidChange <- MCUidChange
    SameUid <- MCSameUid
    SameGid <- MCSameGid
    PipeSize <- MCPipeSize
    Payloads <- MCPayloads
SPECIFICATION Spec
INVARIANT
    ExecGroupsDropped

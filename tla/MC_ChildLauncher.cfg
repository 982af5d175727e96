\* Both paths of the privilege-drop pipeline, every combination of the
\* manager's setgid/setuid privileges, every step failing.
CONSTANTS
    k1 = k1  k2 = k2  k3 = k3
    Kids <- MCKids
    UidChange <- MCUidChange
    SameUid <- MCSameUid
    SameGid <- MCSameGid
    PipeSize <- MCPipeSize
    Payloads <- MCPayloads
SPECIFICATION Spec
INVARIANTS
    TypeOK
    ExecPrivilegesDropped
    NoStdinDeadlock
    FailureCodeIsBreadcrumb

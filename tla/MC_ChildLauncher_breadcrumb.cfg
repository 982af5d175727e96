\* Two children on different paths of the pipeline that exit with the
\* same breadcrumb code after failing at different steps.
CONSTANTS
    k1 = k1  k2 = k2  k3 = k3
    Kids <- MCKids
    UidChange <- MCUidChange
    SameUid <- MCSameUid
    SameGid <- MCSameGid
    PipeSize <- MCPipeSize
    Payloads <- MCPayloads
SPECIFICATION Spec
INVARIANT
    BreadcrumbIdentifiesStep

\* Four launches: enough for a launch that registers and then fails a local
\* check, a relaunch that persists an id, and two relaunches with the other
\* id as argument.  The process really stops once it has exited and is not
\* relaunched, so deadlock is not checked.
CONSTANTS
    e1 = e1
    e2 = e2
    none = none
    EpIds <- MCEpIds
    NoId = none
    MaxLaunches = 4
SPECIFICATION Spec
INVARIANT TypeOK
PROPERTY IdStable
CHECK_DEADLOCK FALSE

SPECIFICATION FairSpec
CONSTANTS
    Sessions = {s1}
    Keys = {}
    Jobs = {j1}
    Calls = {c1, c2}
    NoKey = NoKey
    NoJob = NoJob
    NoSession = NoSession
    Deadlines = {"none", "ahead"}
    MaxRestarts = 1
    SaveMayFail = TRUE
INVARIANTS
    DoneHasEvidence
PROPERTIES
    SettledIsFinal
    ShutdownFailsNoJob
    WaitersReturn
    GoroutinesEnd
    DeadlineEnforced
\* Jobs are bounded, so that a behaviour may run out of things to do.
CHECK_DEADLOCK FALSE

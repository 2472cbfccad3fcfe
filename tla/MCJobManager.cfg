SPECIFICATION Spec
CONSTANTS
    Sessions = {s1}
    Keys = {k1}
    Jobs = {j1, j2}
    Calls = {c1}
    NoKey = NoKey
    NoJob = NoJob
    NoSession = NoSession
    Deadlines = {"ahead"}
    MaxRestarts = 1
    SaveMayFail = FALSE
SYMMETRY Symmetry
VIEW WithoutHistory
INVARIANTS
    SettledOnDiskIsSettled
    IndexMatchesCurrent
    ActiveIsTracked
    NoLostWakeup
PROPERTIES
    ImplementsLifecycle
\* Jobs are bounded, so that a behaviour may run out of things to do.
CHECK_DEADLOCK FALSE

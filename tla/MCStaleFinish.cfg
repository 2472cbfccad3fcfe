SPECIFICATION Spec
CONSTANTS
    Sessions = {s1}
    Keys = {k1}
    Jobs = {j1, j2}
    Calls = {c1}
    NoKey = NoKey
    NoJob = NoJob
    NoSession = NoSession
    Deadlines = {"none"}
    MaxRestarts = 0
    SaveMayFail = FALSE
SYMMETRY Symmetry
PROPERTIES
    ReconciledMeansFinished
\* Jobs are bounded, so that a behaviour may run out of things to do.
CHECK_DEADLOCK FALSE

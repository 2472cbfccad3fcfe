SPECIFICATION Spec
CONSTANTS
    Callers = {c1, c2}
    Sessions = {s1}
    Jobs = {j1}
    First = j1
    Second = j1
    Requests = {r1}
    NoSession = NoSession
    NoJob = NoJob
    NoRequest = NoRequest
    Tools = {"execute", "fire", "cleanup"}
PROPERTIES
    CleanupSparesActive
\* Every submission of the bound may be settled and no call in progress.
CHECK_DEADLOCK FALSE

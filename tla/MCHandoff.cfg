SPECIFICATION FairSpec
CONSTANTS
    Callers = {c1}
    Sessions = {s1}
    Jobs = {j1, j2}
    First = j1
    Second = j2
    Requests = {r1}
    NoSession = NoSession
    NoJob = NoJob
    NoRequest = NoRequest
    Tools = {"execute", "fire", "check", "verify", "cleanup", "reply"}
CONSTRAINT InOrder
INVARIANTS
    WaitMeansSettled
PROPERTIES
    WorkspaceNotBypassed
    CallsReturn
\* Every submission of the bound may be settled and no call in progress.
CHECK_DEADLOCK FALSE

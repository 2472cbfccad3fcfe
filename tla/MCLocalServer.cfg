SPECIFICATION FairSpec
CONSTANTS
    Execs = {e1, e2}
    Ports = {p1}
    NoPort = NoPort
    MaxPrompts = 1
    Crashes = TRUE
INVARIANTS
    ExitStillToCome
    NoServerLeftBehind
PROPERTIES
    StopReturns
\* Executors end, and are not started again.
CHECK_DEADLOCK FALSE

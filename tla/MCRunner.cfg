SPECIFICATION FairSpec
CONSTANTS
    Runners = {r1, r2}
    Dirs = {d1}
    Nobody = Nobody
    MaxEvents = 2
    Lines = {"text", "error", "junk", "long"}
    MayDie = TRUE
CONSTRAINT OneOrQuiet
INVARIANTS
    StatusIsCause
    ResultMeansChildEnded
    OneChildPerDirectory
PROPERTIES
    RunEnds
\* Runners end, and are not started again.
CHECK_DEADLOCK FALSE

SPECIFICATION Spec
CONSTANTS
    Sessions = {s1}
    Slots = {w1}
    Paths = {}
    Calls = {c1, c2}
    Source = Source
    Nobody = Nobody
    MaxHistory = 2
    MaxResults = 3
    MaxCrashes = 1
    Faults = {"add", "remove", "save", "vanish"}
SYMMETRY Symmetry
INVARIANTS
    CleanedMeansGone
    NothingStray
    WorkInWorktreesKept
    HistoryComplete
PROPERTY
    ImplementsWorkspaceLifecycle
\* Sessions and places are bounded, so that a behaviour may run out of things to do.
CHECK_DEADLOCK FALSE

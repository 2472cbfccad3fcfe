SPECIFICATION FairSpec
CONSTANTS
    Sessions = {s1}
    Slots = {}
    Paths = {p1}
    Calls = {c1, c2}
    Source = Source
    Nobody = Nobody
    MaxHistory = 1
    MaxResults = 0
    MaxCrashes = 1
    Faults = {"remove", "vanish"}
PROPERTIES
    CleanedStays
    GreenfieldCleanedInTheEnd
\* Sessions and places are bounded, so that a behaviour may run out of things to do.
CHECK_DEADLOCK FALSE

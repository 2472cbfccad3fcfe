SPECIFICATION Spec
CONSTANTS
    PartKinds <- MCPartKinds
    Finishes = {"tool-calls", "stop"}
    Shapes = {"WithParts", "flat"}
    Verbose = {FALSE, TRUE}
    Recent = 2
    Limits = {1}
    Spelling <- MCSpelling
    MaxMessages = 3
    MaxParts = 3
INVARIANTS
    FinalTextIsTheAnswer
    MarkedWhenShortened
    DoneShownWhenFinished
    RecentMessagesShown
\* Messages and parts are bounded.
CHECK_DEADLOCK FALSE

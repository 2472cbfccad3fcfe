SPECIFICATION ClientSpec
CONSTANTS
    Identifiers <- MCIdentifiers
    Defaults = {"", "default"}
    Inputs <- MCInputs
    Documents <- MCDocuments
INVARIANTS
    DescribedAnswerTaken
    MessagesUnchanged
    BodyFollowsDescription
    RequestsShownOnce
    ShownQuestionCanBeAnswered
\* A call ends.
CHECK_DEADLOCK FALSE

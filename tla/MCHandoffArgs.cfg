SPECIFICATION Spec
CONSTANT Values <- MCValues
INVARIANTS
    NothingLeftOnBadInput
    NoUnwantedPermission
    SelectorsReadBack
\* A call ends.
CHECK_DEADLOCK FALSE

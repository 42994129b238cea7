SPECIFICATION Spec
CONSTANTS
    Names = {1, 2}
    Namespaces = {1, 2, 3}
    TokenNames = {2}
    Fields <- MCFields
    Policy = {}
    AllowFinalizers = {}
    Snapshot <- MCSnapshot
INVARIANTS
    NoOverwriting
    NothingForgotten
    StrippedAndMoved
    NamespacesFirst
CHECK_DEADLOCK FALSE

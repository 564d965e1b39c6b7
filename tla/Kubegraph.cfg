SPECIFICATION LiveSpec
CONSTANTS
    x = x
    p1 = p1
    p2 = p2
    None = None
    Function <- AllFunctions
    Final <- FinalFunctions
    Provided <- ProvidedBy
    Requirements <- RequiredBy
    Sink <- AllColumns
    Columns <- NodeColumns
    Connector <- Connectors
    Type <- Types
    Born = {"http"}
    Problem <- Problems
    Limit = 2
INVARIANTS Safe PlansAndFramesHold
PROPERTY GraphsFollow
CHECK_DEADLOCK FALSE

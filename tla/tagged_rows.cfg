SPECIFICATION Spec
CONSTANTS
    NTables = 2
    Columns <- MCColumns
    Prefix <- MCPrefix
    Tuple <- MCTuple
    Limits <- MCLimits
    Sources = {0, 5, 6}
    MaxOrdinal = 7
    MaxRows = 4
    MaxCalls = 2
INVARIANTS
    OkMeansAll
    StoredInOrder
PROPERTY StatementsFit
CHECK_DEADLOCK FALSE

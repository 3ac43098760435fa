SPECIFICATION Spec
CONSTANTS
    Undefined = Undefined
    Cases <- MCCases
    Types <- MCTypes
    Values = {"1", "2"}
INVARIANTS
    AccessorsTell
    GeneratorsAgree
CHECK_DEADLOCK FALSE

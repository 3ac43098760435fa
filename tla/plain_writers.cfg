SPECIFICATION Spec
CONSTANTS
    SnakeOf <- MCSnakeOf
    Cases <- MCCases
    Backends <- MCBackends
    Strategies <- MCStrategies
    Values = {1, 2}
    MaxRows = 2
    MaxId = 3
INVARIANTS Stored TablesStand
PROPERTIES KeysStand RetrySettles
CHECK_DEADLOCK FALSE

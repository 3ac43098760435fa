SPECIFICATION Spec
CONSTANTS
    Programs = {1, 2, 3, 4}
    Interned = {1, 2}
    Invalid = {4}
    BodyOf <- MCBodyOf
    Loaded <- MCLoaded
    Routes <- MCRoutes
    MaxSteps = 5
INVARIANTS Current OneWriter
PROPERTIES UserCodeStays
CHECK_DEADLOCK FALSE

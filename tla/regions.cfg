SPECIFICATION FileSpec
CONSTANTS
    imports = imports
    structs = structs
    routes = routes
    first = first
    second = second
    Ids <- MCIds
    Void <- MCVoid
    Texts = {t1, t2}
    Scaffold = scaffold
    Versions = {first, second}
    Careless = {"ts"}
    MaxEdits = 2
    MaxEmits = 3
    Missing = missing
PROPERTIES ManualPreserved ZonesCurrent EmitSettles
SYMMETRY Symmetry
CHECK_DEADLOCK FALSE

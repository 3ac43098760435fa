SPECIFICATION Spec
CONSTANTS
    Link = Link
    Tag = Tag
    caller = caller
    alias = alias
    tag = tag
    Writers = {w1, w2}
    Words = {a, b}
    Null = null
    Nobody = nobody
    MaxCalls = 3
    Entities <- MCEntities
    Fields <- MCFields
    Key <- MCKey
    Optional <- MCOptional
SYMMETRY Symmetry
INVARIANTS
    ClaimsStand
    NothingLeftBehind
PROPERTY ImplementsTextTable

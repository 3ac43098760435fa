SPECIFICATION FairSpec
CONSTANTS
    p = p
    q = q
    c = c
    d = d
    e = e
    Documents <- MCDocuments
    Programs <- MCPrograms
    SplitOf <- MCSplitOf
    SnakeOf <- MCSnakeOf
    MaxVersion = 3
    MaxFailures = 2
INVARIANTS
    FunctionsFit
    EtagMeansRows
PROPERTY Converges

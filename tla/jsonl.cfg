SPECIFICATION FairSpec
CONSTANTS
    MaxItems = 5
    Sizes <- MCSizes
    BatchSize = 2
    Capacity = 2
    Window = 2
    MaxDiags = 2
INVARIANTS
    StdoutInOrder
    ExitCodeTellsTruth
PROPERTY ResponseEnds

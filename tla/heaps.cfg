SPECIFICATION Spec
CONSTANTS
    Keywords <- MCKeywords
    Digits <- MCDigits
    Wide = 3
    FloatMax = 8
    Programs <- MCPrograms
    Heaps = {h1, h2}
    Inputs <- MCInputs
    Documents <- MCDocuments
    MaxCalls = 4
SYMMETRY HeapSymmetry
INVARIANTS OwnMemory CopyWhole RoundTrip ReadsTrue NamesApart
CHECK_DEADLOCK FALSE

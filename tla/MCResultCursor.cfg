\* Two statements, results of up to four rows cut into batches in every way.
CONSTANTS
    MaxQuery = 2
    MaxRows = 4
    MaxBlank = 1
    Sizes = {0, 1, 2, 3}
SPECIFICATION FairSpec
INVARIANTS
    TypeOK
    NothingDropped
    OnlyThisResult
PROPERTIES
    Implements
    CallsReturn

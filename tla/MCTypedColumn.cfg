\* Three rows: a batch of one and a batch of several, with and without a null.
\* Sums that a scale of 0 or of 2 rounds up, rounds down or leaves alone.
CONSTANTS
    Null = Null
    None = None
    Missing = Missing
    UTC = "UTC"
    Offset <- MCOffset
    Declared <- MCDeclared
    Foreign <- MCForeign
    Value = {1, 23}
    Amount = {1000, 1240}
    Term = {0, 6, 600}
    MaxRows = 3
SPECIFICATION Spec
INVARIANTS
    TypeOK
    ReadAsWritten
    MixedNumbersAccepted
    CopyHoldsColumn

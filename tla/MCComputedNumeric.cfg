\* A NUMERIC without a fraction, whose sum the server computes in an integer.
CONSTANTS
    Null = Null
    None = None
    Missing = Missing
    UTC = "UTC"
    Offset <- MCOffset
    Declared <- MCDeclared
    Foreign <- MCForeign
    Value = {1}
    Amount = {1000}
    Term = {0}
    MaxRows = 1
SPECIFICATION Spec
INVARIANT NumericYieldsDecimal

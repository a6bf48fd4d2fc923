\* Two threads execute one compiled statement that has two expansions.
CONSTANTS
    Thread = {t1, t2}
    Compiled = {c1}
    Statement = {x1, x2}
    Column = {"price", "id"}
    Kind = {"int", "mills", "wide", "mixed"}
    Type = {"dec2", "dec3", "int64", "huge"}
    Holds <- MCHolds
    Inferred <- MCInferred
    Wide = {"wide"}
    Huge = "huge"
    Exact <- MCExact
    MayNotTell = TRUE
    NoType = NoType
    None = None
    Raises = Raises
SYMMETRY Symmetry
SPECIFICATION Spec
INVARIANTS
    TypeOK
    BatchHoldsValues
PROPERTIES
    RememberedJustly

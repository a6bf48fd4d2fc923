\* A declared sequence that a column draws from.
CONSTANTS
    Schema = {app, other}
    SequenceName = {a, b}
    TableColumn = {c1, c2, c3}
    Absent = Absent
SYMMETRY Symmetry
SPECIFICATION SequenceSpec
INVARIANT DeclaredListed

\* SequenceName is apart from a and b: the columns of keys are not symmetric.
CONSTANTS
    a = a
    b = b
    None = None
    Table <- MCTable
    Current = "app"
    Name = {"n1", "n2", "n3"}
    Column = {a, b}
    Columns <- MCColumns
    MaxDefined = 3
    Schema = {app, other}
    SequenceName = {q1, q2}
    TableColumn = {c1, c2, c3}
    Absent = Absent
SYMMETRY Symmetry
SPECIFICATION MCSpec
INVARIANTS
    ReflectedAsDefined
    ReferencesResolve
    EmittedDDLAccepted
    SequenceTypeOK
    ReflectedAsDeclared

\* Three tables, three foreign keys declared in every way and
\* edited among three pairs of actions.
SPECIFICATION Spec
CONSTANTS
    Table = {t, u, v}
    ForeignKey = {f, g, h}
    None = None
    Shape <- AllShapes
    Choice <- ThreeChoices
SYMMETRY Symmetry
INVARIANT TypeOK
INVARIANT RefusedOnlyOnCycle
INVARIANT UnchangedNotReported
INVARIANT ChangeReported
PROPERTY CreatedAsDeclared

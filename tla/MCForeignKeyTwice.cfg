SPECIFICATION Spec
CONSTANTS
    Table = {t, u}
    ForeignKey = {f, g, h}
    None = None
    Shape <- AllShapes
    Choice <- OneChoice
INVARIANT AddedOnce

\* One named schema beside the default one, two loads.
SPECIFICATION Spec
CONSTANTS
    Schema = {other}
    Default = default
    Tmp = tmp
    None = None
    Translation <- MCTranslation
    MaxLoads = 2
INVARIANT TypeOK
INVARIANT TransactionOwned
PROPERTY ConstraintsKept
PROPERTY LoadedWhereCreated

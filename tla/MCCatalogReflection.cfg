\* Two names, so that a request can name one table and mean another.
CONSTANTS
    Name = {n1, n2}
    Arg = {"default", "sys"}
    Choice <- MCChoice
    NoFilter = NoFilter
    MaxCalls = 2
    MaxDDL = 1
    MaxTables = 2
    NewKinds = {"table", "view", "local"}
SYMMETRY Symmetry
SPECIFICATION Spec
INVARIANTS
    TypeOK
    LookupsAgree
    AnsweredInFull

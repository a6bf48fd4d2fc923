----------------------------- MODULE TypedColumn -----------------------------
(***************************************************************************)
(* One column, from its declared type to the values read from it: created  *)
(* with the type rendered for it (or made by another client), altered by a *)
(* migration, reflected, created again from its reflection, written by an  *)
(* executemany() through the type's bind processor, and read, batch by     *)
(* batch, through _convert.py and the type's result processor.             *)
(*                                                                         *)
(* The processors are those of types.py.  A result may be an expression    *)
(* over a NUMERIC, the column plus a number, which the server computes in  *)
(* another type.  Numbers are counted in thousandths.                      *)
(***************************************************************************)
EXTENDS ColumnTypes, ColumnConversion

CONSTANTS Declared,   \* the types that metadata declares
          Foreign,    \* rows of sys.columns that other clients may have made
          Value,      \* hours of a day; tokens for anything else
          Amount,     \* numbers
          Term,       \* numbers that a query adds to a NUMERIC
          MaxRows     \* bound: rows of the column

ASSUME ColumnAssumption ==
    /\ Value \subseteq 0 .. 23 /\ Amount \subseteq Int /\ Term \subseteq Int /\ 0 \in Term
    /\ MaxRows \in Nat /\ Missing \notin Nat
    /\ Declared \subseteq [name : STRING, size : Nat \cup {Missing},
                           scale : Nat \cup {Missing}, timezone : BOOLEAN]
    /\ Foreign \subseteq [type : STRING, digits : Nat, scale : Nat]

\* SQLAlchemy's TIME has no precision of its own, and the server counts none past
\* microseconds.  Digits are 0 where they say nothing of the type.
ASSUME DigitsAssumption ==
    /\ \A t \in Declared : t.name = "TIME" => t.size \in {Missing, 6}
    /\ \A row \in Foreign :
          /\ row.type \in {"time", "timetz", "timestamp", "timestamptz"} => row.digits <= 7
          /\ row.type \in {ServerName[name] : name \in DOMAIN ServerName} => row.digits = 0

VARIABLES column,     \* its row in sys.columns, or None
          declared,   \* it was created for a declared type
          type,       \* the type that statements use for it
          asdecimal,  \* ... and its asdecimal, which a NUMERIC has by default
          copy,       \* sys.columns of the table created from its reflection
          given,      \* what the application means by the values it wrote
          rows,       \* the values the server has
          refused,    \* PyArrow could not build the last array of parameters
          arrow,      \* type of the running result, or None
          term,       \* what its query adds to the column
          read        \* Python objects read from it

vars == <<column, declared, type, asdecimal, copy, given, rows, refused, arrow, term, read>>

IsNumeric(t) == t.name \in {"NUMERIC", "DECIMAL"}
IsFloat(t) == t.name \in {"FLOAT", "REAL", "DOUBLE", "DOUBLE_PRECISION"}
IsZoned(t) == t.name \in {"TIME", "TIMESTAMP", "DATETIME"} /\ t.timezone

\* The last digit of a scale, in thousandths.  Without a scale a NUMERIC has 3
\* digits on the server and returns 10, and thousandths are all there is here.
Unit(scale) ==
    CASE scale = 0 -> 1000
      [] scale = 1 -> 100
      [] scale = 2 -> 10
      [] OTHER -> 1

Numbers(amounts) ==
    {Object(class, v, None) : class \in {"int", "float", "Decimal"}, v \in amounts}

\* What the application writes: a number to a NUMERIC or FLOAT, of no more digits
\* than a NUMERIC has; a naive or an aware time to a column with a zone.
Written(t) ==
    {PyNone} \cup
    CASE IsNumeric(t) -> Numbers({v \in Amount : v % Unit(t.scale) = 0})
      [] IsFloat(t) -> Numbers(Amount)
      [] IsZoned(t) /\ t.name = "TIME" ->
             {Object("time", v, zone) : v \in Value, zone \in Zone \cup {None}}
      [] IsZoned(t) /\ t.name # "TIME" ->
             {Object("datetime", v, zone) : v \in Value, zone \in Zone}
      [] OTHER -> {Object("plain", v, None) : v \in Value}

\* An aware time is a time of day in UTC, and an aware datetime an instant.
InUTC(object) == IF object.zone \in Zone THEN object.val - Offset[object.zone] ELSE object.val

Meaning(object) ==
    CASE object = PyNone -> Null
      [] object.class = "time" -> InUTC(object) % 24
      [] OTHER -> InUTC(object)

-----------------------------------------------------------------------------
MonetDBTime_bind(object) ==
    IF object.zone = None THEN object
    ELSE Object("time", (object.val - Offset[object.zone]) % 24, None)

\* Mutant of MonetDBNumeric_bind: floats pass as they are.
OnlyIntegersBecomeDecimal(object, decimal) ==
    IF decimal /\ object.class = "int" THEN [object EXCEPT !.class = "Decimal"] ELSE object

MonetDBNumeric_bind(object, decimal) ==
    IF object = PyNone THEN object
    ELSE [object EXCEPT !.class = IF decimal THEN "Decimal" ELSE "float"]

MonetDBFloat_bind(object) ==
    IF object.class = "Decimal" THEN [object EXCEPT !.class = "float"] ELSE object

bind_processor(object) ==
    CASE IsNumeric(type) -> MonetDBNumeric_bind(object, asdecimal)
      [] IsFloat(type) -> MonetDBFloat_bind(object)
      [] type.name = "TIME" /\ type.timezone -> MonetDBTime_bind(object)
      [] OTHER -> object

\* PyArrow does not mix Decimal with other numbers in one array, and takes the
\* clock time of a time, whatever its zone.
Buildable(objects) ==
    LET numbers == {objects[i].class : i \in {j \in DOMAIN objects : objects[j] # PyNone}}
    IN "Decimal" \in numbers => numbers = {"Decimal"}

ArrowValue(object) ==
    CASE object = PyNone -> Null
      [] object.class = "time" -> object.val
      [] OTHER -> InUTC(object)

\* The kinds of Arrow column the driver makes of a column of the server.
ArrowKind(name) ==
    CASE name \in {"bigint", "int", "oid", "smallint", "tinyint", "month_interval"} -> "int"
      [] name \in {"decimal", "hugeint"} -> "decimal"
      [] name \in {"double", "real"} -> "float"
      [] name = "boolean" -> "bool"
      [] name = "date" -> "date32"
      [] name \in {"time", "timetz"} -> "time"
      [] name \in {"timestamp", "timestamptz"} -> "timestamp"
      [] name \in {"blob", "char", "clob", "inet", "json", "url", "varchar"} -> "string"
      [] OTHER -> "other"

ArrowOf(row) ==
    {t \in ArrowType : /\ t.kind = ArrowKind(row.type)
                       /\ t.huge <=> row.type = "hugeint"
                       /\ t.zone # None <=> row.type = "timestamptz"
                       /\ t.kind # "time" /\ t.kind # "timestamp" => t.unit = "us"}

\* "MonetDB widens an expression to double when it cannot infer a bound
\* parameter's type"; an expression with the type NUMERIC over whole numbers, such
\* as their sum or count, is a HUGEINT or another integer.
Computed ==
    {t \in ArrowType :
        /\ <<t.kind, t.huge>> \in {<<"float", FALSE>>, <<"decimal", TRUE>>, <<"int", FALSE>>}
        /\ t.zone = None /\ t.unit = "us"}

Integral(t) == t.huge \/ t.kind = "int"

\* The value that the query has for value v of the column.
Plus(v, x) == IF v = Null THEN Null ELSE v + x

Whole == \A i \in DOMAIN rows : rows[i] = Null \/ (rows[i] + term) % 1000 = 0

-----------------------------------------------------------------------------
MonetDBTime_result(object) ==
    IF object # PyNone /\ object.zone = None THEN [object EXCEPT !.zone = UTC] ELSE object

\* To the nearest multiple of unit.  Half a unit goes up here; a double is never
\* at half a unit but a little beside it, and goes to that side.
Rounded(v, unit) == ((2 * v + unit) \div (2 * unit)) * unit

\* The result's Arrow type decides once whether there is a processor at all.  A
\* double is cut to the return scale, that of the type unless it has none.
MonetDBNumeric_result(object) ==
    CASE ~asdecimal /\ arrow.kind # "float" /\ object.class = "Decimal" ->
             [object EXCEPT !.class = "float"]
      [] asdecimal /\ arrow.kind # "decimal" /\ object.class = "float" ->
             Object("Decimal", Rounded(object.val, Unit(type.scale)), object.zone)
      [] OTHER -> object

\* SQLAlchemy's Float: to_float
Float_result(object) == IF object = PyNone THEN object ELSE [object EXCEPT !.class = "float"]

result_processor(object) ==
    CASE IsNumeric(type) -> MonetDBNumeric_result(object)
      [] IsFloat(type) -> Float_result(object)
      [] type.name = "TIME" /\ type.timezone -> MonetDBTime_result(object)
      [] OTHER -> object

-----------------------------------------------------------------------------
SysColumn == [type : DOMAIN MONETDB_TYPE_MAP \cup {row.type : row \in Foreign},
              digits : Nat, scale : Nat]

ASSUME NoneAssumption == None \notin SysColumn

TypeOK ==
    /\ column \in SysColumn \cup {None} /\ copy \in SysColumn \cup {None}
    /\ declared \in BOOLEAN /\ asdecimal \in BOOLEAN /\ refused \in BOOLEAN
    /\ Len(given) = Len(rows) /\ Len(rows) <= MaxRows
    /\ arrow \in ArrowType \cup {None}
    /\ arrow # None => WellFormed(arrow)
    /\ term \in Term
    /\ Len(read) <= Len(rows)

Init == /\ column = None /\ declared = FALSE /\ copy = None
        /\ type = Plain("NULLTYPE") /\ asdecimal = TRUE
        /\ given = <<>> /\ rows = <<>> /\ refused = FALSE
        /\ arrow = None /\ term = 0 /\ read = <<>>

NoResult == arrow' = None /\ term' = 0 /\ read' = <<>>

\* CREATE TABLE, or a migration's ALTER COLUMN.
Define(t) ==
    /\ rows = <<>>
    /\ column' \in StoredAs(Rendered(t))
    /\ declared' = TRUE /\ type' = t /\ copy' = None
    /\ asdecimal' \in IF IsNumeric(t) THEN BOOLEAN ELSE {TRUE}
    /\ NoResult /\ UNCHANGED <<given, rows, refused>>

Create(t) == column = None /\ Define(t)

_monetdb_column_type(t) == column # None /\ Define(t)

\* Another client makes the column, and the table is reflected.
Reflect(row) ==
    /\ column = None \/ column = row
    /\ column' = row
    /\ type' = resolve_type(row) /\ asdecimal' = TRUE
    /\ NoResult /\ UNCHANGED <<declared, copy, given, rows, refused>>

CreateCopy ==
    /\ column # None /\ copy = None /\ rows = <<>>
    /\ copy' \in StoredAs(Rendered(resolve_type(column)))
    /\ UNCHANGED <<column, declared, type, asdecimal, given, rows, refused, arrow, term, read>>

Insert(objects) ==
    LET bound == [i \in DOMAIN objects |-> bind_processor(objects[i])]
    IN  /\ column # None /\ arrow = None /\ Len(rows) + Len(objects) <= MaxRows
        /\ refused' = ~Buildable(bound)
        /\ IF refused' THEN UNCHANGED <<given, rows>>
           ELSE /\ given' = given \o [i \in DOMAIN objects |-> Meaning(objects[i])]
                /\ rows' = rows \o [i \in DOMAIN bound |-> ArrowValue(bound[i])]
        /\ UNCHANGED <<column, declared, type, asdecimal, copy, arrow, term, read>>

\* The column, or an expression over a NUMERIC.
Select ==
    /\ column # None
    /\ term' \in IF IsNumeric(type) THEN Term ELSE {0}
    /\ arrow' \in ArrowOf(column) \cup IF IsNumeric(type) THEN Computed ELSE {}
    /\ read' = <<>>
    /\ UNCHANGED <<column, declared, type, asdecimal, copy, given, rows, refused>>
    /\ IsNumeric(type) /\ Integral(arrow') => Whole'

\* A batch of n rows.
Fetch(n) ==
    LET batch == [i \in 1 .. n |-> Plus(rows[Len(read) + i], term)]
        objects == batch_to_rows(arrow, batch)
    IN  /\ arrow # None /\ Len(read) + n <= Len(rows)
        /\ read' = read \o [i \in DOMAIN objects |-> result_processor(objects[i])]
        /\ UNCHANGED <<column, declared, type, asdecimal, copy, given, rows, refused, arrow, term>>

Next == \/ \E t \in Declared : Create(t) \/ _monetdb_column_type(t)
        \/ \E row \in Foreign \cup ({column} \ {None}) : Reflect(row)
        \/ CreateCopy
        \/ \E a, b \in Written(type) : Insert(<<a>>) \/ Insert(<<a, b>>)
        \/ Select
        \/ \E n \in 1 .. MaxRows : Fetch(n)

Spec == Init /\ [][Next]_vars

-----------------------------------------------------------------------------
(* Properties.                                                              *)

\* What class of object a type promises to read.
Promised ==
    CASE IsNumeric(type) -> IF asdecimal THEN "Decimal" ELSE "float"
      [] ~IsNumeric(type) /\ arrow.huge -> "int"
      [] OTHER -> ClassOf(arrow.kind)

\* A multiple of unit, and the exact number within half of it.
Near(value, exact, unit) == value % unit = 0 /\ 2 * (value - exact) \in -unit .. unit

\* A value is read exactly, but for a double that was read as a Decimal: that is a
\* number with the return scale's digits.
ReadFor(value, exact) ==
    IF IsNumeric(type) /\ asdecimal /\ arrow.kind = "float"
    THEN Near(value, exact, Unit(type.scale))
    ELSE value = exact

\* The application reads what it wrote, or what the query made of it, by value,
\* by class and by zone: however the result is cut into batches, with nulls or
\* without, through the declared type or the reflected one, and in whatever type
\* the server computed it.  Of the integers that a NUMERIC may be computed in it
\* says the value only: see NumericYieldsDecimal.
ReadAsWritten ==
    \A i \in DOMAIN read :
        IF given[i] = Null THEN read[i] = PyNone
        ELSE /\ ReadFor(Meaning(read[i]), given[i] + term)
             /\ read[i].class = Promised \/ (IsNumeric(type) /\ Integral(arrow))
             /\ read[i].zone # None <=> IsZoned(type)

\* "SQLAlchemy's contract still says a Numeric column yields Decimal" (the
\* docstring of MonetDBNumeric).
NumericYieldsDecimal ==
    IsNumeric(type) /\ asdecimal =>
        \A i \in DOMAIN read : read[i] # PyNone => read[i].class = "Decimal"

\* "A Numeric column accepts float, int and Decimal in the same executemany"
\* (README), and a FLOAT does.
MixedNumbersAccepted == ~refused

\* A table created from a reflected one holds whatever the reflected one does;
\* and no more, where it was declared to the dialect: reflection and rendering
\* lose nothing of a type, so that a migration finds nothing to change.
CopyHoldsColumn ==
    copy # None => Fits(column, copy) /\ (declared => Fits(copy, column))
=============================================================================

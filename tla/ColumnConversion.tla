-------------------------- MODULE ColumnConversion --------------------------
(***************************************************************************)
(* _convert.py: an Arrow column becomes a list of Python objects, through  *)
(* to_pylist() or, faster, through NumPy.  What the two produce is modelled *)
(* from the reasons _convert.py gives for telling columns apart.           *)
(*                                                                         *)
(* An Arrow value is Null or an integer: a number, a count of hours for a  *)
(* time or an instant, a token for anything else.  A Python object has a   *)
(* class, such a value and, for an aware one, the zone its value is read   *)
(* in.                                                                     *)
(***************************************************************************)
EXTENDS Integers, Sequences

CONSTANTS Null,     \* no value
          None,     \* no zone
          UTC,
          Offset    \* of each zone, in hours

Zone == DOMAIN Offset

Kind == {"int", "float", "bool", "string", "decimal", "timestamp", "time",
         "date32", "date64", "other"}

\* "huge" is the metadata of a field that holds MonetDB's HUGEINT in a decimal.
ArrowType == [kind : Kind, unit : {"us", "ns"}, zone : Zone \cup {None}, huge : BOOLEAN]

\* Only timestamps have a zone.
WellFormed(type) == type.zone # None => type.kind = "timestamp"

ASSUME ConversionAssumption ==
    /\ Null \notin Int /\ None \notin Zone
    /\ UTC \in Zone /\ Offset \in [Zone -> Int] /\ Offset[UTC] = 0

Object(class, val, zone) == [class |-> class, val |-> val, zone |-> zone]

PyNone == Object("NoneType", Null, None)

NaN == Object("float", Null, None)

ClassOf(kind) ==
    CASE kind = "decimal" -> "Decimal"
      [] kind = "timestamp" -> "datetime"
      [] kind \in {"date32", "date64"} -> "date"
      [] OTHER -> kind

\* pyarrow's own conversion of one value.
AsPy(type, v) ==
    IF v = Null THEN PyNone
    ELSE Object(ClassOf(type.kind),
                IF type.zone = None THEN v ELSE v + Offset[type.zone], type.zone)

to_pylist(type, values) == [i \in DOMAIN values |-> AsPy(type, values[i])]

HasNulls(values) == \E i \in DOMAIN values : values[i] = Null

\* An element of to_numpy().tolist(): no integer or float null, no zone, no
\* datetime of nanoseconds, no date of milliseconds, and something else for
\* nested and extension types.
FromNumpy(type, nulls, v) ==
    CASE v = Null /\ type.kind \in {"int", "float"} -> NaN
      [] v = Null /\ type.kind \notin {"int", "float"} -> PyNone
      [] v # Null /\ type.kind = "int" /\ nulls -> Object("float", v, None)
      [] v # Null /\ type.kind \in {"timestamp", "time"} /\ type.unit = "ns" ->
             Object("int", v, None)
      [] v # Null /\ type.kind = "date64" -> Object("datetime", v, None)
      [] v # Null /\ type.kind = "other" -> Object("numpy", v, None)
      [] OTHER -> Object(ClassOf(type.kind), v, None)

ThroughNumpy(type, values) ==
    [i \in DOMAIN values |-> FromNumpy(type, HasNulls(values), values[i])]

-----------------------------------------------------------------------------
_numpy_safe(type) ==
    /\ type.kind \in {"timestamp", "time"} => type.unit = "us"
    /\ type.kind \notin {"date64", "other"}

\* replace(tzinfo=timezone) for UTC, else astimezone(timezone)
_timestamp_to_pylist(type, values) ==
    [i \in DOMAIN values |->
        LET naive == ThroughNumpy(type, values)[i]
        IN  IF Offset[type.zone] = 0 THEN [naive EXCEPT !.zone = type.zone]
            ELSE [naive EXCEPT !.zone = type.zone, !.val = @ + Offset[type.zone]]]

\* Mutant of Exact: nulls in integers are overlooked.
ExactIfFloatsAre(type, values) ==
    /\ type.zone = None /\ _numpy_safe(type)
    /\ ~(HasNulls(values) /\ type.kind = "float")

\* NumPy changes nothing, and is worth its set-up.
Exact(type, values) ==
    /\ type.zone = None /\ _numpy_safe(type)
    /\ ~(HasNulls(values) /\ type.kind \in {"int", "float"})
    /\ ~(Len(values) = 1 /\ type.kind \notin {"timestamp", "time", "date32", "date64"})

column_to_pylist(type, values) ==
    CASE type.zone # None /\ ~HasNulls(values) /\ _numpy_safe(type) ->
             _timestamp_to_pylist(type, values)
      [] Exact(type, values) -> ThroughNumpy(type, values)
      [] OTHER -> to_pylist(type, values)

\* One column of a batch: int(value) for the values of a HUGEINT.
batch_to_rows(type, values) ==
    [i \in DOMAIN values |->
        LET object == column_to_pylist(type, values)[i]
        IN  IF type.huge /\ object # PyNone THEN [object EXCEPT !.class = "int"]
            ELSE object]
=============================================================================

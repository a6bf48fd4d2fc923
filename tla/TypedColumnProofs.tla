-------------------------- MODULE TypedColumnProofs --------------------------
(***************************************************************************)
(* column_to_pylist is to_pylist, for every type, length and value, so that *)
(* a value is converted alike in whatever batch it arrives; and with the   *)
(* types' processors around it, what is written is what is read.           *)
(***************************************************************************)
EXTENDS TypedColumn, SequenceTheorems, TLAPS

Values(n) == [1 .. n -> Int \cup {Null}]

\* NumPy's conversion of a column that Exact lets through.
LEMMA NumpyIsExact ==
    ASSUME NEW t \in ArrowType, NEW n \in Nat, NEW values \in Values(n),
           Exact(t, values)
    PROVE  ThroughNumpy(t, values) = to_pylist(t, values)
  <1>1. ASSUME NEW i \in DOMAIN values
        PROVE  FromNumpy(t, HasNulls(values), values[i]) = AsPy(t, values[i])
    <2> DEFINE v == values[i]
    <2>1. t.zone = None /\ _numpy_safe(t)
      BY DEF Exact
    <2>2. v = Null => t.kind \notin {"int", "float"}
      BY DEF Exact, HasNulls
    <2>3. ~(t.kind = "int" /\ HasNulls(values))
      BY DEF Exact
    <2>4. ~(t.kind \in {"timestamp", "time"} /\ t.unit = "ns")
          /\ t.kind # "date64" /\ t.kind # "other"
      BY <2>1 DEF _numpy_safe
    <2>5. CASE v = Null
      BY <2>2, <2>5 DEF FromNumpy, AsPy
    <2>6. CASE v # Null
      <3>1. FromNumpy(t, HasNulls(values), v) = Object(ClassOf(t.kind), v, None)
        BY <2>3, <2>4, <2>6 DEF FromNumpy
      <3> QED
        BY <2>1, <2>6, <3>1 DEF AsPy
    <2> QED
      BY <2>5, <2>6
  <1> QED
    BY <1>1, Zenon DEF ThroughNumpy, to_pylist

\* The conversion of timestamps with a zone.
LEMMA ZoneIsExact ==
    ASSUME NEW t \in ArrowType, WellFormed(t), NEW n \in Nat, NEW values \in Values(n),
           t.zone # None, ~HasNulls(values), _numpy_safe(t)
    PROVE  _timestamp_to_pylist(t, values) = to_pylist(t, values)
  <1>1. t.kind = "timestamp" /\ t.unit = "us"
    BY DEF WellFormed, _numpy_safe
  <1>2. t.zone \in Zone /\ Offset[t.zone] \in Int
    BY ConversionAssumption DEF ArrowType, Zone
  <1> DEFINE Of(naive) == IF Offset[t.zone] = 0 THEN [naive EXCEPT !.zone = t.zone]
                          ELSE [naive EXCEPT !.zone = t.zone, !.val = @ + Offset[t.zone]]
  <1>3. ASSUME NEW i \in DOMAIN values
        PROVE  Of(ThroughNumpy(t, values)[i]) = AsPy(t, values[i])
    <2> DEFINE v == values[i]
    <2>1. v \in Int /\ v # Null
      BY DEF Values, HasNulls
    <2>2. ThroughNumpy(t, values)[i] = FromNumpy(t, HasNulls(values), v)
      BY DEF ThroughNumpy
    <2>3. FromNumpy(t, HasNulls(values), v) = Object("datetime", v, None)
      BY <1>1, <2>1 DEF FromNumpy, ClassOf
    <2>4. AsPy(t, v) = Object("datetime", v + Offset[t.zone], t.zone)
      BY <1>1, <2>1 DEF AsPy, ClassOf
    <2>5. CASE Offset[t.zone] = 0
      <3>1. v + Offset[t.zone] = v
        BY <2>1, <2>5
      <3>2. Of(Object("datetime", v, None)) = Object("datetime", v, t.zone)
        BY <2>5 DEF Object
      <3> QED
        BY <2>2, <2>3, <2>4, <3>1, <3>2
    <2>6. CASE Offset[t.zone] # 0
      <3>1. Of(Object("datetime", v, None)) = Object("datetime", v + Offset[t.zone], t.zone)
        BY <2>6 DEF Object
      <3> QED
        BY <2>2, <2>3, <2>4, <3>1
    <2> QED
      BY <2>5, <2>6
  <1> QED
    BY <1>3, Zenon DEF _timestamp_to_pylist, to_pylist

\* "Always equal to column.to_pylist(), down to the exact Python type of every
\* element" (column_to_pylist).
THEOREM ConversionExact ==
    ASSUME NEW t \in ArrowType, WellFormed(t), NEW n \in Nat, NEW values \in Values(n)
    PROVE  column_to_pylist(t, values) = to_pylist(t, values)
  <1>1. CASE t.zone # None /\ ~HasNulls(values) /\ _numpy_safe(t)
    <2>1. column_to_pylist(t, values) = _timestamp_to_pylist(t, values)
      BY <1>1, Zenon DEF column_to_pylist, Exact
    <2> QED
      BY <1>1, <2>1, ZoneIsExact
  <1>2. CASE Exact(t, values)
    <2>1. column_to_pylist(t, values) = ThroughNumpy(t, values)
      BY <1>2, Zenon DEF column_to_pylist, Exact
    <2> QED
      BY <1>2, <2>1, NumpyIsExact
  <1>3. CASE /\ ~(t.zone # None /\ ~HasNulls(values) /\ _numpy_safe(t))
             /\ ~Exact(t, values)
    BY <1>3, Zenon DEF column_to_pylist
  <1> QED
    BY <1>1, <1>2, <1>3

\* A value reads the same in every batch of a result: alone or among others,
\* beside nulls or not, of a HUGEINT or not (batch_to_rows).
THEOREM BatchesAgree ==
    ASSUME NEW t \in ArrowType, WellFormed(t),
           NEW m \in Nat, NEW one \in Values(m), NEW i \in 1 .. m,
           NEW n \in Nat, NEW other \in Values(n), NEW j \in 1 .. n,
           one[i] = other[j]
    PROVE  batch_to_rows(t, one)[i] = batch_to_rows(t, other)[j]
  <1>1. DOMAIN one = 1 .. m /\ DOMAIN other = 1 .. n
    BY DEF Values
  <1>2. column_to_pylist(t, one)[i] = AsPy(t, one[i])
    BY <1>1, ConversionExact DEF to_pylist
  <1>3. column_to_pylist(t, other)[j] = AsPy(t, other[j])
    BY <1>1, ConversionExact DEF to_pylist
  <1> QED
    BY <1>1, <1>2, <1>3, Zenon DEF batch_to_rows

-----------------------------------------------------------------------------
(* Types and the rows of sys.columns.                                       *)

\* A type with a length and a scale, or without them.
Given(t) == /\ t.size \in Nat \cup {Missing} /\ t.scale \in Nat \cup {Missing}
            /\ t.timezone \in BOOLEAN

\* The processors of a type fit the column it is used for.
Linked(t, row) ==
    /\ IsNumeric(t) <=> row.type = "decimal"
    /\ IsFloat(t) <=> row.type \in {"double", "real"}
    /\ (IsZoned(t) /\ t.name = "TIME") <=> row.type = "timetz"
    /\ (IsZoned(t) /\ t.name # "TIME") <=> row.type = "timestamptz"

\* The method that renders a type, by its name.
LEMMA RenderedBy ==
    ASSUME NEW t
    PROVE  /\ t.name \in {"NUMERIC", "DECIMAL"} => Rendered(t) = _decimal(t)
           /\ t.name = "FLOAT" => Rendered(t) = visit_FLOAT(t)
           /\ t.name \in {"VARCHAR", "NVARCHAR", "unicode"} => Rendered(t) = visit_VARCHAR(t)
           /\ t.name = "TIME" => Rendered(t) = visit_TIME(t)
           /\ t.name \in {"TIMESTAMP", "DATETIME"} => Rendered(t) = visit_TIMESTAMP(t)
  <1>1. DOMAIN Spelling = {"DOUBLE_PRECISION", "TEXT", "NTEXT", "unicode_text",
                           "large_binary", "BINARY", "VARBINARY"}
    BY DEF Spelling
  <1>2. CASE t.name \in {"NUMERIC", "DECIMAL"}
    <2>1. /\ t.name # "FLOAT" /\ t.name \notin {"VARCHAR", "NVARCHAR", "unicode"}
          /\ t.name # "TIME" /\ t.name \notin {"TIMESTAMP", "DATETIME"}
          /\ t.name \notin DOMAIN Spelling
      BY <1>1, <1>2
    <2> QED
      BY <1>2, <2>1, Zenon DEF Rendered
  <1>3. CASE t.name = "FLOAT"
    <2>1. /\ t.name \notin {"NUMERIC", "DECIMAL"} /\ t.name \notin {"VARCHAR", "NVARCHAR", "unicode"}
          /\ t.name # "TIME" /\ t.name \notin {"TIMESTAMP", "DATETIME"}
          /\ t.name \notin DOMAIN Spelling
      BY <1>1, <1>3
    <2> QED
      BY <1>3, <2>1, Zenon DEF Rendered
  <1>4. CASE t.name \in {"VARCHAR", "NVARCHAR", "unicode"}
    <2>1. /\ t.name \notin {"NUMERIC", "DECIMAL"} /\ t.name # "FLOAT"
          /\ t.name # "TIME" /\ t.name \notin {"TIMESTAMP", "DATETIME"}
          /\ t.name \notin DOMAIN Spelling
      BY <1>1, <1>4
    <2> QED
      BY <1>4, <2>1, Zenon DEF Rendered
  <1>5. CASE t.name = "TIME"
    <2>1. /\ t.name \notin {"NUMERIC", "DECIMAL"} /\ t.name \notin {"VARCHAR", "NVARCHAR", "unicode"}
          /\ t.name # "FLOAT" /\ t.name \notin {"TIMESTAMP", "DATETIME"}
          /\ t.name \notin DOMAIN Spelling
      BY <1>1, <1>5
    <2> QED
      BY <1>5, <2>1, Zenon DEF Rendered
  <1>6. CASE t.name \in {"TIMESTAMP", "DATETIME"}
    <2>1. /\ t.name \notin {"NUMERIC", "DECIMAL"} /\ t.name \notin {"VARCHAR", "NVARCHAR", "unicode"}
          /\ t.name # "FLOAT" /\ t.name # "TIME"
          /\ t.name \notin DOMAIN Spelling
      BY <1>1, <1>6
    <2> QED
      BY <1>6, <2>1, Zenon DEF Rendered
  <1> QED
    BY <1>2, <1>3, <1>4, <1>5, <1>6

\* What the server keeps of a rendered type, by its name.
LEMMA StoredBy ==
    ASSUME NEW d, NEW row \in StoredAs(d)
    PROVE  /\ d.name = "DECIMAL" => row = Row("decimal", d.size, d.scale)
           /\ d.name = "FLOAT" => row \in {Row("real", 0, 0), Row("double", 0, 0)}
           /\ d.name = "CLOB" => row \in {Row("clob", 0, 0), Row("varchar", 0, 0)}
           /\ d.name = "VARCHAR" => row = Row("varchar", d.size, 0)
           /\ d.name = "CHAR" => row = Row("char", IF d.size = Missing THEN 1 ELSE d.size, 0)
           /\ d.name = "TIME" => row = Row(IF d.timezone THEN "timetz" ELSE "time",
                                         IF d.size = Missing THEN 1 ELSE d.size + 1, 0)
           /\ d.name = "TIMESTAMP" =>
                  row = Row(IF d.timezone THEN "timestamptz" ELSE "timestamp", 7, 0)
           /\ \/ d.name \in {"DECIMAL", "FLOAT", "CLOB", "VARCHAR", "CHAR", "TIME", "TIMESTAMP"}
              \/ d.name \in DOMAIN ServerName /\ row = Row(ServerName[d.name], 0, 0)
  <1>1. \A n \in {"DECIMAL", "FLOAT", "CLOB", "VARCHAR", "CHAR", "TIME", "TIMESTAMP"} :
            n \notin DOMAIN ServerName
    BY DEF ServerName
  <1>2. CASE d.name = "DECIMAL"
    BY <1>1, <1>2, Zenon DEF StoredAs
  <1>3. CASE d.name = "FLOAT"
    BY <1>1, <1>3, Zenon DEF StoredAs
  <1>4. CASE d.name = "CLOB"
    BY <1>1, <1>4, Zenon DEF StoredAs
  <1>5. CASE d.name = "VARCHAR"
    BY <1>1, <1>5, Zenon DEF StoredAs
  <1>6. CASE d.name = "CHAR"
    BY <1>1, <1>6, Zenon DEF StoredAs
  <1>7. CASE d.name = "TIME"
    BY <1>1, <1>7, Zenon DEF StoredAs
  <1>8. CASE d.name = "TIMESTAMP"
    BY <1>1, <1>8, Zenon DEF StoredAs
  <1>9. CASE d.name \notin {"DECIMAL", "FLOAT", "CLOB", "VARCHAR", "CHAR", "TIME", "TIMESTAMP"}
    BY <1>9, Zenon DEF StoredAs
  <1> QED
    BY <1>2, <1>3, <1>4, <1>5, <1>6, <1>7, <1>8, <1>9, Zenon

LEMMA TypeNames ==
    DOMAIN MONETDB_TYPE_MAP =
        {"bigint", "blob", "boolean", "char", "clob", "date", "day_interval", "decimal",
         "double", "hugeint", "inet", "int", "json", "month_interval", "oid", "real",
         "sec_interval", "smallint", "time", "timestamp", "timestamptz", "timetz", "tinyint",
         "url", "uuid", "varchar"}
  BY DEF MONETDB_TYPE_MAP

LEMMA RowTyped ==
    ASSUME NEW name \in DOMAIN MONETDB_TYPE_MAP, NEW digits \in Nat, NEW scale \in Nat
    PROVE  Row(name, digits, scale) \in SysColumn /\ Row(name, digits, scale).type = name
  BY DEF Row, SysColumn

LEMMA NumericStored ==
    ASSUME NEW t, Given(t), IsNumeric(t), NEW row \in StoredAs(Rendered(t))
    PROVE  row \in SysColumn /\ Linked(t, row)
  <1>1. Rendered(t) = _decimal(t) /\ _decimal(t).name = "DECIMAL"
        /\ _decimal(t).size \in Nat /\ _decimal(t).scale \in Nat
    BY RenderedBy, ColumnAssumption DEF IsNumeric, _decimal, Type, Given
  <1>2. row = Row("decimal", _decimal(t).size, _decimal(t).scale)
    BY <1>1, StoredBy
  <1>3. row \in SysColumn /\ row.type = "decimal"
    BY <1>1, <1>2, TypeNames, RowTyped
  <1> QED
    BY <1>3 DEF Linked, IsNumeric, IsFloat, IsZoned

LEMMA FloatStored ==
    ASSUME NEW t, Given(t), t.name = "FLOAT", NEW row \in StoredAs(Rendered(t))
    PROVE  row \in SysColumn /\ Linked(t, row)
  <1>1. Rendered(t) = visit_FLOAT(t)
    BY RenderedBy
  <1>2. row.type \in {"double", "real"} /\ row \in SysColumn
    <2>1. CASE t.size = Missing
      <3>1. Rendered(t).name = "DOUBLE"
        BY <1>1, <2>1 DEF visit_FLOAT, Plain, Type
      <3>2. row = Row(ServerName["DOUBLE"], 0, 0)
        BY <3>1, StoredBy, Zenon
      <3>3. ServerName["DOUBLE"] = "double"
        BY DEF ServerName
      <3> QED
        BY <3>2, <3>3, TypeNames, RowTyped
    <2>2. CASE t.size # Missing
      <3>1. Rendered(t).name = "FLOAT"
        BY <1>1, <2>2 DEF visit_FLOAT, Sized, Type
      <3>2. row = Row("real", 0, 0) \/ row = Row("double", 0, 0)
        BY <3>1, StoredBy
      <3> QED
        BY <3>2, TypeNames, RowTyped
    <2> QED
      BY <2>1, <2>2
  <1> QED
    BY <1>2 DEF Linked, IsNumeric, IsFloat, IsZoned

LEMMA TimeStored ==
    ASSUME NEW t, Given(t), t.name \in {"TIME", "TIMESTAMP", "DATETIME"},
           NEW row \in StoredAs(Rendered(t))
    PROVE  row \in SysColumn /\ Linked(t, row)
  <1>1. CASE t.name = "TIME"
    <2>1. Rendered(t) = visit_TIME(t)
      BY <1>1, RenderedBy
    <2>2. /\ Rendered(t).name = "TIME" /\ Rendered(t).timezone = t.timezone
          /\ Rendered(t).size \in Nat
      BY <2>1 DEF visit_TIME, Type, Given
    <2>3. \E digits \in Nat : row = Row(IF t.timezone THEN "timetz" ELSE "time", digits, 0)
      BY <2>2, StoredBy
    <2>4. row \in SysColumn /\ row.type = IF t.timezone THEN "timetz" ELSE "time"
      BY <2>3, TypeNames, RowTyped
    <2> QED
      BY <1>1, <2>4 DEF Linked, IsNumeric, IsFloat, IsZoned, Given
  <1>2. CASE t.name # "TIME"
    <2>1. Rendered(t) = visit_TIMESTAMP(t)
      BY <1>2, RenderedBy
    <2>2. Rendered(t).name = "TIMESTAMP" /\ Rendered(t).timezone = t.timezone
      BY <2>1 DEF visit_TIMESTAMP, Type
    <2>3. row = Row(IF t.timezone THEN "timestamptz" ELSE "timestamp", 7, 0)
      BY <2>2, StoredBy
    <2>4. row \in SysColumn /\ row.type = IF t.timezone THEN "timestamptz" ELSE "timestamp"
      BY <2>3, TypeNames, RowTyped
    <2> QED
      BY <1>2, <2>4 DEF Linked, IsNumeric, IsFloat, IsZoned, Given
  <1> QED
    BY <1>1, <1>2

LEMMA Spelled ==
    \A n \in DOMAIN Spelling :
        /\ Spelling[n] \in {"DOUBLE", "CLOB", "BLOB"}
        /\ Spelling[n] = "DOUBLE" <=> n = "DOUBLE_PRECISION"
        /\ n \notin {"FLOAT", "REAL", "DOUBLE"}
  BY DEF Spelling

LEMMA ServerNamed ==
    \A n \in DOMAIN ServerName :
        /\ ServerName[n] \in DOMAIN MONETDB_TYPE_MAP \ {"decimal", "timetz", "timestamptz"}
        /\ ServerName[n] \in {"double", "real"} <=> n \in {"DOUBLE", "REAL"}
        /\ n \notin {"FLOAT", "DOUBLE_PRECISION"}
  BY TypeNames DEF ServerName

LEMMA OtherRendered ==
    ASSUME NEW t,
           t.name \notin {"NUMERIC", "DECIMAL", "FLOAT", "TIME", "TIMESTAMP", "DATETIME"}
    PROVE  \/ t.name \in {"VARCHAR", "NVARCHAR", "unicode"} /\ Rendered(t) = visit_VARCHAR(t)
           \/ t.name \in DOMAIN Spelling /\ Rendered(t) = Plain(Spelling[t.name])
           \/ t.name \notin {"VARCHAR", "NVARCHAR", "unicode"} /\ Rendered(t) = t
  <1>1. /\ t.name \notin {"NUMERIC", "DECIMAL"} /\ t.name # "FLOAT"
        /\ t.name # "TIME" /\ t.name \notin {"TIMESTAMP", "DATETIME"}
    OBVIOUS
  <1>2. CASE t.name \in {"VARCHAR", "NVARCHAR", "unicode"}
    BY <1>2, RenderedBy
  <1>3. CASE t.name \notin {"VARCHAR", "NVARCHAR", "unicode"}
    BY <1>1, <1>3, Zenon DEF Rendered
  <1> QED
    BY <1>2, <1>3

LEMMA OtherStored ==
    ASSUME NEW t, Given(t),
           t.name \notin {"NUMERIC", "DECIMAL", "FLOAT", "TIME", "TIMESTAMP", "DATETIME"},
           NEW row \in StoredAs(Rendered(t))
    PROVE  row \in SysColumn /\ Linked(t, row)
  <1> DEFINE d == Rendered(t)
  <1>1. CASE t.name \in {"VARCHAR", "NVARCHAR", "unicode"} /\ d = visit_VARCHAR(t)
    <2>1. d.name = "CLOB" \/ (d.name = "VARCHAR" /\ d.size \in Nat)
      BY <1>1 DEF visit_VARCHAR, Plain, Sized, Type, Given
    <2> HIDE DEF d
    <2>2. \E n \in {"clob", "varchar"}, digits \in Nat : row = Row(n, digits, 0)
      BY <2>1, StoredBy DEF d
    <2>3. row \in SysColumn /\ row.type \in {"clob", "varchar"}
      BY <2>2, TypeNames, RowTyped
    <2> QED
      BY <1>1, <2>3 DEF Linked, IsNumeric, IsFloat, IsZoned
  <1>2. CASE t.name \in DOMAIN Spelling /\ d = Plain(Spelling[t.name])
    <2>1. d.name = Spelling[t.name]
      BY <1>2 DEF Plain, Type
    <2> HIDE DEF d
    <2>2. CASE t.name = "DOUBLE_PRECISION"
      <3>1. d.name = "DOUBLE"
        BY <1>2, <2>1, <2>2, Spelled
      <3>2. row = Row(ServerName["DOUBLE"], 0, 0)
        BY <3>1, StoredBy, Zenon DEF d
      <3>3. ServerName["DOUBLE"] = "double"
        BY DEF ServerName
      <3>4. row \in SysColumn /\ row.type = "double"
        BY <3>2, <3>3, TypeNames, RowTyped
      <3> QED
        BY <2>2, <3>4 DEF Linked, IsNumeric, IsFloat, IsZoned
    <2>3. CASE t.name # "DOUBLE_PRECISION"
      <3>0. /\ t.name \in DOMAIN Spelling
            /\ Spelling[t.name] \in {"DOUBLE", "CLOB", "BLOB"}
            /\ Spelling[t.name] = "DOUBLE" <=> t.name = "DOUBLE_PRECISION"
            /\ t.name \notin {"FLOAT", "REAL", "DOUBLE"}
        <4>1. PICK n \in DOMAIN Spelling : n = t.name
          BY <1>2
        <4>2. /\ Spelling[n] \in {"DOUBLE", "CLOB", "BLOB"}
              /\ Spelling[n] = "DOUBLE" <=> n = "DOUBLE_PRECISION"
              /\ n \notin {"FLOAT", "REAL", "DOUBLE"}
          BY Spelled
        <4> QED
          BY <4>1, <4>2
      <3>1. d.name = "CLOB" \/ d.name = "BLOB"
        BY <2>1, <2>3, <3>0
      <3>2. d.name = "BLOB" => row = Row(ServerName["BLOB"], 0, 0)
        BY StoredBy, Zenon DEF d
      <3>3. ServerName["BLOB"] = "blob"
        BY DEF ServerName
      <3>4. \E n \in {"clob", "varchar", "blob"} : row = Row(n, 0, 0)
        BY <3>1, <3>2, <3>3, StoredBy DEF d
      <3>5. row \in SysColumn /\ row.type \in {"clob", "varchar", "blob"}
        BY <3>4, TypeNames, RowTyped
      <3>6. ~IsFloat(t)
        BY <2>3, <3>0 DEF IsFloat
      <3> QED
        BY <3>5, <3>6 DEF Linked, IsNumeric, IsZoned
    <2> QED
      BY <2>2, <2>3
  <1>3. CASE t.name \notin {"VARCHAR", "NVARCHAR", "unicode"} /\ d = t
    <2>1. row \in StoredAs(t) /\ t.name \notin {"DECIMAL", "FLOAT", "VARCHAR", "TIME", "TIMESTAMP"}
      BY <1>3
    <2>2. CASE t.name \in {"CLOB", "CHAR"}
      <3>1. \E n \in {"clob", "varchar", "char"} : \E digits \in Nat : row = Row(n, digits, 0)
        BY <2>1, <2>2, StoredBy DEF Given
      <3>2. row \in SysColumn /\ row.type \in {"clob", "varchar", "char"}
        BY <3>1, TypeNames, RowTyped
      <3> QED
        BY <2>2, <3>2 DEF Linked, IsNumeric, IsFloat, IsZoned
    <2>3. CASE t.name \notin {"CLOB", "CHAR"}
      <3>1. t.name \notin {"DECIMAL", "FLOAT", "CLOB", "VARCHAR", "CHAR", "TIME", "TIMESTAMP"}
        BY <2>1, <2>3
      <3>2. t.name \in DOMAIN ServerName /\ row = Row(ServerName[t.name], 0, 0)
        BY <2>1, <3>1, StoredBy, Zenon
      <3>3. PICK n : n = ServerName[t.name]
        OBVIOUS
      <3>4. /\ n \in DOMAIN MONETDB_TYPE_MAP \ {"decimal", "timetz", "timestamptz"}
            /\ n \in {"double", "real"} <=> IsFloat(t)
        BY <3>1, <3>2, <3>3, ServerNamed DEF IsFloat
      <3>5. row \in SysColumn /\ row.type = n
        BY <3>2, <3>3, <3>4, RowTyped
      <3> QED
        BY <3>4, <3>5 DEF Linked, IsNumeric, IsZoned
    <2> QED
      BY <2>2, <2>3
  <1> QED
    BY <1>1, <1>2, <1>3, OtherRendered

LEMMA Stored ==
    ASSUME NEW t, Given(t), NEW row \in StoredAs(Rendered(t))
    PROVE  row \in SysColumn /\ Linked(t, row)
  <1>1. CASE t.name \in {"NUMERIC", "DECIMAL"}
    BY <1>1, NumericStored DEF IsNumeric
  <1>2. CASE t.name = "FLOAT"
    BY <1>2, FloatStored
  <1>3. CASE t.name \in {"TIME", "TIMESTAMP", "DATETIME"}
    BY <1>3, TimeStored
  <1>4. CASE t.name \notin {"NUMERIC", "DECIMAL", "FLOAT", "TIME", "TIMESTAMP", "DATETIME"}
    BY <1>4, OtherStored
  <1> QED
    BY <1>1, <1>2, <1>3, <1>4

\* resolve_type finds the type whose processors fit the column.
LEMMA Resolved ==
    ASSUME NEW row \in SysColumn
    PROVE  Given(resolve_type(row)) /\ Linked(resolve_type(row), row)
  <1> DEFINE t == resolve_type(row)
  <1>1. CASE row.type \in {"timestamptz", "timetz"}
    <2>1. /\ row.type # "varchar" /\ row.type \in DOMAIN MONETDB_TYPE_MAP
          /\ row.type \notin {"char", "varchar"} /\ row.type # "decimal"
      BY <1>1, TypeNames
    <2>2. t = Type(MONETDB_TYPE_MAP[row.type], Missing, Missing, TRUE)
      BY <1>1, <2>1, Zenon DEF resolve_type
    <2>3. t.timezone = TRUE /\ Given(t) /\ t.name = IF row.type = "timetz" THEN "TIME" ELSE "TIMESTAMP"
      BY <1>1, <2>2 DEF Type, Given, MONETDB_TYPE_MAP
    <2> QED
      BY <1>1, <2>3 DEF Linked, IsNumeric, IsFloat, IsZoned
  <1>2. CASE row.type \notin {"timestamptz", "timetz"} /\ row.type \in DOMAIN MONETDB_TYPE_MAP
    <2>1. CASE row.type = "decimal"
      <3>1. row.type # "varchar" /\ row.type \notin {"char", "varchar"}
        BY <2>1
      <3>2. t = Type("DECIMAL", row.digits, row.scale, FALSE)
        BY <1>2, <2>1, <3>1, Zenon DEF resolve_type
      <3>3. t.name = "DECIMAL" /\ t.timezone = FALSE /\ Given(t)
        BY <3>2 DEF Type, Given, SysColumn
      <3> QED
        BY <2>1, <3>3 DEF Linked, IsNumeric, IsFloat, IsZoned
    <2>2. CASE row.type \in {"char", "varchar"}
      <3>1. row.type # "decimal" /\ MONETDB_TYPE_MAP[row.type] \in {"CHAR", "VARCHAR"}
        BY <2>2 DEF MONETDB_TYPE_MAP
      <3>2. t = Plain("TEXT") \/ t = Sized(MONETDB_TYPE_MAP[row.type], row.digits)
        BY <1>2, <2>2, <3>1, Zenon DEF resolve_type
      <3>3. t.name \in {"TEXT", "CHAR", "VARCHAR"} /\ t.timezone = FALSE
        BY <3>1, <3>2 DEF Plain, Sized, Type
      <3>4. t.size \in Nat \cup {Missing} /\ t.scale = Missing
        <4>1. row.digits \in Nat
          BY DEF SysColumn
        <4> QED
          BY <3>2, <4>1 DEF Plain, Sized, Type
      <3>5. Given(t)
        BY <3>3, <3>4 DEF Given
      <3> QED
        BY <2>2, <3>3, <3>5 DEF Linked, IsNumeric, IsFloat, IsZoned
    <2>3. CASE row.type \notin {"decimal", "char", "varchar"}
      <3>1. row.type # "varchar" /\ row.type # "decimal" /\ row.type \notin {"char", "varchar"}
        BY <2>3
      <3>2. t = Plain(MONETDB_TYPE_MAP[row.type])
        BY <1>2, <3>1, Zenon DEF resolve_type
      <3>3. t.name = MONETDB_TYPE_MAP[row.type] /\ t.timezone = FALSE /\ Given(t)
        BY <3>2 DEF Plain, Type, Given
      <3>4. /\ MONETDB_TYPE_MAP[row.type] \notin {"NUMERIC", "DECIMAL", "FLOAT", "DOUBLE"}
            /\ MONETDB_TYPE_MAP[row.type] \in {"DOUBLE_PRECISION", "REAL"}
                   <=> row.type \in {"double", "real"}
        BY <1>2, <2>3, TypeNames DEF MONETDB_TYPE_MAP
      <3> QED
        BY <1>2, <2>3, <3>3, <3>4 DEF Linked, IsNumeric, IsFloat, IsZoned
    <2> QED
      BY <2>1, <2>2, <2>3
  <1>3. CASE row.type \notin DOMAIN MONETDB_TYPE_MAP
    <2>1. /\ row.type \notin {"varchar", "decimal", "double", "real", "timetz", "timestamptz"}
          /\ row.type # "varchar" /\ row.type # "decimal"
          /\ row.type \notin {"timestamptz", "timetz"} /\ row.type \notin {"char", "varchar"}
      BY <1>3, TypeNames
    <2>2. t = Plain("NULLTYPE")
      BY <1>3, <2>1, Zenon DEF resolve_type
    <2>3. t.name = "NULLTYPE" /\ Given(t)
      BY <2>2 DEF Plain, Type, Given
    <2> QED
      BY <2>1, <2>3 DEF Linked, IsNumeric, IsFloat, IsZoned
  <1> QED
    BY <1>1, <1>2, <1>3

-----------------------------------------------------------------------------
(* What is written.                                                         *)

Number == Int \cup {Null}

Hour == 0 .. 23

\* Neither numbers nor instants: values that are hours of a day or tokens.
Small(t) == ~IsNumeric(t) /\ ~IsFloat(t) /\ ~(IsZoned(t) /\ t.name # "TIME")

\* The facts about objects that keep Object and PyNone out of the proofs below.
LEMMA ObjectFields ==
    ASSUME NEW class, NEW val, NEW zone
    PROVE  /\ Object(class, val, zone).class = class
           /\ Object(class, val, zone).val = val
           /\ Object(class, val, zone).zone = zone
  BY DEF Object

LEMMA NoneFields == PyNone.class = "NoneType" /\ PyNone.val = Null /\ PyNone.zone = None
  BY DEF PyNone, Object

LEMMA Units == /\ None \notin Zone /\ UTC \in Zone /\ Null \notin Int
               /\ \A zone \in Zone : Offset[zone] \in Int
               /\ Offset[UTC] = 0
  BY ConversionAssumption

\* A number, or anything that is neither a number nor a time of some zone.
LEMMA PlainSent ==
    ASSUME NEW object, object.zone = None, object.class \notin {"time", "NoneType"}
    PROVE  Meaning(object) = object.val /\ ArrowValue(object) = object.val
  <1>1. object # PyNone
    BY NoneFields
  <1>2. InUTC(object) = object.val
    BY Units DEF InUTC
  <1> QED
    BY <1>1, <1>2, Zenon DEF Meaning, ArrowValue

\* What holds of the value that is sent for an object that is written.
Sent(a) ==
    LET bound == bind_processor(a)
    IN  /\ Meaning(a) = ArrowValue(bound) /\ ArrowValue(bound) \in Number
        /\ Small(type) => ArrowValue(bound) \in Hour \cup {Null}
        /\ bound.class = "Decimal" => IsNumeric(type) /\ asdecimal
        /\ IsNumeric(type) /\ asdecimal => bound = PyNone \/ bound.class = "Decimal"

LEMMA NoneSent == Sent(PyNone)
  <1>1. PyNone.class # "Decimal" /\ PyNone.zone = None
    BY NoneFields
  <1>2. bind_processor(PyNone) = PyNone
    <2>1. MonetDBNumeric_bind(PyNone, asdecimal) = PyNone
      BY Zenon DEF MonetDBNumeric_bind
    <2>2. MonetDBFloat_bind(PyNone) = PyNone
      BY <1>1, Zenon DEF MonetDBFloat_bind
    <2>3. MonetDBTime_bind(PyNone) = PyNone
      BY <1>1, Zenon DEF MonetDBTime_bind
    <2> QED
      BY <2>1, <2>2, <2>3, Zenon DEF bind_processor
  <1>3. Meaning(PyNone) = Null /\ ArrowValue(PyNone) = Null
    <2>1. PyNone.class # "time"
      BY NoneFields
    <2> QED
      BY <2>1, Zenon DEF Meaning, ArrowValue
  <1> QED
    BY <1>1, <1>2, <1>3 DEF Sent, Number

LEMMA NumberSent ==
    ASSUME asdecimal \in BOOLEAN, IsNumeric(type) \/ IsFloat(type),
           NEW class \in {"int", "float", "Decimal"}, NEW v \in Amount
    PROVE  Sent(Object(class, v, None))
  <1> DEFINE a == Object(class, v, None)
  <1>1. v \in Number /\ ~Small(type)
    BY ColumnAssumption DEF Number, Small
  <1>2. a.class = class /\ a.val = v /\ a.zone = None /\ a # PyNone
    BY ObjectFields, NoneFields
  <1>3. Meaning(a) = v
    BY <1>2, PlainSent
  <1>4. CASE IsNumeric(type)
    <2> DEFINE b == Object(IF asdecimal THEN "Decimal" ELSE "float", v, None)
    <2>1. bind_processor(a) = MonetDBNumeric_bind(a, asdecimal)
      BY <1>4, Zenon DEF bind_processor, IsNumeric, IsFloat
    <2>2. MonetDBNumeric_bind(a, asdecimal) = b
      BY <1>2 DEF MonetDBNumeric_bind, Object
    <2>3. b.class = (IF asdecimal THEN "Decimal" ELSE "float") /\ b.val = v /\ b.zone = None
      BY ObjectFields
    <2>4. ArrowValue(b) = v
      BY <2>3, PlainSent
    <2> QED
      BY <1>1, <1>3, <1>4, <2>1, <2>2, <2>3, <2>4 DEF Sent
  <1>5. CASE IsFloat(type)
    <2>1. type.name \notin {"NUMERIC", "DECIMAL"} /\ type.name # "TIME"
      BY <1>5 DEF IsFloat
    <2>2. bind_processor(a) = MonetDBFloat_bind(a)
      BY <1>5, <2>1, Zenon DEF bind_processor, IsNumeric
    <2>3. PICK b : b = MonetDBFloat_bind(a)
      OBVIOUS
    <2>4. b.class \in {"int", "float"} /\ b.val = v /\ b.zone = None
      BY <1>2, <2>3 DEF MonetDBFloat_bind, Object
    <2>5. ArrowValue(b) = v
      BY <2>4, PlainSent
    <2>6. ~IsNumeric(type)
      BY <2>1 DEF IsNumeric
    <2> QED
      BY <1>1, <1>3, <2>2, <2>3, <2>4, <2>5, <2>6 DEF Sent
  <1> QED
    BY <1>4, <1>5

LEMMA TimeSent ==
    ASSUME IsZoned(type), type.name = "TIME", NEW v \in Value, NEW zone \in Zone \cup {None}
    PROVE  Sent(Object("time", v, zone))
  <1> DEFINE a == Object("time", v, zone)
  <1>1. v \in Hour /\ v \in Int /\ v % 24 = v
    BY ColumnAssumption DEF Hour
  <1>2. a.class = "time" /\ a.val = v /\ a.zone = zone /\ a # PyNone
    BY ObjectFields, NoneFields
  <1>3. type.timezone /\ ~IsNumeric(type) /\ ~IsFloat(type)
    BY DEF IsZoned, IsNumeric, IsFloat
  <1>4. bind_processor(a) = MonetDBTime_bind(a)
    BY <1>3, Zenon DEF bind_processor
  <1>5. CASE zone = None
    <2>1. MonetDBTime_bind(a) = a
      BY <1>2, <1>5, Zenon DEF MonetDBTime_bind
    <2>2. ArrowValue(a) = v
      BY <1>2, Zenon DEF ArrowValue
    <2>3. Meaning(a) = InUTC(a) % 24
      BY <1>2, Zenon DEF Meaning
    <2>4. InUTC(a) = v
      BY <1>2, <1>5, Units DEF InUTC
    <2> QED
      BY <1>1, <1>2, <1>3, <1>4, <2>1, <2>2, <2>3, <2>4 DEF Sent, Number
  <1>6. CASE zone # None
    <2> DEFINE n == (v - Offset[zone]) % 24
               b == Object("time", n, None)
    <2>1. zone \in Zone /\ Offset[zone] \in Int
      BY <1>6, Units
    <2>2. MonetDBTime_bind(a) = b
      BY <1>2, <1>6, Zenon DEF MonetDBTime_bind
    <2>3. b.class = "time" /\ b.val = n /\ b # PyNone
      BY ObjectFields, NoneFields
    <2>4. ArrowValue(b) = n
      BY <2>3, Zenon DEF ArrowValue
    <2>5. Meaning(a) = InUTC(a) % 24
      BY <1>2, Zenon DEF Meaning
    <2>6. InUTC(a) = v - Offset[zone]
      BY <1>2, <2>1 DEF InUTC
    <2>7. n \in Hour /\ n \in Number
      BY <1>1, <2>1 DEF Hour, Number
    <2> QED
      BY <1>3, <1>4, <2>2, <2>3, <2>4, <2>5, <2>6, <2>7 DEF Sent
  <1> QED
    BY <1>5, <1>6

LEMMA DatetimeSent ==
    ASSUME IsZoned(type), type.name # "TIME", NEW v \in Value, NEW zone \in Zone
    PROVE  Sent(Object("datetime", v, zone))
  <1> DEFINE a == Object("datetime", v, zone)
  <1>1. v \in Int /\ Offset[zone] \in Int
    BY ColumnAssumption, Units
  <1>2. a.class = "datetime" /\ a.val = v /\ a.zone = zone /\ a # PyNone
    BY ObjectFields, NoneFields
  <1>3. ~IsNumeric(type) /\ ~IsFloat(type)
    BY DEF IsZoned, IsNumeric, IsFloat
  <1>4. bind_processor(a) = a
    BY <1>3, Zenon DEF bind_processor
  <1>5. InUTC(a) = v - Offset[zone]
    BY <1>2 DEF InUTC
  <1>6. Meaning(a) = InUTC(a) /\ ArrowValue(a) = InUTC(a)
    BY <1>2, Zenon DEF Meaning, ArrowValue
  <1> QED
    BY <1>1, <1>2, <1>3, <1>4, <1>5, <1>6 DEF Sent, Number, Small

LEMMA OtherSent ==
    ASSUME ~IsNumeric(type), ~IsFloat(type), ~IsZoned(type), NEW v \in Value
    PROVE  Sent(Object("plain", v, None))
  <1> DEFINE a == Object("plain", v, None)
  <1>1. v \in Hour /\ v \in Number
    BY ColumnAssumption DEF Hour, Number
  <1>2. a.class = "plain" /\ a.val = v /\ a.zone = None
    BY ObjectFields
  <1>3. bind_processor(a) = a
    BY Zenon DEF bind_processor, IsZoned
  <1>4. Meaning(a) = v /\ ArrowValue(a) = v
    BY <1>2, PlainSent
  <1> QED
    BY <1>1, <1>2, <1>3, <1>4 DEF Sent

LEMMA WrittenSent ==
    ASSUME asdecimal \in BOOLEAN, NEW a \in Written(type)
    PROVE  Sent(a)
  <1>1. CASE a = PyNone
    BY <1>1, NoneSent
  <1>2. CASE a # PyNone /\ (IsNumeric(type) \/ IsFloat(type))
    <2>1. PICK amounts \in SUBSET Amount : Written(type) = {PyNone} \cup Numbers(amounts)
      <3>1. ~IsZoned(type) /\ ~(IsNumeric(type) /\ IsFloat(type))
        BY <1>2 DEF IsZoned, IsNumeric, IsFloat
      <3>2. CASE IsNumeric(type)
        <4>1. Written(type) = {PyNone} \cup Numbers({v \in Amount : v % Unit(type.scale) = 0})
          BY <3>1, <3>2, SMT DEF Written
        <4> QED
          BY <4>1
      <3>3. CASE IsFloat(type)
        <4>1. Written(type) = {PyNone} \cup Numbers(Amount)
          BY <3>1, <3>3, SMT DEF Written
        <4> QED
          BY <4>1
      <3> QED
        BY <1>2, <3>2, <3>3
    <2>2. a \in Numbers(amounts)
      BY <1>2, <2>1
    <2>3. \E class \in {"int", "float", "Decimal"}, v \in Amount : a = Object(class, v, None)
      BY <2>2 DEF Numbers
    <2> QED
      BY <1>2, <2>3, NumberSent
  <1>3. CASE a # PyNone /\ IsZoned(type) /\ type.name = "TIME"
    <2>1. \E v \in Value, zone \in Zone \cup {None} : a = Object("time", v, zone)
      <3>1. ~IsNumeric(type) /\ ~IsFloat(type)
        BY <1>3 DEF IsZoned, IsNumeric, IsFloat
      <3>2. Written(type) = {PyNone} \cup
                {Object("time", v, zone) : v \in Value, zone \in Zone \cup {None}}
        BY <1>3, <3>1, SMT DEF Written
      <3> QED
        BY <1>3, <3>2
    <2> QED
      BY <1>3, <2>1, TimeSent
  <1>4. CASE a # PyNone /\ IsZoned(type) /\ type.name # "TIME"
    <2>1. \E v \in Value, zone \in Zone : a = Object("datetime", v, zone)
      <3>1. ~IsNumeric(type) /\ ~IsFloat(type)
        BY <1>4 DEF IsZoned, IsNumeric, IsFloat
      <3>2. Written(type) = {PyNone} \cup
                {Object("datetime", v, zone) : v \in Value, zone \in Zone}
        BY <1>4, <3>1, SMT DEF Written
      <3> QED
        BY <1>4, <3>2
    <2> QED
      BY <1>4, <2>1, DatetimeSent
  <1>5. CASE a # PyNone /\ ~IsNumeric(type) /\ ~IsFloat(type) /\ ~IsZoned(type)
    <2>1. \E v \in Value : a = Object("plain", v, None)
      <3>1. Written(type) = {PyNone} \cup {Object("plain", v, None) : v \in Value}
        BY <1>5, SMT DEF Written
      <3> QED
        BY <1>5, <3>1
    <2> QED
      BY <1>5, <2>1, OtherSent
  <1> QED
    BY <1>1, <1>2, <1>3, <1>4, <1>5

-----------------------------------------------------------------------------
(* What is read.                                                            *)

\* An element of batch_to_rows.
Converted(v) ==
    LET object == AsPy(arrow, v)
    IN  IF arrow.huge /\ object # PyNone THEN [object EXCEPT !.class = "int"] ELSE object

Shown(v) == result_processor(Converted(v))

\* An object that reads as the value v should.
Right(object, v) ==
    IF v = Null THEN object = PyNone
    ELSE /\ ReadFor(Meaning(object), v)
         /\ object.class = Promised \/ (IsNumeric(type) /\ Integral(arrow))
         /\ object.zone # None <=> IsZoned(type)

\* The driver's type for the column, or for an expression over it.
Described ==
    /\ arrow \in ArrowType /\ WellFormed(arrow)
    /\ column \in SysColumn /\ Linked(type, column)
    /\ arrow \in ArrowOf(column) \cup IF IsNumeric(type) THEN Computed ELSE {}

LEMMA Classes ==
    \A kind \in Kind : ClassOf(kind) \in {"Decimal", "datetime", "date", "int", "float",
                                         "bool", "string", "time", "other"}
  <1> SUFFICES ASSUME NEW kind \in Kind
               PROVE  ClassOf(kind) \in {"Decimal", "datetime", "date", "int", "float",
                                        "bool", "string", "time", "other"}
    OBVIOUS
  <1> QED
    BY SMT DEF ClassOf, Kind

LEMMA NullShown == Shown(Null) = PyNone
  <1>1. Converted(Null) = PyNone
    BY Zenon DEF Converted, AsPy
  <1>2. PyNone.class \notin {"Decimal", "float"}
    BY NoneFields
  <1>3. MonetDBNumeric_result(PyNone) = PyNone
    BY <1>2, SMT DEF MonetDBNumeric_result
  <1>4. Float_result(PyNone) = PyNone /\ MonetDBTime_result(PyNone) = PyNone
    BY Zenon DEF Float_result, MonetDBTime_result
  <1> QED
    BY <1>1, <1>3, <1>4, Zenon DEF Shown, result_processor

\* The object that arrives for a value, before the type's processor.
LEMMA ConvertedFields ==
    ASSUME Described, NEW v \in Int
    PROVE  /\ Converted(v) # PyNone
           /\ Converted(v) = Object(IF arrow.huge THEN "int" ELSE ClassOf(arrow.kind),
                                   IF arrow.zone = None THEN v ELSE v + Offset[arrow.zone],
                                   arrow.zone)
  <1> DEFINE n == IF arrow.zone = None THEN v ELSE v + Offset[arrow.zone]
             o == Object(ClassOf(arrow.kind), n, arrow.zone)
  <1>1. v # Null /\ ClassOf(arrow.kind) # "NoneType"
    BY Units, Classes DEF Described, ArrowType
  <1>2. AsPy(arrow, v) = o
    BY <1>1, Zenon DEF AsPy
  <1>3. o.class = ClassOf(arrow.kind) /\ o.val = n /\ o.zone = arrow.zone
    BY ObjectFields
  <1>4. o # PyNone
    BY <1>1, <1>3, NoneFields
  <1>5. [o EXCEPT !.class = "int"] = Object("int", n, arrow.zone)
    BY DEF Object
  <1>6. Converted(v) = IF arrow.huge THEN Object("int", n, arrow.zone) ELSE o
    BY <1>2, <1>4, <1>5, Zenon DEF Converted
  <1>7. Object("int", n, arrow.zone) # PyNone
    BY ObjectFields, NoneFields
  <1> HIDE DEF n
  <1> QED
    BY <1>4, <1>6, <1>7, SMT DEF n

LEMMA UnitsOfScales == \A scale : Unit(scale) \in {1, 10, 100, 1000}
  <1> SUFFICES ASSUME NEW scale PROVE Unit(scale) \in {1, 10, 100, 1000}
    OBVIOUS
  <1>1. Unit(scale) = 1 \/ Unit(scale) = 10 \/ Unit(scale) = 100 \/ Unit(scale) = 1000
    BY SMT DEF Unit
  <1> QED
    BY <1>1

\* Rounding moves a number by half of the last digit at most.
LEMMA RoundedNear ==
    ASSUME NEW v \in Int, NEW scale
    PROVE  Rounded(v, Unit(scale)) \in Int /\ Near(Rounded(v, Unit(scale)), v, Unit(scale))
  <1>1. PICK unit : unit = Unit(scale)
    OBVIOUS
  <1>2. unit \in {1, 10, 100, 1000}
    BY <1>1, UnitsOfScales
  <1>3. Rounded(v, unit) \in Int /\ Near(Rounded(v, unit), v, unit)
    <2>1. CASE unit = 1
      BY <2>1 DEF Rounded, Near
    <2>2. CASE unit = 10
      BY <2>2 DEF Rounded, Near
    <2>3. CASE unit = 100
      BY <2>3 DEF Rounded, Near
    <2>4. CASE unit = 1000
      BY <2>4 DEF Rounded, Near
    <2> QED
      BY <1>2, <2>1, <2>2, <2>3, <2>4
  <1> QED
    BY <1>1, <1>3

\* A double is read as it may be.
LEMMA RoundedRead ==
    ASSUME IsNumeric(type), asdecimal, arrow.kind = "float", NEW v \in Int
    PROVE  /\ Rounded(v, Unit(type.scale)) \in Int
           /\ ReadFor(Rounded(v, Unit(type.scale)), v)
  BY RoundedNear, Zenon DEF ReadFor

\* The result processor of NUMERIC, by what arrives.
LEMMA NumericResult ==
    ASSUME NEW v
    PROVE  /\ MonetDBNumeric_result(Object("int", v, None)) = Object("int", v, None)
           /\ arrow.kind = "decimal" =>
                  MonetDBNumeric_result(Object("Decimal", v, None))
                      = Object(IF asdecimal THEN "Decimal" ELSE "float", v, None)
           /\ arrow.kind = "float" =>
                  MonetDBNumeric_result(Object("float", v, None))
                      = IF asdecimal THEN Object("Decimal", Rounded(v, Unit(type.scale)), None)
                        ELSE Object("float", v, None)
  <1> DEFINE Of(class) == Object(class, v, None)
  <1>1. \A class : Of(class).class = class /\ Of(class).val = v /\ Of(class).zone = None
    BY ObjectFields
  <1>2. [Of("Decimal") EXCEPT !.class = "float"] = Of("float")
    BY DEF Object
  <1> HIDE DEF Of
  <1>3. MonetDBNumeric_result(Of("int")) = Of("int")
    <2>1. Of("int").class \notin {"Decimal", "float"}
      BY <1>1
    <2> QED
      BY <2>1, Zenon DEF MonetDBNumeric_result
  <1>4. ASSUME arrow.kind = "decimal"
        PROVE  MonetDBNumeric_result(Of("Decimal")) = Of(IF asdecimal THEN "Decimal" ELSE "float")
    <2>1. Of("Decimal").class = "Decimal" /\ Of("Decimal").class # "float"
          /\ arrow.kind # "float" /\ ~(arrow.kind # "decimal")
      BY <1>1, <1>4
    <2>2. CASE asdecimal
      <3>1. MonetDBNumeric_result(Of("Decimal")) = Of("Decimal")
        BY <2>1, <2>2, Zenon DEF MonetDBNumeric_result
      <3> QED
        BY <2>2, <3>1
    <2>3. CASE ~asdecimal
      <3>1. MonetDBNumeric_result(Of("Decimal")) = [Of("Decimal") EXCEPT !.class = "float"]
        BY <2>1, <2>3, Zenon DEF MonetDBNumeric_result
      <3> QED
        BY <1>2, <2>3, <3>1
    <2> QED
      BY <2>2, <2>3
  <1>5. ASSUME arrow.kind = "float"
        PROVE  MonetDBNumeric_result(Of("float"))
                   = IF asdecimal THEN Object("Decimal", Rounded(v, Unit(type.scale)), None)
                     ELSE Of("float")
    <2>1. Of("float").class = "float" /\ Of("float").class # "Decimal"
          /\ arrow.kind # "decimal" /\ ~(arrow.kind # "float")
      BY <1>1, <1>5
    <2>2. CASE asdecimal
      <3>1. MonetDBNumeric_result(Of("float"))
                = Object("Decimal", Rounded(Of("float").val, Unit(type.scale)), Of("float").zone)
        BY <2>1, <2>2, Zenon DEF MonetDBNumeric_result
      <3> QED
        BY <1>1, <2>2, <3>1
    <2>3. CASE ~asdecimal
      <3>1. MonetDBNumeric_result(Of("float")) = Of("float")
        BY <2>1, <2>3, Zenon DEF MonetDBNumeric_result
      <3> QED
        BY <2>3, <3>1
    <2> QED
      BY <2>2, <2>3
  <1> QED
    BY <1>3, <1>4, <1>5 DEF Of

LEMMA NumericShown ==
    ASSUME Described, IsNumeric(type), asdecimal \in BOOLEAN, NEW v \in Int
    PROVE  Right(Shown(v), v)
  <1>1. /\ arrow.zone = None
        /\ <<arrow.kind, arrow.huge>> \in
               {<<"decimal", FALSE>>, <<"float", FALSE>>, <<"decimal", TRUE>>, <<"int", FALSE>>}
    <2>1. CASE arrow \in Computed
      BY <2>1 DEF Computed
    <2>2. CASE arrow \in ArrowOf(column)
      <3>1. column.type = "decimal"
        BY DEF Described, Linked
      <3>2. ArrowKind("decimal") = "decimal"
        BY SMT DEF ArrowKind
      <3> QED
        BY <2>2, <3>1, <3>2, Units DEF ArrowOf, ArrowType
    <2> QED
      BY <2>1, <2>2 DEF Described
  <1>2. ClassOf("decimal") = "Decimal" /\ ClassOf("float") = "float" /\ ClassOf("int") = "int"
    BY SMT DEF ClassOf
  <1>3. ~IsZoned(type) /\ Promised = IF asdecimal THEN "Decimal" ELSE "float"
    BY Zenon DEF IsNumeric, IsZoned, Promised
  <1>4. Shown(v) = MonetDBNumeric_result(Converted(v))
    <2>1. ~IsFloat(type) /\ type.name # "TIME"
      BY DEF IsNumeric, IsFloat
    <2> QED
      BY <2>1, SMT DEF Shown, result_processor
  <1>5. Converted(v) = Object(IF arrow.huge THEN "int" ELSE ClassOf(arrow.kind), v, None)
    BY <1>1, ConvertedFields
  <1>6. ASSUME NEW class \in {"int", "Decimal", "float"}, NEW w, w # Null,
               Shown(v) = Object(class, w, None), ReadFor(w, v),
               class = Promised \/ Integral(arrow)
        PROVE  Right(Shown(v), v)
    <2>1. Meaning(Shown(v)) = w /\ Shown(v).class = class /\ Shown(v).zone = None
      BY <1>6, ObjectFields, PlainSent
    <2>2. v # Null
      BY Units
    <2> QED
      BY <1>3, <1>6, <2>1, <2>2 DEF Right
  <1>7. CASE arrow.huge \/ arrow.kind = "int"
    <2>1. Shown(v) = Object("int", v, None) /\ Integral(arrow) /\ arrow.kind # "float"
      BY <1>1, <1>2, <1>4, <1>5, <1>7, NumericResult DEF Integral
    <2>2. ReadFor(v, v) /\ v # Null
      BY <2>1, Units, Zenon DEF ReadFor
    <2> QED
      BY <1>6, <2>1, <2>2
  <1>8. CASE ~arrow.huge /\ arrow.kind = "decimal"
    <2>1. Shown(v) = Object(Promised, v, None) /\ Promised \in {"Decimal", "float"}
      BY <1>2, <1>3, <1>4, <1>5, <1>8, NumericResult
    <2>2. arrow.kind # "float"
      BY <1>8
    <2>3. ReadFor(v, v) /\ v # Null
      BY <2>2, Units, Zenon DEF ReadFor
    <2> QED
      BY <1>6, <2>1, <2>3
  <1>9. CASE ~arrow.huge /\ arrow.kind = "float" /\ asdecimal
    <2>1. PICK w : w = Rounded(v, Unit(type.scale))
      OBVIOUS
    <2>2. Shown(v) = Object("Decimal", w, None) /\ Promised = "Decimal"
      BY <1>2, <1>3, <1>4, <1>5, <1>9, <2>1, NumericResult
    <2>3. w \in Int /\ ReadFor(w, v)
      BY <1>9, <2>1, RoundedRead
    <2>4. w # Null
      BY <2>3, Units
    <2> QED
      BY <1>6, <2>2, <2>3, <2>4
  <1>10. CASE ~arrow.huge /\ arrow.kind = "float" /\ ~asdecimal
    <2>1. Shown(v) = Object("float", v, None) /\ Promised = "float"
      BY <1>2, <1>3, <1>4, <1>5, <1>10, NumericResult
    <2>2. ReadFor(v, v) /\ v # Null
      BY <1>10, Units, Zenon DEF ReadFor
    <2> QED
      BY <1>6, <2>1, <2>2
  <1> QED
    BY <1>1, <1>7, <1>8, <1>9, <1>10

\* The types whose values are read exactly, whatever they are.
LEMMA ReadExactly ==
    ASSUME ~IsNumeric(type), NEW v
    PROVE  ReadFor(v, v)
  BY Zenon DEF ReadFor

\* Outside NUMERIC a result is a column, and its type is the column's.
LEMMA ColumnArrow ==
    ASSUME Described, ~IsNumeric(type)
    PROVE  /\ arrow.kind = ArrowKind(column.type)
           /\ arrow.huge <=> column.type = "hugeint"
           /\ arrow.zone # None <=> column.type = "timestamptz"
           /\ arrow.zone \in Zone \cup {None}
           /\ arrow.kind = "timestamp" <=> column.type \in {"timestamp", "timestamptz"}
           /\ arrow.kind = "time" <=> column.type \in {"time", "timetz"}
           /\ column.type \in {"double", "real"} => arrow.kind = "float"
  <1>1. arrow \in ArrowOf(column)
    BY DEF Described
  <1>2. /\ arrow.kind = ArrowKind(column.type)
        /\ arrow.huge <=> column.type = "hugeint"
        /\ arrow.zone # None <=> column.type = "timestamptz"
        /\ arrow.zone \in Zone \cup {None}
    BY <1>1 DEF ArrowOf, ArrowType
  <1>3. PICK name : name = column.type
    OBVIOUS
  <1>4. /\ ArrowKind(name) = "timestamp" <=> name \in {"timestamp", "timestamptz"}
        /\ ArrowKind(name) = "time" <=> name \in {"time", "timetz"}
        /\ name \in {"double", "real"} => ArrowKind(name) = "float"
    BY SMT DEF ArrowKind
  <1> QED
    BY <1>2, <1>3, <1>4

LEMMA FloatShown ==
    ASSUME Described, IsFloat(type), NEW v \in Int
    PROVE  Right(Shown(v), v)
  <1>1. ~IsNumeric(type) /\ ~IsZoned(type) /\ type.name # "TIME"
    BY DEF IsNumeric, IsFloat, IsZoned
  <1>2. column.type \in {"double", "real"}
    BY DEF Described, Linked
  <1>3. arrow.kind = "float" /\ arrow.zone = None /\ ~arrow.huge
    BY <1>1, <1>2, ColumnArrow
  <1>4. ClassOf("float") = "float"
    BY SMT DEF ClassOf
  <1>5. Converted(v) = Object("float", v, None) /\ Converted(v) # PyNone
    BY <1>3, <1>4, ConvertedFields
  <1>6. Shown(v) = Float_result(Converted(v))
    BY <1>1, SMT DEF Shown, result_processor
  <1>7. Shown(v) = Object("float", v, None)
    BY <1>5, <1>6 DEF Float_result, Object
  <1>8. Promised = "float"
    BY <1>1, <1>3, <1>4, SMT DEF Promised
  <1>9. Meaning(Object("float", v, None)) = v
    BY ObjectFields, PlainSent
  <1> QED
    BY <1>1, <1>7, <1>8, <1>9, ObjectFields, Units, ReadExactly DEF Right

LEMMA TimeShown ==
    ASSUME Described, IsZoned(type), type.name = "TIME", NEW v \in Hour
    PROVE  Right(Shown(v), v)
  <1>1. ~IsNumeric(type) /\ ~IsFloat(type) /\ type.timezone
    BY DEF IsNumeric, IsFloat, IsZoned
  <1>2. column.type = "timetz"
    BY DEF Described, Linked
  <1>3. arrow.kind = "time" /\ arrow.zone = None /\ ~arrow.huge
    BY <1>1, <1>2, ColumnArrow
  <1>4. ClassOf("time") = "time" /\ v \in Int /\ v % 24 = v
    BY SMT DEF ClassOf, Hour
  <1>5. Converted(v) = Object("time", v, None) /\ Converted(v) # PyNone
    BY <1>3, <1>4, ConvertedFields
  <1>6. Shown(v) = MonetDBTime_result(Converted(v))
    BY <1>1, SMT DEF Shown, result_processor
  <1>7. Shown(v) = Object("time", v, UTC)
    BY <1>5, <1>6 DEF MonetDBTime_result, Object
  <1>8. Promised = "time"
    BY <1>1, <1>3, <1>4, SMT DEF Promised
  <1>9. Meaning(Object("time", v, UTC)) = v
    <2> DEFINE o == Object("time", v, UTC)
    <2>1. o.class = "time" /\ o.val = v /\ o.zone = UTC /\ o # PyNone
      BY ObjectFields, NoneFields
    <2>2. InUTC(o) = v
      BY <1>4, <2>1, Units DEF InUTC
    <2>3. Meaning(o) = InUTC(o) % 24
      BY <2>1, Zenon DEF Meaning
    <2> QED
      BY <1>4, <2>2, <2>3
  <1> QED
    BY <1>1, <1>4, <1>7, <1>8, <1>9, ObjectFields, Units, ReadExactly DEF Right

LEMMA InstantShown ==
    ASSUME Described, IsZoned(type), type.name # "TIME", NEW v \in Int
    PROVE  Right(Shown(v), v)
  <1>1. ~IsNumeric(type) /\ ~IsFloat(type)
    BY DEF IsNumeric, IsFloat, IsZoned
  <1>2. column.type = "timestamptz"
    BY DEF Described, Linked
  <1>3. /\ arrow.kind = "timestamp" /\ arrow.zone \in Zone /\ arrow.zone # None /\ ~arrow.huge
        /\ Offset[arrow.zone] \in Int
    BY <1>1, <1>2, ColumnArrow, Units
  <1>4. ClassOf("timestamp") = "datetime"
    BY SMT DEF ClassOf
  <1> DEFINE o == Object("datetime", v + Offset[arrow.zone], arrow.zone)
  <1>5. Converted(v) = o /\ o # PyNone
    BY <1>3, <1>4, ConvertedFields
  <1>6. Shown(v) = o
    BY <1>1, <1>5, SMT DEF Shown, result_processor
  <1>7. Promised = "datetime"
    BY <1>1, <1>3, <1>4, SMT DEF Promised
  <1>8. o.class = "datetime" /\ o.val = v + Offset[arrow.zone] /\ o.zone = arrow.zone
    BY ObjectFields
  <1> HIDE DEF o
  <1>9. Meaning(o) = v
    <2>1. InUTC(o) = v
      BY <1>3, <1>8 DEF InUTC
    <2>2. Meaning(o) = InUTC(o)
      BY <1>5, <1>8, Zenon DEF Meaning
    <2> QED
      BY <2>1, <2>2
  <1> QED
    BY <1>1, <1>3, <1>6, <1>7, <1>8, <1>9, Units, ReadExactly DEF Right

LEMMA OtherShown ==
    ASSUME Described, ~IsNumeric(type), ~IsFloat(type), ~IsZoned(type), NEW v \in Hour
    PROVE  Right(Shown(v), v)
  <1>1. column.type # "timestamptz" /\ v \in Int /\ v % 24 = v
    BY DEF Described, Linked, Hour
  <1>2. arrow.zone = None /\ arrow.kind \in Kind
    BY <1>1, ColumnArrow DEF Described, ArrowType
  <1> DEFINE class == IF arrow.huge THEN "int" ELSE ClassOf(arrow.kind)
             o == Object(class, v, None)
  <1>3. Converted(v) = o /\ o # PyNone
    BY <1>1, <1>2, ConvertedFields
  <1>4. Shown(v) = o
    <2>1. ~(type.name = "TIME" /\ type.timezone)
      BY DEF IsZoned
    <2> QED
      BY <1>3, <2>1, SMT DEF Shown, result_processor
  <1>5. Promised = class
    BY SMT DEF Promised
  <1>6. o.class = class /\ o.val = v /\ o.zone = None /\ class # "NoneType"
    BY <1>2, Classes, ObjectFields
  <1> HIDE DEF o, class
  <1>7. Meaning(o) = v
    <2>1. CASE class = "time"
      <3>1. InUTC(o) = v
        BY <1>6, Units DEF InUTC
      <3>2. Meaning(o) = InUTC(o) % 24
        BY <1>3, <1>6, <2>1, Zenon DEF Meaning
      <3> QED
        BY <1>1, <3>1, <3>2
    <2>2. CASE class # "time"
      BY <1>6, <2>2, PlainSent
    <2> QED
      BY <2>1, <2>2
  <1> QED
    BY <1>1, <1>4, <1>5, <1>6, <1>7, Units, ReadExactly DEF Right

LEMMA ValueShown ==
    ASSUME Described, asdecimal \in BOOLEAN, NEW v \in Number,
           Small(type) => v \in Hour \cup {Null}
    PROVE  Right(Shown(v), v)
  <1>1. CASE v = Null
    BY <1>1, NullShown, Zenon DEF Right
  <1>2. CASE v # Null /\ IsNumeric(type)
    BY <1>2, NumericShown DEF Number
  <1>3. CASE v # Null /\ IsFloat(type)
    BY <1>3, FloatShown DEF Number
  <1>4. CASE v # Null /\ IsZoned(type) /\ type.name # "TIME"
    BY <1>4, InstantShown DEF Number
  <1>5. CASE v # Null /\ Small(type) /\ IsZoned(type)
    BY <1>5, TimeShown DEF Small
  <1>6. CASE v # Null /\ Small(type) /\ ~IsZoned(type)
    BY <1>6, OtherShown DEF Small
  <1> QED
    BY <1>1, <1>2, <1>3, <1>4, <1>5, <1>6 DEF Small

-----------------------------------------------------------------------------
(* The invariant.                                                           *)

\* What has been read are the first rows, each as its value is shown.
FirstShown(n) == read = [i \in 1 .. n |-> Shown(Plus(rows[i], term))]

\* The columns of the small types, by name.
SmallColumn == column.type \notin {"decimal", "double", "real", "timestamptz"}

IInv ==
    /\ TypeOK /\ ~refused
    /\ given = rows /\ rows \in Seq(Number)
    /\ column = None => rows = <<>> /\ arrow = None
    /\ column # None => Linked(type, column)
    /\ arrow # None => Described
    /\ arrow = None => read = <<>>
    /\ column # None /\ SmallColumn => \A i \in 1 .. Len(rows) : rows[i] \in Hour \cup {Null}
    /\ ~IsNumeric(type) => term = 0
    /\ \E n \in 0 .. Len(rows) : FirstShown(n)

LEMMA Initially == Init => IInv
  <1> SUFFICES ASSUME Init PROVE IInv
    OBVIOUS
  <1>1. TypeOK
    <2>1. /\ column = None /\ copy = None /\ arrow = None
          /\ given = <<>> /\ rows = <<>> /\ read = <<>>
          /\ declared = FALSE /\ asdecimal = TRUE /\ refused = FALSE /\ term = 0
      BY DEF Init
    <2>2. Len(given) = 0 /\ Len(rows) = 0 /\ Len(read) = 0
      BY <2>1
    <2>3. 0 <= MaxRows
      BY ColumnAssumption
    <2>4. declared \in BOOLEAN /\ asdecimal \in BOOLEAN /\ refused \in BOOLEAN /\ term \in Term
      BY <2>1, ColumnAssumption
    <2>5. Len(given) = Len(rows) /\ Len(rows) <= MaxRows /\ Len(read) <= Len(rows)
      BY <2>2, <2>3
    <2> QED
      BY <2>1, <2>4, <2>5, Zenon DEF TypeOK
  <1>2. FirstShown(0) /\ 0 \in 0 .. Len(rows)
    BY DEF Init, FirstShown
  <1>3. <<>> \in Seq(Number)
    BY EmptySeq
  <1> QED
    BY <1>1, <1>2, <1>3 DEF Init, IInv

\* No row yet, and no result.
LEMMA Empty ==
    ASSUME rows = <<>>, read = <<>>
    PROVE  FirstShown(0) /\ 0 \in 0 .. Len(rows)
  BY DEF FirstShown

LEMMA Defining ==
    ASSUME IInv, NEW t \in Declared, Define(t)
    PROVE  IInv'
  <1>1. Given(t)
    BY ColumnAssumption DEF Given
  <1>2. /\ column' \in SysColumn /\ Linked(t, column') /\ type' = t
        /\ rows = <<>> /\ rows' = rows /\ given' = given /\ refused' = refused
        /\ arrow' = None /\ term' = 0 /\ read' = <<>> /\ declared' = TRUE /\ copy' = None
        /\ asdecimal' \in BOOLEAN
    BY <1>1, Stored DEF Define, NoResult
  <1>3. TypeOK'
    BY <1>2, ColumnAssumption DEF IInv, TypeOK
  <1>4. FirstShown(0)' /\ 0 \in 0 .. Len(rows')
    BY <1>2 DEF FirstShown
  <1>5. Linked(type, column)'
    BY <1>2
  <1>6. Len(rows') = 0
    BY <1>2
  <1> QED
    BY <1>2, <1>3, <1>4, <1>5, <1>6 DEF IInv

LEMMA Reflecting ==
    ASSUME IInv, NEW row \in Foreign \cup ({column} \ {None}), Reflect(row)
    PROVE  IInv'
  <1>1. row \in SysColumn
    BY ColumnAssumption DEF SysColumn, IInv, TypeOK
  <1>2. /\ column' = row /\ (column = None \/ column = row) /\ type' = resolve_type(row)
        /\ asdecimal' = TRUE /\ arrow' = None /\ term' = 0 /\ read' = <<>>
        /\ UNCHANGED <<declared, copy, given, rows, refused>>
    BY DEF Reflect, NoResult
  <1>3. Linked(type, column)'
    BY <1>1, <1>2, Resolved
  <1>4. TypeOK'
    BY <1>1, <1>2, ColumnAssumption DEF IInv, TypeOK
  <1>5. FirstShown(0)' /\ 0 \in 0 .. Len(rows')
    <2>1. Len(rows') \in Nat
      BY <1>2 DEF IInv
    <2> QED
      BY <1>2, <2>1 DEF FirstShown
  <1>6. column' # None /\ SmallColumn' =>
            \A i \in 1 .. Len(rows') : rows'[i] \in Hour \cup {Null}
    <2>1. CASE column = None
      BY <1>2, <2>1 DEF IInv
    <2>2. CASE column = row
      BY <1>2, <2>2 DEF IInv, SmallColumn
    <2> QED
      BY <1>2, <2>1, <2>2
  <1>7. column' = None => rows' = <<>>
    BY <1>2 DEF IInv
  <1> QED
    BY <1>2, <1>3, <1>4, <1>5, <1>6, <1>7 DEF IInv

\* The parts of the invariant beside the type, where nothing of them changes.
LEMMA ShownKept ==
    ASSUME UNCHANGED <<type, asdecimal, arrow>>, NEW v
    PROVE  Shown(v)' = Shown(v)
  BY Zenon DEF Shown, Converted, result_processor, MonetDBNumeric_result,
               MonetDBTime_result, Float_result, IsNumeric, IsFloat

LEMMA Unmoved ==
    ASSUME IInv, TypeOK',
           UNCHANGED <<column, type, asdecimal, given, rows, refused, arrow, term, read>>
    PROVE  IInv'
  <1>1. Linked(type, column)' <=> Linked(type, column)
    OBVIOUS
  <1>2. Described' <=> Described
    BY DEF Described
  <1>3. PICK n \in 0 .. Len(rows) : FirstShown(n)
    BY DEF IInv
  <1>4. FirstShown(n)'
    <2>1. \A i \in 1 .. n : Shown(Plus(rows[i], term))' = Shown(Plus(rows[i], term))
      BY ShownKept DEF Plus
    <2> QED
      BY <1>3, <2>1 DEF FirstShown
  <1>5. n \in 0 .. Len(rows')
    BY <1>3
  <1> QED
    BY <1>1, <1>2, <1>4, <1>5 DEF IInv, SmallColumn

LEMMA Copying == ASSUME IInv, CreateCopy PROVE IInv'
  <1>1. column \in SysColumn
    BY DEF IInv, TypeOK, CreateCopy
  <1>2. Given(resolve_type(column))
    BY <1>1, Resolved
  <1>3. copy' \in SysColumn
    BY <1>2, Stored DEF CreateCopy
  <1>4. TypeOK'
    BY <1>3 DEF IInv, TypeOK, CreateCopy
  <1> QED
    BY <1>4, Unmoved DEF CreateCopy

\* PyArrow builds the array of what the processor makes of any objects written.
LEMMA Built ==
    ASSUME NEW n \in Nat, NEW objects \in [1 .. n -> Written(type)],
           \A i \in 1 .. n : Sent(objects[i])
    PROVE  Buildable([i \in 1 .. n |-> bind_processor(objects[i])])
  <1> DEFINE bound == [i \in 1 .. n |-> bind_processor(objects[i])]
             numbers == {bound[i].class : i \in {j \in DOMAIN bound : bound[j] # PyNone}}
  <1>1. SUFFICES ASSUME "Decimal" \in numbers PROVE numbers = {"Decimal"}
    BY Zenon DEF Buildable
  <1>2. \A i \in 1 .. n :
            /\ bound[i].class = "Decimal" => IsNumeric(type) /\ asdecimal
            /\ IsNumeric(type) /\ asdecimal => bound[i] = PyNone \/ bound[i].class = "Decimal"
    BY DEF Sent
  <1>3. DOMAIN bound = 1 .. n
    OBVIOUS
  <1> HIDE DEF bound
  <1>4. IsNumeric(type) /\ asdecimal
    BY <1>1, <1>2, <1>3
  <1> QED
    BY <1>1, <1>2, <1>3, <1>4

LEMMA Inserting ==
    ASSUME IInv, NEW n \in Nat, NEW objects \in [1 .. n -> Written(type)], Insert(objects)
    PROVE  IInv'
  <1> DEFINE bound == [i \in DOMAIN objects |-> bind_processor(objects[i])]
             sent == [i \in 1 .. n |-> ArrowValue(bound[i])]
             meant == [i \in 1 .. n |-> Meaning(objects[i])]
  <1>1. DOMAIN objects = 1 .. n /\ \A i \in 1 .. n : objects[i] \in Written(type)
    OBVIOUS
  <1>2. \A i \in 1 .. n : Sent(objects[i])
    BY <1>1, WrittenSent DEF IInv, TypeOK
  <1>3. Buildable(bound) /\ DOMAIN bound = 1 .. n
    BY <1>1, <1>2, Built
  <1>4. \A i \in 1 .. n : bound[i] = bind_processor(objects[i])
    BY <1>1
  <1>5. /\ column # None /\ arrow = None /\ Len(rows) + n <= MaxRows /\ refused' = FALSE
        /\ given' = given \o meant /\ rows' = rows \o sent
        /\ UNCHANGED <<column, declared, type, asdecimal, copy, arrow, term, read>>
    <2>1. Len(objects) = n
      BY <1>1
    <2>2. Insert(objects)!1
      BY DEF Insert
    <2> QED
      BY <1>1, <1>3, <2>1 DEF Insert
  <1> HIDE DEF bound
  <1>6. meant = sent /\ sent \in Seq(Number) /\ Len(sent) = n
    <2>1. \A i \in 1 .. n : meant[i] = sent[i] /\ sent[i] \in Number
      BY <1>2, <1>4 DEF Sent
    <2> QED
      BY <2>1
  <1>7. Small(type) => \A i \in 1 .. n : sent[i] \in Hour \cup {Null}
    BY <1>2, <1>4 DEF Sent
  <1> HIDE DEF sent, meant
  <1>8. /\ given' = rows' /\ rows' \in Seq(Number) /\ Len(rows') = Len(rows) + n
        /\ \A i \in 1 .. Len(rows) : rows'[i] = rows[i]
        /\ \A i \in Len(rows) + 1 .. Len(rows) + n : rows'[i] = sent[i - Len(rows)]
    <2>1. rows \in Seq(Number) /\ given = rows /\ Len(rows) \in Nat
      BY DEF IInv
    <2>2. /\ rows \o sent \in Seq(Number) /\ Len(rows \o sent) = Len(rows) + n
          /\ \A i \in 1 .. Len(rows) + n :
                 (rows \o sent)[i] = IF i <= Len(rows) THEN rows[i] ELSE sent[i - Len(rows)]
      BY <1>6, <2>1, ConcatProperties
    <2>3. PICK joined : joined = rows \o sent
      OBVIOUS
    <2>4. given' = joined /\ rows' = joined
      BY <1>5, <1>6, <2>1, <2>3
    <2>5. /\ joined \in Seq(Number) /\ Len(joined) = Len(rows) + n
          /\ \A i \in 1 .. Len(rows) + n :
                 joined[i] = IF i <= Len(rows) THEN rows[i] ELSE sent[i - Len(rows)]
      BY <2>2, <2>3
    <2>6. \A i \in 1 .. Len(rows) : joined[i] = rows[i]
      BY <2>1, <2>5
    <2>7. \A i \in Len(rows) + 1 .. Len(rows) + n : joined[i] = sent[i - Len(rows)]
      BY <2>1, <2>5
    <2> QED
      BY <2>4, <2>5, <2>6, <2>7
  <1>9. TypeOK'
    <2>1. /\ Len(given') = Len(rows') /\ Len(rows') <= MaxRows
          /\ Len(read') = 0 /\ Len(rows') \in Nat
      <3>1. read' = <<>>
        BY <1>5 DEF IInv
      <3>2. Len(rows) \in Nat
        BY DEF IInv
      <3> QED
        BY <1>5, <1>8, <3>1, <3>2
    <2>2. Len(read') <= Len(rows')
      BY <2>1
    <2> QED
      BY <1>5, <2>1, <2>2 DEF IInv, TypeOK
  <1>10. read' = <<>> /\ arrow' = None
    BY <1>5 DEF IInv
  <1>11. FirstShown(0)' /\ 0 \in 0 .. Len(rows')
    BY <1>8, <1>10 DEF FirstShown
  <1>12. Linked(type, column)' /\ Linked(type, column)
    BY <1>5 DEF IInv
  <1>13. SmallColumn' =>
             \A i \in 1 .. Len(rows') : rows'[i] \in Hour \cup {Null}
    <2> SUFFICES ASSUME SmallColumn, NEW i \in 1 .. Len(rows) + n
                 PROVE  rows'[i] \in Hour \cup {Null}
      BY <1>5, <1>8 DEF SmallColumn
    <2>1. CASE i \in 1 .. Len(rows)
      BY <1>5, <1>8, <2>1 DEF IInv
    <2>2. CASE i \in Len(rows) + 1 .. Len(rows) + n
      <3>1. Small(type)
        BY <1>12 DEF Linked, Small, SmallColumn
      <3>2. i - Len(rows) \in 1 .. n
        BY <2>2 DEF IInv
      <3> QED
        BY <1>7, <1>8, <2>2, <3>1, <3>2
    <2>3. i \in 1 .. Len(rows) \/ i \in Len(rows) + 1 .. Len(rows) + n
      BY DEF IInv
    <2> QED
      BY <2>1, <2>2, <2>3
  <1> QED
    BY <1>5, <1>8, <1>9, <1>10, <1>11, <1>12, <1>13 DEF IInv

LEMMA Selecting == ASSUME IInv, Select PROVE IInv'
  <1>1. /\ column # None /\ read' = <<>>
        /\ term' \in IF IsNumeric(type) THEN Term ELSE {0}
        /\ arrow' \in ArrowOf(column) \cup IF IsNumeric(type) THEN Computed ELSE {}
        /\ UNCHANGED <<column, declared, type, asdecimal, copy, given, rows, refused>>
    BY Zenon DEF Select
  <1>2. column \in SysColumn /\ Linked(type, column)
    BY <1>1 DEF IInv, TypeOK
  <1>3. arrow' \in ArrowType /\ WellFormed(arrow')
    <2>1. PICK a : a = arrow'
      OBVIOUS
    <2>2. CASE a \in Computed
      BY <2>1, <2>2 DEF Computed, WellFormed
    <2>3. CASE a \in ArrowOf(column)
      <3>1. ArrowKind("timestamptz") = "timestamp"
        BY SMT DEF ArrowKind
      <3> QED
        BY <2>1, <2>3, <3>1 DEF ArrowOf, WellFormed
    <2> QED
      BY <1>1, <2>1, <2>2, <2>3
  <1>4. Described'
    BY <1>1, <1>2, <1>3 DEF Described
  <1>5. TypeOK'
    <2>1. Len(read') = 0 /\ Len(rows') \in Nat
      BY <1>1 DEF IInv
    <2> QED
      BY <1>1, <1>3, <2>1, ColumnAssumption DEF IInv, TypeOK
  <1>6. FirstShown(0)' /\ 0 \in 0 .. Len(rows')
    <2>1. Len(rows') \in Nat
      BY <1>1 DEF IInv
    <2> QED
      BY <1>1, <2>1 DEF FirstShown
  <1>7. Linked(type, column)'
    BY <1>1, <1>2
  <1> QED
    BY <1>1, <1>4, <1>5, <1>6, <1>7 DEF IInv, SmallColumn

\* What a batch adds to the values shown.
LEMMA Appended ==
    ASSUME NEW f, NEW m \in Nat, NEW n \in Nat
    PROVE  [i \in 1 .. m |-> f[i]] \o [i \in 1 .. n |-> f[m + i]] = [i \in 1 .. m + n |-> f[i]]
  OBVIOUS

LEMMA Fetching == ASSUME IInv, NEW n \in 1 .. MaxRows, Fetch(n) PROVE IInv'
  <1>1. PICK m \in 0 .. Len(rows) : FirstShown(m)
    BY DEF IInv
  <1>2. Len(read) = m /\ m \in Nat /\ n \in Nat /\ rows \in Seq(Number) /\ Len(rows) \in Nat
    BY <1>1, ColumnAssumption DEF FirstShown, IInv
  <1> DEFINE batch == [i \in 1 .. n |-> Plus(rows[m + i], term)]
             objects == batch_to_rows(arrow, batch)
  <1>3. /\ arrow # None /\ m + n <= Len(rows)
        /\ read' = read \o [i \in DOMAIN objects |-> result_processor(objects[i])]
        /\ UNCHANGED <<column, declared, type, asdecimal, copy, given, rows, refused, arrow, term>>
    BY <1>2 DEF Fetch
  <1>4. batch \in Values(n) /\ \A i \in 1 .. n : batch[i] = Plus(rows[m + i], term)
    <2>1. ASSUME NEW i \in 1 .. n PROVE Plus(rows[m + i], term) \in Number
      <3>1. m + i \in 1 .. Len(rows)
        BY <1>2, <1>3
      <3>2. rows[m + i] \in Number
        BY <1>2, <3>1, ElementOfSeq
      <3>3. term \in Int
        BY ColumnAssumption DEF IInv, TypeOK
      <3> QED
        BY <3>2, <3>3 DEF Plus, Number
    <2> QED
      BY <2>1 DEF Values, Number
  <1> HIDE DEF batch
  <1>5. Described
    BY <1>3 DEF IInv
  <1>6. DOMAIN objects = 1 .. n /\ \A i \in 1 .. n : objects[i] = Converted(Plus(rows[m + i], term))
    <2>1. DOMAIN batch = 1 .. n
      BY <1>4 DEF Values
    <2>2. column_to_pylist(arrow, batch) = to_pylist(arrow, batch)
      BY <1>2, <1>4, <1>5, ConversionExact DEF Described
    <2>3. \A i \in 1 .. n : column_to_pylist(arrow, batch)[i] = AsPy(arrow, batch[i])
      BY <2>1, <2>2 DEF to_pylist
    <2>4. DOMAIN objects = 1 .. n
      BY <2>1 DEF batch_to_rows
    <2>5. ASSUME NEW i \in 1 .. n PROVE objects[i] = Converted(batch[i])
      BY <2>1, <2>3, Zenon DEF batch_to_rows, Converted
    <2> QED
      BY <1>4, <2>4, <2>5
  <1> HIDE DEF objects
  <1> DEFINE shown == [i \in 1 .. Len(rows) |-> Shown(Plus(rows[i], term))]
  <1>7. read' = [i \in 1 .. m + n |-> Shown(Plus(rows[i], term))]
    <2>1. read = [i \in 1 .. m |-> shown[i]]
      BY <1>1, <1>2 DEF FirstShown
    <2>2. [i \in DOMAIN objects |-> result_processor(objects[i])] = [i \in 1 .. n |-> shown[m + i]]
      <3>1. \A i \in 1 .. n : shown[m + i] = Shown(Plus(rows[m + i], term))
        BY <1>2, <1>3
      <3>2. \A i \in 1 .. n : result_processor(objects[i]) = shown[m + i]
        BY <1>6, <3>1 DEF Shown
      <3> HIDE DEF shown
      <3> QED
        BY <1>6, <3>2
    <2>3. \A i \in 1 .. m + n : shown[i] = Shown(Plus(rows[i], term))
      BY <1>2, <1>3
    <2> HIDE DEF shown
    <2>4. [i \in 1 .. m |-> shown[i]] \o [i \in 1 .. n |-> shown[m + i]]
              = [i \in 1 .. m + n |-> shown[i]]
      BY <1>2, Appended
    <2>5. read' = [i \in 1 .. m + n |-> shown[i]]
      BY <1>3, <2>1, <2>2, <2>4, Zenon
    <2> QED
      BY <2>3, <2>5
  <1>8. FirstShown(m + n)'
    <2>1. \A i \in 1 .. m + n : Shown(Plus(rows[i], term))' = Shown(Plus(rows[i], term))
      BY <1>3, ShownKept DEF Plus
    <2> QED
      BY <1>3, <1>7, <2>1 DEF FirstShown
  <1>9. m + n \in 0 .. Len(rows') /\ Len(read') = m + n
    BY <1>2, <1>3, <1>7
  <1>10. TypeOK'
    BY <1>3, <1>9 DEF IInv, TypeOK
  <1>11. Described' /\ Linked(type, column)'
    BY <1>3, <1>5 DEF Described
  <1> QED
    BY <1>3, <1>8, <1>9, <1>10, <1>11 DEF IInv, SmallColumn

LEMMA Inductive == IInv /\ [Next]_vars => IInv'
  <1> SUFFICES ASSUME IInv, [Next]_vars PROVE IInv'
    OBVIOUS
  <1>1. ASSUME NEW t \in Declared, Create(t) \/ _monetdb_column_type(t) PROVE IInv'
    BY <1>1, Defining DEF Create, _monetdb_column_type
  <1>2. ASSUME NEW row \in Foreign \cup ({column} \ {None}), Reflect(row) PROVE IInv'
    BY <1>2, Reflecting
  <1>3. CASE CreateCopy
    BY <1>3, Copying
  <1>4. ASSUME NEW a \in Written(type), NEW b \in Written(type),
               Insert(<<a>>) \/ Insert(<<a, b>>)
        PROVE  IInv'
    <2>1. <<a>> \in [1 .. 1 -> Written(type)] /\ <<a, b>> \in [1 .. 2 -> Written(type)]
      OBVIOUS
    <2>2. CASE Insert(<<a>>)
      BY <2>1, <2>2, Inserting
    <2>3. CASE Insert(<<a, b>>)
      BY <2>1, <2>3, Inserting
    <2> QED
      BY <1>4, <2>2, <2>3
  <1>5. CASE Select
    BY <1>5, Selecting
  <1>6. ASSUME NEW n \in 1 .. MaxRows, Fetch(n) PROVE IInv'
    BY <1>6, Fetching
  <1>7. CASE UNCHANGED vars
    <2>1. TypeOK'
      BY <1>7 DEF IInv, TypeOK, vars
    <2> QED
      BY <1>7, <2>1, Unmoved DEF vars
  <1> QED
    BY <1>1, <1>2, <1>3, <1>4, <1>5, <1>6, <1>7, Zenon DEF Next

LEMMA Invariance == Spec => []IInv
  BY Initially, Inductive, PTL DEF Spec

-----------------------------------------------------------------------------
\* TypeOK, for any types, values and number of rows.
THEOREM TypeCorrect == Spec => []TypeOK
  <1>1. IInv => TypeOK
    BY DEF IInv
  <1> QED
    BY <1>1, Invariance, PTL

\* Every executemany() of numbers builds its array: the processors of NUMERIC
\* and FLOAT leave no Decimal beside another class.
THEOREM NumbersAccepted == Spec => []MixedNumbersAccepted
  <1>1. IInv => MixedNumbersAccepted
    BY DEF IInv, MixedNumbersAccepted
  <1> QED
    BY <1>1, Invariance, PTL

\* What is read is what was written, or what the query made of it to the digits
\* that a double is read with: for any declared and foreign types, numbers, hours
\* and zones, batches of any size, and any number of rows.
THEOREM ReadRight == Spec => []ReadAsWritten
  <1>1. IInv => ReadAsWritten
    <2> SUFFICES ASSUME IInv, NEW i \in DOMAIN read
                 PROVE  IF given[i] = Null THEN read[i] = PyNone
                        ELSE /\ ReadFor(Meaning(read[i]), given[i] + term)
                             /\ read[i].class = Promised \/ (IsNumeric(type) /\ Integral(arrow))
                             /\ read[i].zone # None <=> IsZoned(type)
      BY Zenon DEF ReadAsWritten
    <2>1. PICK n \in 0 .. Len(rows) : FirstShown(n)
      BY DEF IInv
    <2>2. DOMAIN read = 1 .. n /\ rows \in Seq(Number) /\ Len(rows) \in Nat
      BY <2>1 DEF FirstShown, IInv
    <2> DEFINE v == Plus(rows[i], term)
    <2>3. i \in 1 .. Len(rows) /\ read[i] = Shown(v) /\ rows[i] \in Number
      BY <2>1, <2>2 DEF FirstShown
    <2>4. arrow # None
      BY <2>2, <2>3 DEF IInv
    <2>5. /\ Described /\ column # None /\ asdecimal \in BOOLEAN /\ given = rows
          /\ term \in Int /\ (~IsNumeric(type) => term = 0)
      BY <2>4, ColumnAssumption DEF IInv, TypeOK
    <2>6. v \in Number /\ (v = Null <=> rows[i] = Null) /\ (rows[i] # Null => v = rows[i] + term)
      BY <2>3, <2>5, Units DEF Plus, Number
    <2> HIDE DEF v
    <2>7. Small(type) => v \in Hour \cup {Null}
      <3>1. Small(type) => SmallColumn /\ term = 0
        BY <2>5 DEF Small, SmallColumn, Described, Linked
      <3>2. SmallColumn => rows[i] \in Hour \cup {Null}
        BY <2>3, <2>5 DEF IInv
      <3>3. \A r \in Hour : r \in Int /\ r + 0 = r
        BY DEF Hour
      <3>4. \A r \in Hour : r # Null
        BY <3>3, Units
      <3> QED
        BY <2>6, <3>1, <3>2, <3>3, <3>4
    <2>8. Right(Shown(v), v)
      BY <2>5, <2>6, <2>7, ValueShown
    <2> QED
      BY <2>3, <2>5, <2>6, <2>8 DEF Right
  <1> QED
    BY <1>1, Invariance, PTL

-----------------------------------------------------------------------------
(* A column and the copy made from its reflection.                         *)

Timed == {"time", "timetz", "timestamp", "timestamptz"}
Named == {ServerName[name] : name \in DOMAIN ServerName}

\* A row that the server can have, and one that it made of a declared type.
Plausible(row) == /\ row.type \in Timed => row.digits <= 7
                  /\ row.type \in Named => row.digits = 0

AsDeclared(row) ==
    \/ row.type = "decimal" /\ row.digits # 0
    \/ row.type \in {"char", "varchar"}
    \/ row.type \in Timed /\ row.digits = 7
    \/ row.type \in Named \cup {"clob"} /\ row.digits = 0

CopyInv ==
    /\ column # None => Plausible(column)
    /\ declared => column # None /\ AsDeclared(column)
    /\ copy # None => column # None /\ copy \in StoredAs(Rendered(resolve_type(column)))

\* The server's names for rendered types are none of the sized or timed ones.
LEMMA NamedTypes ==
    /\ Named = {"bigint", "blob", "boolean", "date", "double", "hugeint", "inet", "int", "json",
                "month_interval", "real", "sec_interval", "smallint", "tinyint", "url", "uuid"}
    /\ DOMAIN ServerName = {"BIGINT", "BLOB", "BOOLEAN", "DATE", "DOUBLE", "HUGEINT", "INET", "INTEGER",
                            "JSON", "MONTH_INTERVAL", "REAL", "SECOND_INTERVAL", "SMALLINT",
                            "TINYINT", "URL", "UUID"}
  BY DEF Named, ServerName

LEMMA DeclaredStored ==
    ASSUME NEW t \in Declared, NEW row \in StoredAs(Rendered(t))
    PROVE  AsDeclared(row)
  <1> DEFINE d == Rendered(t)
  <1>1. /\ t.size \in Nat \cup {Missing} /\ t.scale \in Nat \cup {Missing}
        /\ t.timezone \in BOOLEAN /\ Missing \notin Nat
    BY ColumnAssumption
  <1>2. CASE t.name \in {"NUMERIC", "DECIMAL"}
    <2>1. d = _decimal(t)
      BY <1>2, RenderedBy
    <2>2. d.name = "DECIMAL" /\ d.size = IF t.size \in {Missing, 0} THEN 18 ELSE t.size
      BY <2>1 DEF _decimal, Type
    <2>3. row = Row("decimal", d.size, d.scale)
      BY <2>2, StoredBy
    <2>4. d.size # 0
      BY <2>2
    <2> HIDE DEF d
    <2> QED
      BY <2>3, <2>4 DEF Row, AsDeclared
  <1>3. CASE t.name = "FLOAT"
    <2>1. d = visit_FLOAT(t)
      BY <1>3, RenderedBy
    <2>2. d = Plain("DOUBLE") \/ d.name = "FLOAT"
      BY <2>1 DEF visit_FLOAT, Sized, Type
    <2> HIDE DEF d
    <2>3. CASE d.name = "FLOAT"
      <3>1. row \in {Row("real", 0, 0), Row("double", 0, 0)}
        BY <2>3, StoredBy DEF d
      <3> QED
        BY <3>1, NamedTypes DEF Row, AsDeclared
    <2>4. CASE d = Plain("DOUBLE")
      <3>1. d.name = "DOUBLE"
        BY <2>4 DEF Plain, Type
      <3>2. row = Row(ServerName["DOUBLE"], 0, 0)
        BY <3>1, StoredBy DEF d
      <3>3. ServerName["DOUBLE"] = "double"
        BY DEF ServerName
      <3> QED
        BY <3>2, <3>3, NamedTypes DEF Row, AsDeclared
    <2> QED
      BY <2>2, <2>3, <2>4
  <1>4. CASE t.name = "TIME"
    <2>1. d = visit_TIME(t)
      BY <1>4, RenderedBy
    <2>2. t.size \in {Missing, 6}
      BY <1>4, DigitsAssumption
    <2>3. d.name = "TIME" /\ d.size = 6
      BY <2>1, <2>2 DEF visit_TIME, Type
    <2>4. row = Row(IF d.timezone THEN "timetz" ELSE "time", IF d.size = Missing THEN 1 ELSE d.size + 1, 0)
      BY <2>3, StoredBy
    <2>5. 6 # Missing
      BY <1>1
    <2> HIDE DEF d
    <2> QED
      BY <2>3, <2>4, <2>5 DEF Row, AsDeclared, Timed
  <1>5. CASE t.name \in {"TIMESTAMP", "DATETIME"}
    <2>1. d = visit_TIMESTAMP(t)
      BY <1>5, RenderedBy
    <2>2. d.name = "TIMESTAMP"
      BY <2>1 DEF visit_TIMESTAMP, Type
    <2>3. row = Row(IF d.timezone THEN "timestamptz" ELSE "timestamp", 7, 0)
      BY <2>2, StoredBy
    <2> HIDE DEF d
    <2> QED
      BY <2>3 DEF Row, AsDeclared, Timed
  <1>6. CASE t.name \notin {"NUMERIC", "DECIMAL", "FLOAT", "TIME", "TIMESTAMP", "DATETIME"}
    <2>1. d.name \notin {"DECIMAL", "FLOAT", "TIME", "TIMESTAMP"}
      <3>1. CASE d = visit_VARCHAR(t)
        BY <3>1 DEF visit_VARCHAR, Plain, Sized, Type
      <3>2. CASE t.name \in DOMAIN Spelling /\ d = Plain(Spelling[t.name])
        <4>1. Spelling[t.name] \in {"DOUBLE", "CLOB", "BLOB"}
          BY <3>2 DEF Spelling
        <4> QED
          BY <3>2, <4>1 DEF Plain, Type
      <3>3. CASE d = t
        BY <1>6, <3>3
      <3> QED
        BY <1>6, <3>1, <3>2, <3>3, OtherRendered
    <2> HIDE DEF d
    <2>2. CASE d.name = "CLOB"
      <3>1. row \in {Row("clob", 0, 0), Row("varchar", 0, 0)}
        BY <2>2, StoredBy DEF d
      <3> QED
        BY <3>1 DEF Row, AsDeclared
    <2>3. CASE d.name = "VARCHAR"
      <3>1. row = Row("varchar", d.size, 0)
        BY <2>3, StoredBy DEF d
      <3> QED
        BY <3>1 DEF Row, AsDeclared
    <2>4. CASE d.name = "CHAR"
      <3>1. row = Row("char", IF d.size = Missing THEN 1 ELSE d.size, 0)
        BY <2>4, StoredBy DEF d
      <3> QED
        BY <3>1 DEF Row, AsDeclared
    <2>5. CASE d.name \in DOMAIN ServerName /\ row = Row(ServerName[d.name], 0, 0)
      <3>1. ServerName[d.name] \in Named
        BY <2>5 DEF Named
      <3> QED
        BY <2>5, <3>1 DEF Row, AsDeclared
    <2>6. \/ d.name \in {"DECIMAL", "FLOAT", "CLOB", "VARCHAR", "CHAR", "TIME", "TIMESTAMP"}
          \/ d.name \in DOMAIN ServerName /\ row = Row(ServerName[d.name], 0, 0)
      BY StoredBy DEF d
    <2> QED
      BY <2>1, <2>2, <2>3, <2>4, <2>5, <2>6
  <1> QED
    BY <1>2, <1>3, <1>4, <1>5, <1>6

LEMMA DeclaredPlausible ==
    ASSUME NEW row, AsDeclared(row)
    PROVE  Plausible(row)
  BY NamedTypes DEF AsDeclared, Plausible, Timed

\* The types that mean the same with or without digits.
LEMMA PlainNames ==
    ASSUME NEW name \in Named \cup {"oid", "day_interval"}
    PROVE  /\ name \in DOMAIN MONETDB_TYPE_MAP
           /\ name \notin {"varchar", "char", "timestamptz", "timetz", "decimal", "clob", "time",
                           "timestamp"}
           /\ name = "double" => MONETDB_TYPE_MAP[name] = "DOUBLE_PRECISION"
           /\ name # "double" =>
                  /\ MONETDB_TYPE_MAP[name] \in DOMAIN ServerName
                  /\ name = "oid" => ServerName[MONETDB_TYPE_MAP[name]] = "bigint"
                  /\ name = "day_interval" => ServerName[MONETDB_TYPE_MAP[name]] = "sec_interval"
                  /\ name \in Named => ServerName[MONETDB_TYPE_MAP[name]] = name
  BY NamedTypes DEF MONETDB_TYPE_MAP, ServerName

LEMMA MappedTypes ==
    DOMAIN MONETDB_TYPE_MAP =
        Named \cup Timed \cup {"oid", "day_interval", "clob", "char", "varchar", "decimal"}
  BY NamedTypes DEF MONETDB_TYPE_MAP, Timed

\* Rendered by another name, or as it is.
LEMMA PlainRendered ==
    ASSUME NEW name \in (DOMAIN ServerName) \cup {"TEXT", "DOUBLE_PRECISION", "NULLTYPE"}
    PROVE  Rendered(Plain(name)) =
               Plain(IF name = "TEXT" THEN "CLOB" ELSE IF name = "DOUBLE_PRECISION" THEN "DOUBLE" ELSE name)
  <1> DEFINE t == Plain(name)
  <1>1. t.name = name
    BY DEF Plain, Type
  <1>2. t.name \notin {"NUMERIC", "DECIMAL", "FLOAT", "TIME", "TIMESTAMP", "DATETIME"}
        /\ t.name \notin {"VARCHAR", "NVARCHAR", "unicode"}
    BY <1>1, NamedTypes
  <1>3. CASE name \in {"TEXT", "DOUBLE_PRECISION"}
    <2>1. t.name \in DOMAIN Spelling
      BY <1>1, <1>3 DEF Spelling
    <2>2. Rendered(t) = Plain(Spelling[t.name])
      BY <1>2, <2>1, Zenon DEF Rendered
    <2>3. Spelling["TEXT"] = "CLOB" /\ Spelling["DOUBLE_PRECISION"] = "DOUBLE"
      BY DEF Spelling
    <2> HIDE DEF t
    <2>4. Rendered(t) = Plain(IF name = "TEXT" THEN "CLOB"
                              ELSE IF name = "DOUBLE_PRECISION" THEN "DOUBLE" ELSE name)
      BY <1>1, <1>3, <2>2, <2>3
    <2> QED
      BY <2>4 DEF t
  <1>4. CASE name \notin {"TEXT", "DOUBLE_PRECISION"}
    <2>1. t.name \notin DOMAIN Spelling
      BY <1>1, <1>4, NamedTypes DEF Spelling
    <2>2. Rendered(t) = t
      BY <1>2, <2>1, Zenon DEF Rendered
    <2> QED
      BY <1>4, <2>2
  <1> QED
    BY <1>3, <1>4

\* What resolve_type makes of a row.
LEMMA ResolvedRow ==
    ASSUME NEW row \in SysColumn
    PROVE  /\ row.type \notin DOMAIN MONETDB_TYPE_MAP => resolve_type(row) = Plain("NULLTYPE")
           /\ row.type = "varchar" /\ row.digits = 0 => resolve_type(row) = Plain("TEXT")
           /\ row.type = "varchar" /\ row.digits # 0 => resolve_type(row) = Sized("VARCHAR", row.digits)
           /\ row.type = "char" => resolve_type(row) = Sized("CHAR", row.digits)
           /\ row.type = "decimal" => resolve_type(row) = Type("DECIMAL", row.digits, row.scale, FALSE)
           /\ row.type = "timetz" => resolve_type(row) = Type("TIME", Missing, Missing, TRUE)
           /\ row.type = "timestamptz" => resolve_type(row) = Type("TIMESTAMP", Missing, Missing, TRUE)
           /\ row.type \in DOMAIN MONETDB_TYPE_MAP
                 /\ row.type \notin {"varchar", "char", "decimal", "timetz", "timestamptz"} =>
                  resolve_type(row) = Plain(MONETDB_TYPE_MAP[row.type])
  <1>1. /\ {"varchar", "char", "decimal", "timetz", "timestamptz"} \subseteq DOMAIN MONETDB_TYPE_MAP
        /\ MONETDB_TYPE_MAP["varchar"] = "VARCHAR" /\ MONETDB_TYPE_MAP["char"] = "CHAR"
        /\ MONETDB_TYPE_MAP["timetz"] = "TIME" /\ MONETDB_TYPE_MAP["timestamptz"] = "TIMESTAMP"
    BY DEF MONETDB_TYPE_MAP
  <1>2. CASE row.type \notin DOMAIN MONETDB_TYPE_MAP
    <2>1. row.type \notin {"varchar", "char", "decimal", "timetz", "timestamptz"}
      BY <1>1, <1>2
    <2> QED
      BY <1>2, <2>1, Zenon DEF resolve_type
  <1>3. CASE row.type = "varchar" /\ row.digits = 0
    BY <1>1, <1>3, Zenon DEF resolve_type
  <1>4. CASE row.type = "varchar" /\ row.digits # 0
    <2>1. row.type \notin {"timestamptz", "timetz"} /\ row.type \in {"char", "varchar"}
          /\ row.type \in DOMAIN MONETDB_TYPE_MAP
      BY <1>1, <1>4
    <2>2. resolve_type(row) = Sized(MONETDB_TYPE_MAP[row.type], row.digits)
      BY <1>4, <2>1, Zenon DEF resolve_type
    <2> QED
      BY <1>1, <1>4, <2>2
  <1>5. CASE row.type = "char"
    <2>1. row.type \notin {"timestamptz", "timetz"} /\ row.type \in {"char", "varchar"}
          /\ row.type # "varchar" /\ row.type \in DOMAIN MONETDB_TYPE_MAP
      BY <1>1, <1>5
    <2>2. resolve_type(row) = Sized(MONETDB_TYPE_MAP[row.type], row.digits)
      BY <1>5, <2>1, Zenon DEF resolve_type
    <2> QED
      BY <1>1, <1>5, <2>2
  <1>6. CASE row.type = "decimal"
    <2>1. row.type \notin {"timestamptz", "timetz"} /\ row.type \notin {"char", "varchar"}
          /\ row.type # "varchar" /\ row.type \in DOMAIN MONETDB_TYPE_MAP
      BY <1>1, <1>6
    <2> QED
      BY <1>6, <2>1, Zenon DEF resolve_type
  <1>7. CASE row.type \in {"timetz", "timestamptz"}
    <2>1. row.type # "varchar" /\ row.type \in {"timestamptz", "timetz"}
          /\ row.type \in DOMAIN MONETDB_TYPE_MAP
      BY <1>1, <1>7
    <2>2. resolve_type(row) = Type(MONETDB_TYPE_MAP[row.type], Missing, Missing, TRUE)
      BY <2>1, Zenon DEF resolve_type
    <2> QED
      BY <1>1, <1>7, <2>2
  <1>8. CASE /\ row.type \in DOMAIN MONETDB_TYPE_MAP
             /\ row.type \notin {"varchar", "char", "decimal", "timetz", "timestamptz"}
    <2>1. row.type # "varchar" /\ row.type \notin {"timestamptz", "timetz"}
          /\ row.type \notin {"char", "varchar"} /\ row.type # "decimal"
      BY <1>8
    <2> QED
      BY <1>8, <2>1, Zenon DEF resolve_type
  <1> QED
    BY <1>2, <1>3, <1>4, <1>5, <1>6, <1>7, <1>8

\* A row of a type without a size of its own, and what its copy is.
LEMMA PlainCopy ==
    ASSUME NEW row \in SysColumn, row.type \in Named \cup {"oid", "day_interval"}, Plausible(row),
           NEW new \in StoredAs(Rendered(resolve_type(row)))
    PROVE  Fits(row, new) /\ (AsDeclared(row) => Fits(new, row))
  <1> DEFINE name == MONETDB_TYPE_MAP[row.type]
             spelled == IF name = "DOUBLE_PRECISION" THEN "DOUBLE" ELSE name
  <1>1. resolve_type(row) = Plain(name)
    BY PlainNames, ResolvedRow
  <1>2. /\ spelled \in DOMAIN ServerName
        /\ row.type = "oid" => ServerName[spelled] = "bigint"
        /\ row.type = "day_interval" => ServerName[spelled] = "sec_interval"
        /\ row.type \in Named => ServerName[spelled] = row.type
    <2>1. CASE row.type = "double"
      <3>1. spelled = "DOUBLE"
        BY <2>1, PlainNames
      <3> QED
        BY <2>1, <3>1, NamedTypes DEF ServerName
    <2>2. CASE row.type # "double"
      <3>1. name \in DOMAIN ServerName
        BY <2>2, PlainNames
      <3>2. spelled = name
        BY <3>1, NamedTypes
      <3> QED
        BY <2>2, <3>1, <3>2, PlainNames
    <2> QED
      BY <2>1, <2>2
  <1>3. Rendered(Plain(name)) = Plain(spelled)
    <2>1. name \in (DOMAIN ServerName) \cup {"DOUBLE_PRECISION"} /\ name # "TEXT"
      BY PlainNames, NamedTypes
    <2> HIDE DEF name
    <2> QED
      BY <2>1, PlainRendered
  <1> HIDE DEF name, spelled
  <1>4. new \in StoredAs(Plain(spelled))
    BY <1>1, <1>3
  <1>5. new = Row(ServerName[spelled], 0, 0)
    <2>1. Plain(spelled).name = spelled
      BY DEF Plain, Type
    <2>2. spelled \notin {"DECIMAL", "FLOAT", "CLOB", "VARCHAR", "CHAR", "TIME", "TIMESTAMP"}
      BY <1>2, NamedTypes
    <2> QED
      BY <1>4, <2>1, <2>2, StoredBy
  <1>6. new.type = ServerName[spelled] /\ new.digits = 0
    BY <1>5 DEF Row
  <1>7. CASE row.type \in Named
    <2>1. row.digits = 0 /\ new.type = row.type /\ row.type # "decimal"
      BY <1>2, <1>6, <1>7, PlainNames DEF Plausible
    <2> QED
      BY <1>6, <2>1 DEF Fits
  <1>8. CASE row.type \in {"oid", "day_interval"}
    <2>1. <<row.type, new.type>> \in {<<"oid", "bigint">>, <<"day_interval", "sec_interval">>}
      BY <1>2, <1>6, <1>8
    <2>2. ~AsDeclared(row)
      BY <1>8, NamedTypes DEF AsDeclared, Timed
    <2> QED
      BY <2>1, <2>2 DEF Fits
  <1> QED
    BY <1>7, <1>8

LEMMA TimedCopy ==
    ASSUME NEW row \in SysColumn, row.type \in Timed, Plausible(row),
           NEW new \in StoredAs(Rendered(resolve_type(row)))
    PROVE  Fits(row, new) /\ (AsDeclared(row) => Fits(new, row))
  <1> DEFINE t == resolve_type(row)
             zoned == row.type \in {"timetz", "timestamptz"}
  <1>1. /\ t.name = IF row.type \in {"time", "timetz"} THEN "TIME" ELSE "TIMESTAMP"
        /\ t.size = Missing /\ t.timezone = IF zoned THEN TRUE ELSE FALSE
    <2>1. CASE zoned
      <3>1. t = Type(IF row.type = "timetz" THEN "TIME" ELSE "TIMESTAMP", Missing, Missing, TRUE)
        BY <2>1, ResolvedRow
      <3> QED
        BY <2>1, <3>1 DEF Type
    <2>2. CASE ~zoned
      <3>1. row.type \in {"time", "timestamp"} /\ row.type \in DOMAIN MONETDB_TYPE_MAP
        BY <2>2, MappedTypes DEF Timed
      <3>2. t = Plain(MONETDB_TYPE_MAP[row.type])
        BY <3>1, ResolvedRow
      <3>3. MONETDB_TYPE_MAP["time"] = "TIME" /\ MONETDB_TYPE_MAP["timestamp"] = "TIMESTAMP"
        BY DEF MONETDB_TYPE_MAP
      <3> QED
        BY <2>2, <3>1, <3>2, <3>3 DEF Plain, Type
    <2> QED
      BY <2>1, <2>2
  <1> HIDE DEF t
  <1>2. new.type = row.type /\ new.digits = 7
    <2>1. CASE row.type \in {"time", "timetz"}
      <3>1. Rendered(t) = visit_TIME(t)
        BY <1>1, <2>1, RenderedBy
      <3>2. Rendered(t).name = "TIME" /\ Rendered(t).size = 6 /\ Rendered(t).timezone = t.timezone
        BY <1>1, <3>1 DEF visit_TIME, Type
      <3>3. new = Row(IF Rendered(t).timezone THEN "timetz" ELSE "time",
                      IF Rendered(t).size = Missing THEN 1 ELSE Rendered(t).size + 1, 0)
        BY <3>2, StoredBy DEF t
      <3>4. 6 # Missing
        BY ColumnAssumption
      <3>5. new.digits = 7 /\ new.type = IF t.timezone THEN "timetz" ELSE "time"
        BY <3>2, <3>3, <3>4 DEF Row
      <3> QED
        BY <1>1, <2>1, <3>5
    <2>2. CASE row.type \in {"timestamp", "timestamptz"}
      <3>1. Rendered(t) = visit_TIMESTAMP(t)
        BY <1>1, <2>2, RenderedBy
      <3>2. Rendered(t).name = "TIMESTAMP" /\ Rendered(t).timezone = t.timezone
        BY <3>1 DEF visit_TIMESTAMP, Type
      <3>3. new = Row(IF Rendered(t).timezone THEN "timestamptz" ELSE "timestamp", 7, 0)
        BY <3>2, StoredBy DEF t
      <3>4. new.digits = 7 /\ new.type = IF t.timezone THEN "timestamptz" ELSE "timestamp"
        BY <3>2, <3>3 DEF Row
      <3> QED
        BY <1>1, <2>2, <3>4
    <2> QED
      BY <2>1, <2>2 DEF Timed
  <1>3. row.digits <= 7 /\ row.type # "decimal"
    BY DEF Plausible, Timed
  <1>4. AsDeclared(row) => row.digits = 7
    BY NamedTypes DEF AsDeclared, Timed
  <1> QED
    BY <1>2, <1>3, <1>4 DEF Fits

LEMMA DecimalCopy ==
    ASSUME NEW row \in SysColumn, row.type = "decimal",
           NEW new \in StoredAs(Rendered(resolve_type(row)))
    PROVE  Fits(row, new) /\ (AsDeclared(row) => Fits(new, row))
  <1>1. row.digits \in Nat /\ row.scale \in Nat /\ Missing \notin Nat
    BY ColumnAssumption DEF SysColumn
  <1> DEFINE t == resolve_type(row)
  <1>2. t = Type("DECIMAL", row.digits, row.scale, FALSE)
    BY ResolvedRow
  <1>3. t.name = "DECIMAL" /\ t.size = row.digits /\ t.scale = row.scale
    BY <1>2 DEF Type
  <1> HIDE DEF t
  <1>4. Rendered(t) = _decimal(t)
    BY <1>3, RenderedBy
  <1>5. /\ Rendered(t).name = "DECIMAL" /\ Rendered(t).scale = row.scale
        /\ Rendered(t).size = IF row.digits = 0 THEN 18 ELSE row.digits
    BY <1>1, <1>3, <1>4 DEF _decimal, Type
  <1>6. new = Row("decimal", Rendered(t).size, Rendered(t).scale)
    BY <1>5, StoredBy DEF t
  <1>7. /\ new.type = "decimal" /\ new.scale = row.scale
        /\ new.digits = IF row.digits = 0 THEN 18 ELSE row.digits
    BY <1>5, <1>6 DEF Row
  <1>8. AsDeclared(row) => row.digits # 0
    BY NamedTypes DEF AsDeclared, Timed
  <1> QED
    BY <1>1, <1>7, <1>8 DEF Fits

LEMMA StringCopy ==
    ASSUME NEW row \in SysColumn, row.type \in {"clob", "char", "varchar"},
           NEW new \in StoredAs(Rendered(resolve_type(row)))
    PROVE  Fits(row, new) /\ (AsDeclared(row) => Fits(new, row))
  <1>1. row.digits \in Nat /\ row.digits # Missing
    BY ColumnAssumption DEF SysColumn
  <1> DEFINE t == resolve_type(row)
  <1>2. CASE t = Plain("TEXT")
    <2>1. Rendered(t) = Plain("CLOB")
      BY <1>2, PlainRendered
    <2>2. Rendered(t).name = "CLOB"
      BY <2>1 DEF Plain, Type
    <2> HIDE DEF t
    <2>3. new \in {Row("clob", 0, 0), Row("varchar", 0, 0)}
      BY <2>2, StoredBy DEF t
    <2>4. new.type \in {"clob", "varchar"} /\ new.digits = 0
      BY <2>3 DEF Row
    <2>5. row.type # "char"
      BY <1>2, ResolvedRow DEF t, Sized, Plain, Type
    <2>6. AsDeclared(row) => row.digits = 0
      <3>1. CASE row.type = "varchar"
        <4>1. row.digits # 0 => t.name = "VARCHAR"
          BY <3>1, ResolvedRow DEF t, Sized, Type
        <4>2. t.name = "TEXT"
          BY <1>2 DEF Plain, Type
        <4> QED
          BY <4>1, <4>2
      <3>2. CASE row.type = "clob"
        BY <3>2, NamedTypes DEF AsDeclared, Timed
      <3> QED
        BY <2>5, <3>1, <3>2
    <2> QED
      BY <2>4, <2>5, <2>6 DEF Fits
  <1>3. CASE row.type = "varchar" /\ row.digits # 0
    <2>1. t = Sized("VARCHAR", row.digits)
      BY <1>3, ResolvedRow
    <2>2. t.name = "VARCHAR" /\ t.size = row.digits
      BY <2>1 DEF Sized, Type
    <2> HIDE DEF t
    <2>3. Rendered(t) = Sized("VARCHAR", row.digits)
      BY <1>1, <2>2, RenderedBy DEF visit_VARCHAR
    <2>4. Rendered(t).name = "VARCHAR" /\ Rendered(t).size = row.digits
      BY <2>3 DEF Sized, Type
    <2>5. new = Row("varchar", row.digits, 0)
      BY <2>4, StoredBy DEF t
    <2> QED
      BY <1>1, <1>3, <2>5 DEF Row, Fits
  <1>4. CASE row.type = "char"
    <2>1. t = Sized("CHAR", row.digits)
      BY <1>4, ResolvedRow
    <2>2. t.name = "CHAR" /\ t.size = row.digits
      BY <2>1 DEF Sized, Type
    <2> HIDE DEF t
    <2>3. Rendered(t) = t
      BY <2>2, OtherRendered DEF Spelling
    <2>4. new = Row("char", row.digits, 0)
      BY <1>1, <2>2, <2>3, StoredBy DEF t
    <2> QED
      BY <1>1, <1>4, <2>4 DEF Row, Fits
  <1>5. row.type = "clob" => t = Plain("TEXT")
    <2>1. "clob" \in DOMAIN MONETDB_TYPE_MAP /\ MONETDB_TYPE_MAP["clob"] = "TEXT"
      BY DEF MONETDB_TYPE_MAP
    <2> QED
      BY <2>1, ResolvedRow
  <1>6. row.type = "varchar" /\ row.digits = 0 => t = Plain("TEXT")
    BY ResolvedRow
  <1> QED
    BY <1>2, <1>3, <1>4, <1>5, <1>6

\* Reflection and rendering lose nothing of a plausible row, and add nothing to
\* one that was declared.
LEMMA CopyFits ==
    ASSUME NEW row \in SysColumn, Plausible(row), NEW new \in StoredAs(Rendered(resolve_type(row)))
    PROVE  Fits(row, new) /\ (AsDeclared(row) => Fits(new, row))
  <1>1. CASE row.type \in DOMAIN MONETDB_TYPE_MAP
    BY <1>1, MappedTypes, PlainCopy, TimedCopy, DecimalCopy, StringCopy
  <1>2. CASE row.type \notin DOMAIN MONETDB_TYPE_MAP
    <2>1. Rendered(resolve_type(row)) = Plain("NULLTYPE")
      BY <1>2, ResolvedRow, PlainRendered
    <2>2. Plain("NULLTYPE").name = "NULLTYPE"
      BY DEF Plain, Type
    <2> QED
      BY <2>1, <2>2, StoredBy, NamedTypes
  <1> QED
    BY <1>1, <1>2

-----------------------------------------------------------------------------
(* The copy is made of the column as it is.                                *)

LEMMA CopyInitially == Init => CopyInv
  BY DEF Init, CopyInv

LEMMA CopyInductive == IInv /\ CopyInv /\ [Next]_vars => CopyInv'
  <1> SUFFICES ASSUME IInv, CopyInv, [Next]_vars PROVE CopyInv'
    OBVIOUS
  <1>1. None \notin SysColumn
    BY NoneAssumption
  <1>2. ASSUME NEW t \in Declared, Define(t) PROVE CopyInv'
    <2>1. column' \in StoredAs(Rendered(t)) /\ copy' = None
      BY <1>2 DEF Define
    <2>2. AsDeclared(column')
      BY <2>1, DeclaredStored
    <2>3. Plausible(column')
      BY <2>2, DeclaredPlausible
    <2>4. column' \in SysColumn
      <3>1. Given(t)
        BY ColumnAssumption DEF Given
      <3> QED
        BY <2>1, <3>1, Stored
    <2>5. column' # None
      BY <1>1, <2>4
    <2> QED
      BY <2>1, <2>2, <2>3, <2>5 DEF CopyInv
  <1>3. ASSUME NEW row \in Foreign \cup ({column} \ {None}), Reflect(row) PROVE CopyInv'
    <2>1. /\ column' = row /\ declared' = declared /\ copy' = copy
          /\ column = None \/ column = row
      BY <1>3 DEF Reflect
    <2>2. CASE column = row
      BY <2>1, <2>2 DEF CopyInv
    <2>3. CASE column = None
      <3>1. row \in Foreign
        BY <2>3
      <3>2. Plausible(row)
        BY <3>1, DigitsAssumption DEF Plausible, Timed, Named
      <3>3. declared' # TRUE /\ copy' = None
        BY <2>1, <2>3 DEF CopyInv
      <3> QED
        BY <2>1, <3>2, <3>3 DEF CopyInv
    <2> QED
      BY <2>1, <2>2, <2>3
  <1>4. CASE CreateCopy
    <2>1. /\ column # None /\ copy' \in StoredAs(Rendered(resolve_type(column)))
          /\ column' = column /\ declared' = declared
      BY <1>4 DEF CreateCopy
    <2> QED
      BY <2>1 DEF CopyInv
  <1>5. CASE UNCHANGED <<column, declared, copy>>
    BY <1>5 DEF CopyInv
  <1>6. ASSUME NEW objects, Insert(objects) PROVE UNCHANGED <<column, declared, copy>>
    BY <1>6 DEF Insert
  <1>7. ASSUME NEW n \in 1 .. MaxRows, Fetch(n) PROVE UNCHANGED <<column, declared, copy>>
    BY <1>7 DEF Fetch
  <1>8. Select => UNCHANGED <<column, declared, copy>>
    BY DEF Select
  <1>9. UNCHANGED vars => UNCHANGED <<column, declared, copy>>
    BY DEF vars
  <1> QED
    BY <1>2, <1>3, <1>4, <1>5, <1>6, <1>7, <1>8, <1>9, Zenon DEF Next, Create, _monetdb_column_type

LEMMA CopyInvariance == Spec => []CopyInv
  BY Initially, Inductive, CopyInitially, CopyInductive, PTL DEF Spec

\* A table created from a reflected one holds what the reflected one does, and
\* no more where it was declared to the dialect, for any types and lengths.
THEOREM CopyAlwaysHolds == Spec => []CopyHoldsColumn
  <1>1. IInv /\ CopyInv => CopyHoldsColumn
    <2> SUFFICES ASSUME IInv, CopyInv, copy # None
                 PROVE  Fits(column, copy) /\ (declared => Fits(copy, column))
      BY DEF CopyHoldsColumn
    <2>1. /\ column # None /\ column \in SysColumn
          /\ copy \in StoredAs(Rendered(resolve_type(column))) /\ Plausible(column)
      BY DEF CopyInv, IInv, TypeOK
    <2>2. Fits(column, copy) /\ (AsDeclared(column) => Fits(copy, column))
      BY <2>1, CopyFits
    <2> QED
      BY <2>2 DEF CopyInv
  <1> QED
    BY Invariance, CopyInvariance, <1>1, PTL
=============================================================================

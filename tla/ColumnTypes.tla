----------------------------- MODULE ColumnTypes -----------------------------
(***************************************************************************)
(* The types of columns: rendered into DDL by MonetDBTypeCompiler, kept by *)
(* the server in sys.columns, and read back from there by resolve_type.    *)
(*                                                                         *)
(* A SQLAlchemy type has the name of its visit method (sqltypes.Interval   *)
(* is SECOND_INTERVAL by the dialect's colspecs), a length or precision, a *)
(* scale, and timezone; so has what is rendered.                           *)
(***************************************************************************)
EXTENDS Integers

CONSTANT Missing    \* a length, precision or scale not given

Type(name, size, scale, timezone) ==
    [name |-> name, size |-> size, scale |-> scale, timezone |-> timezone]

Plain(name) == Type(name, Missing, Missing, FALSE)

Sized(name, size) == Type(name, size, Missing, FALSE)

\* Names that stand for another one of the server's.
Spelling ==
    [DOUBLE_PRECISION |-> "DOUBLE", TEXT |-> "CLOB", NTEXT |-> "CLOB",
     unicode_text |-> "CLOB", large_binary |-> "BLOB", BINARY |-> "BLOB",
     VARBINARY |-> "BLOB"]

\* Mutant of _decimal: a scale of 0 is taken for one not given.
DecimalTruthy(t) ==
    Type("DECIMAL", IF t.size \in {Missing, 0} THEN 18 ELSE t.size,
         IF t.scale \in {Missing, 0} THEN 3 ELSE t.scale, FALSE)

_decimal(t) ==
    Type("DECIMAL", IF t.size \in {Missing, 0} THEN 18 ELSE t.size,
         IF t.scale = Missing THEN 3 ELSE t.scale, FALSE)

\* Mutant of visit_VARCHAR: a length is taken for granted.
VarcharAlways(t) == Sized("VARCHAR", t.size)

visit_VARCHAR(t) == IF t.size = Missing THEN Plain("CLOB") ELSE Sized("VARCHAR", t.size)

visit_FLOAT(t) == IF t.size = Missing THEN Plain("DOUBLE") ELSE Sized("FLOAT", t.size)

visit_TIME(t) == Type("TIME", IF t.size = Missing THEN 6 ELSE t.size, Missing, t.timezone)

visit_TIMESTAMP(t) == Type("TIMESTAMP", Missing, Missing, t.timezone)

\* MonetDBTypeCompiler.process
Rendered(t) ==
    CASE t.name \in {"NUMERIC", "DECIMAL"} -> _decimal(t)
      [] t.name = "FLOAT" -> visit_FLOAT(t)
      [] t.name \in {"VARCHAR", "NVARCHAR", "unicode"} -> visit_VARCHAR(t)
      [] t.name = "TIME" -> visit_TIME(t)
      [] t.name \in {"TIMESTAMP", "DATETIME"} -> visit_TIMESTAMP(t)
      [] t.name \in DOMAIN Spelling -> Plain(Spelling[t.name])
      [] OTHER -> t

-----------------------------------------------------------------------------
Row(type, digits, scale) == [type |-> type, digits |-> digits, scale |-> scale]

MONETDB_TYPE_MAP ==
    [bigint |-> "BIGINT", blob |-> "BLOB", boolean |-> "BOOLEAN", char |-> "CHAR",
     clob |-> "TEXT", date |-> "DATE", day_interval |-> "SECOND_INTERVAL",
     decimal |-> "DECIMAL", double |-> "DOUBLE_PRECISION", hugeint |-> "HUGEINT",
     inet |-> "INET", int |-> "INTEGER", json |-> "JSON",
     month_interval |-> "MONTH_INTERVAL", oid |-> "BIGINT", real |-> "REAL",
     sec_interval |-> "SECOND_INTERVAL", smallint |-> "SMALLINT", time |-> "TIME",
     timestamp |-> "TIMESTAMP", timestamptz |-> "TIMESTAMP", timetz |-> "TIME",
     tinyint |-> "TINYINT", url |-> "URL", uuid |-> "UUID", varchar |-> "VARCHAR"]

resolve_type(row) ==
    CASE row.type = "varchar" /\ row.digits = 0 -> Plain("TEXT")
      [] row.type \notin DOMAIN MONETDB_TYPE_MAP -> Plain("NULLTYPE")
      [] row.type \in {"timestamptz", "timetz"} ->
             Type(MONETDB_TYPE_MAP[row.type], Missing, Missing, TRUE)
      [] row.type \in {"char", "varchar"} /\ ~(row.type = "varchar" /\ row.digits = 0) ->
             Sized(MONETDB_TYPE_MAP[row.type], row.digits)
      [] row.type = "decimal" -> Type("DECIMAL", row.digits, row.scale, FALSE)
      [] OTHER -> Plain(MONETDB_TYPE_MAP[row.type])

-----------------------------------------------------------------------------
(* The server.                                                              *)

ServerName ==
    [BIGINT |-> "bigint", BLOB |-> "blob", BOOLEAN |-> "boolean", DATE |-> "date",
     DOUBLE |-> "double", HUGEINT |-> "hugeint", INET |-> "inet", INTEGER |-> "int",
     JSON |-> "json", MONTH_INTERVAL |-> "month_interval", REAL |-> "real",
     SECOND_INTERVAL |-> "sec_interval", SMALLINT |-> "smallint",
     TINYINT |-> "tinyint", URL |-> "url", UUID |-> "uuid"]

\* What the server makes of a rendered type, in one of these ways, or {} when
\* it refuses it.  The digits of a time or timestamp count from 1.
StoredAs(d) ==
    CASE d.name = "DECIMAL" ->
             IF d.scale <= d.size /\ d.size <= 38 THEN {Row("decimal", d.size, d.scale)} ELSE {}
      [] d.name = "FLOAT" -> {Row(IF d.size <= 24 THEN "real" ELSE "double", 0, 0)}
      [] d.name = "CLOB" -> {Row("clob", 0, 0), Row("varchar", 0, 0)}
      [] d.name = "VARCHAR" -> {Row("varchar", d.size, 0)}
      [] d.name = "CHAR" -> {Row("char", IF d.size = Missing THEN 1 ELSE d.size, 0)}
      [] d.name = "TIME" -> {Row(IF d.timezone THEN "timetz" ELSE "time",
                                 IF d.size = Missing THEN 1 ELSE d.size + 1, 0)}
      [] d.name = "TIMESTAMP" -> {Row(IF d.timezone THEN "timestamptz" ELSE "timestamp", 7, 0)}
      [] d.name \in DOMAIN ServerName -> {Row(ServerName[d.name], 0, 0)}
      [] OTHER -> {}

\* Every value of a column like r fits in one like q.
Fits(r, q) ==
    \/ r.type = q.type /\ r.type # "decimal" /\ r.digits <= q.digits
    \/ r.type = q.type /\ r.type = "decimal"
          /\ r.scale <= q.scale /\ r.digits - r.scale <= q.digits - q.scale
    \/ <<r.type, q.type>> \in {<<"oid", "bigint">>, <<"day_interval", "sec_interval">>}
    \/ r.type \in {"clob", "varchar"} /\ q.type \in {"clob", "varchar"} /\ q.digits = 0
=============================================================================

---------------------------- MODULE MCTypedColumn ----------------------------
(* The column types of types.py and the generic ones, with lengths, scales  *)
(* and zones that matter.                                                   *)
EXTENDS TypedColumn, TLC

MCDeclared ==
    {Plain(name) : name \in {"INTEGER", "HUGEINT", "BOOLEAN", "DATE", "TEXT", "VARCHAR", "CHAR",
                             "large_binary", "UUID", "JSON", "INET", "SECOND_INTERVAL",
                             "MONTH_INTERVAL", "TINYINT", "URL", "NUMERIC", "FLOAT", "REAL",
                             "DOUBLE", "DOUBLE_PRECISION"}}
    \cup {Type(name, Missing, Missing, zone) : name \in {"TIME", "TIMESTAMP"}, zone \in BOOLEAN}
    \cup {Type("NUMERIC", p, s, FALSE) : p \in {4, 18}, s \in {0, 2, Missing}}
    \cup {Type("NUMERIC", 2, Missing, FALSE)}
    \cup {Sized("VARCHAR", 20), Sized("CHAR", 20), Sized("FLOAT", 24), Sized("FLOAT", 53)}

MCForeign ==
    {Row("oid", 0, 0), Row("day_interval", 0, 0), Row("time", 1, 0), Row("timetz", 4, 0),
     Row("timestamp", 1, 0), Row("decimal", 38, 0), Row("decimal", 19, 18),
     Row("geometry", 0, 0), Row("varchar", 20, 0)}

\* East is ahead of UTC.
MCOffset == "UTC" :> 0 @@ "East" :> 2
=============================================================================

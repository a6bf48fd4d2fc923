----------------------- MODULE MCParameterSchemaCache -----------------------
(***************************************************************************)
(* Small instances of ParameterSchemaCache: a statement with a             *)
(* DECIMAL(10, 2) and a BIGINT parameter.                                  *)
(***************************************************************************)
EXTENDS ParameterSchemaCache, TLC

\* mills: decimals of three places, which pyarrow does not put into a type of
\* two; wide is beyond int64; of mixed values pyarrow infers nothing.
MCHolds == [dec2 |-> {"int"}, dec3 |-> {"int", "mills"}, int64 |-> {"int"},
            huge |-> {"int", "wide"}]

MCInferred == [int |-> "int64", mills |-> "dec3", wide |-> NoType, mixed |-> NoType]

MCExact == [price |-> "dec2", id |-> "int64"]

Symmetry == Permutations(Thread) \cup Permutations(Statement)
=============================================================================

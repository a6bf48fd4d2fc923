---------------------------- MODULE KeyReflection ----------------------------
(***************************************************************************)
(* Keys and indexes: the DDL that makes and drops them (compiler.py), the  *)
(* rows the server keeps of them, the getters of multi_reflection.py that  *)
(* join and group those rows, and the tables and indexes that are created  *)
(* again or dropped from what the getters reported.                        *)
(*                                                                         *)
(* The id of a key or of an index is the record itself, and the rows of    *)
(* sys.objects for it are its sequence of columns, by nr.  Which catalog   *)
(* is read for a temporary table is in CatalogReflection; the actions and  *)
(* the emission of foreign keys are in ForeignKeys.                        *)
(***************************************************************************)
EXTENDS Naturals, FiniteSets, Sequences

CONSTANTS Table,      \* records: schema and name
          Current,    \* the current schema
          Name,       \* of keys and indexes
          Column,
          Columns,    \* sequences of columns
          None,
          MaxDefined  \* bound: keys and indexes that the application defines

ASSUME KeyAssumption ==
    /\ \A columns \in Columns : columns \in Seq(Column) /\ columns # <<>>
    /\ \A t \in Table : t \in [schema : {t.schema}, name : {t.name}] /\ t.schema # None
    /\ MaxDefined \in Nat

KEY_TYPE == [primary |-> 0, unique |-> 1, foreign |-> 2, check |-> 4]

VARIABLES defined,  \* keys and indexes, as the application defined them
          catalog,  \* sys.keys and sys.idxs
          refused   \* the server refused the last DDL

vars == <<defined, catalog, refused>>

Reference == [table : Table, columns : Columns]
Definition == [table : Table, name : Name, kind : {"primary", "unique", "foreign", "check", "index"},
               columns : Columns, refers : Reference \cup {None}]

\* A key that others refer to refers to none itself.
Referred == [table : Table, name : Name, type : {0, 1}, columns : Columns, rkey : {None}]
Key == Referred \cup [table : Table, name : Name, type : {4}, columns : Columns, rkey : {None}]
       \cup [table : Table, name : Name, type : {2}, columns : Columns, rkey : Referred]

ASSUME NoneAssumption == \A r \in Reference \cup Referred : r # None

IndexOf(k) == [table |-> k.table, name |-> k.name, columns |-> k.columns]

-----------------------------------------------------------------------------
(* The getters.  An answer is a set, since its order says nothing.          *)

\* ORDER BY ... o.nr, and the columns appended one by one
InOrder(rows, field) ==
    LET sorted == CHOOSE q \in [1..Cardinality(rows) -> rows] :
                    \A i, j \in DOMAIN q : i < j => q[i] # q[j] /\ q[i].nr <= q[j].nr
    IN [i \in DOMAIN sorted |-> sorted[i][field]]

\* FROM keys k JOIN objects o ON k.id = o.id WHERE k.type = :key_type
KeyRows(t, type) ==
    UNION {{[name |-> k.name, nr |-> nr, column |-> k.columns[nr]] : nr \in DOMAIN k.columns} :
             k \in {key \in catalog.keys : key.table = t /\ key.type = type}}

NamesIn(rows) == {r.name : r \in rows}

get_pk_constraint(t) ==
    LET rows == KeyRows(t, KEY_TYPE.primary)
    IN IF rows = {} THEN {}
       ELSE {[name |-> (CHOOSE r \in rows : TRUE).name, columns |-> InOrder(rows, "column")]}

get_unique_constraints(t) ==
    LET rows == KeyRows(t, KEY_TYPE.unique)
    IN {[name |-> n, columns |-> InOrder({r \in rows : r.name = n}, "column")] : n \in NamesIn(rows)}

get_check_constraints(t) == NamesIn(KeyRows(t, KEY_TYPE.check))

\* Mutant of ReferredSchema: no schema where it is the table's own.
OwnSchemaOmitted(t, k, arg) == IF k.rkey.table.schema = t.schema THEN None ELSE k.rkey.table.schema

ReferredSchema(t, k, arg) ==
    IF arg = None /\ k.rkey.table.schema = t.schema THEN None ELSE k.rkey.table.schema

\* ... AND fkc.nr = pkc.nr
get_foreign_keys(t, arg) ==
    {LET rows == {[nr |-> nr, column |-> k.columns[nr], referred |-> k.rkey.columns[nr]] :
                    nr \in (DOMAIN k.columns) \cap (DOMAIN k.rkey.columns)}
     IN [name |-> k.name,
         columns |-> InOrder(rows, "column"),
         referred_schema |-> ReferredSchema(t, k, arg),
         referred_table |-> k.rkey.table.name,
         referred_columns |-> InOrder(rows, "referred")] :
        k \in {key \in catalog.keys : key.table = t /\ key.type = KEY_TYPE.foreign}}

\* Mutant of KeysNamed: a key of that name on any table.
KeysNamedAnywhere(i) == {k \in catalog.keys : k.name = i.name}

\* LEFT JOIN keys k ON k.name = i.name AND k.table_id = i.table_id
KeysNamed(i) == {k \in catalog.keys : k.name = i.name /\ k.table = i.table}

\* The indexes of primary and foreign keys are left out; that of a unique
\* constraint is marked as its duplicate.
get_indexes(t) ==
    {LET types == {k.type : k \in KeysNamed(i)}
         rows == {[nr |-> nr, column |-> i.columns[nr], key |-> k] :
                    nr \in DOMAIN i.columns, k \in IF types = {} THEN {None} ELSE KeysNamed(i)}
     IN [name |-> i.name, columns |-> InOrder(rows, "column"),
         unique |-> KEY_TYPE.unique \in types, duplicates |-> KEY_TYPE.unique \in types] :
        i \in {idx \in catalog.idxs : /\ idx.table = t
                                      /\ \A k \in KeysNamed(idx) : k.type = KEY_TYPE.unique}}

has_index(t, name) == \E index \in get_indexes(t) : index.name = name

-----------------------------------------------------------------------------
(* The server.  A key has an index of its name, but for a CHECK.  Names are *)
(* unique within a table, and those of indexes within a schema.             *)

Acceptable(c, definitions) ==
    /\ \A d, e \in definitions : d # e => d.name # e.name /\ ~(d.kind = "primary" /\ e.kind = "primary")
    /\ \A d \in definitions :
          /\ d.columns \in Seq(Column)
          /\ ~\E k \in c.keys : k.table = d.table /\ (k.name = d.name \/ (k.type = 0 /\ d.kind = "primary"))
          /\ ~\E i \in c.idxs : i.name = d.name /\ (i.table = d.table \/
                                  (d.kind # "check" /\ i.table.schema = d.table.schema))

KeyOf(d, rkey) ==
    [table |-> d.table, name |-> d.name, type |-> KEY_TYPE[d.kind], columns |-> d.columns, rkey |-> rkey]

Matches(k, reference) ==
    k.table = reference.table /\ k.columns = reference.columns /\ k.type \in {0, 1}

\* Definitions are carried out on catalog c; a foreign key refers to some key
\* with the columns it names.
Stored(c, definitions) ==
    LET foreign == {d \in definitions : d.kind = "foreign"}
        known == c.keys \cup {KeyOf(d, None) : d \in {e \in definitions : e.kind \notin {"foreign", "index"}}}
        Of(r) == {KeyOf(d, r[d]) : d \in foreign}
    IN  {[keys |-> known \cup Of(r),
          idxs |-> c.idxs \cup {IndexOf(k) : k \in {key \in (known \cup Of(r)) : key.type # 4}}
                   \cup {IndexOf(d) : d \in {e \in definitions : e.kind = "index"}}] :
            r \in {f \in [foreign -> known] : \A d \in foreign : Matches(f[d], d.refers)}}

Without(c, tables) == [keys |-> {k \in c.keys : k.table \notin tables},
                       idxs |-> {i \in c.idxs : i.table \notin tables}]

Store(c, definitions) ==
    IF Acceptable(c, definitions) /\ Stored(c, definitions) # {}
    THEN refused' = FALSE /\ catalog' \in Stored(c, definitions)
    ELSE refused' = TRUE /\ UNCHANGED catalog

-----------------------------------------------------------------------------
(* DDL.                                                                    *)

\* An expression is a column under ASC, DESC and NULLS modifiers.
_strip_ordering(expression) == expression.column

\* ADD CONSTRAINT ... UNIQUE or CREATE INDEX
visit_create_index(index) ==
    [table |-> index.table, name |-> index.name,
     kind |-> IF index.unique THEN "unique" ELSE "index",
     columns |-> [i \in DOMAIN index.columns |->
                    _strip_ordering([column |-> index.columns[i], modifiers |-> index.modifiers])],
     refers |-> None]

\* Mutant of visit_drop_index: an index is an index.
DropIndexAlways(t, index) == [drop |-> "INDEX", of |-> t.schema, name |-> index.name]

\* ALTER TABLE ... DROP CONSTRAINT, or DROP INDEX with the schema
visit_drop_index(t, index) ==
    IF index.unique THEN [drop |-> "CONSTRAINT", of |-> t, name |-> index.name]
    ELSE [drop |-> "INDEX", of |-> t.schema, name |-> index.name]

Dropped(ddl) ==
    LET keys == IF ddl.drop = "INDEX" THEN {}
                ELSE {k \in catalog.keys : k.table = ddl.of /\ k.name = ddl.name}
        idxs == IF ddl.drop = "INDEX"
                THEN {i \in catalog.idxs : i.table.schema = ddl.of /\ i.name = ddl.name /\ KeysNamed(i) = {}}
                ELSE {IndexOf(k) : k \in keys} \cap catalog.idxs
    IN [keys |-> catalog.keys \ keys, idxs |-> catalog.idxs \ idxs]

\* Inspector.reflect_table, which passes over indexes that duplicate a
\* constraint: a table of metadata, by the schema it was asked for with.
Reflected(t, arg) ==
    {[table |-> t, name |-> r[2].name, kind |-> r[1], columns |-> r[2].columns, refers |-> None] :
        r \in {"primary"} \X get_pk_constraint(t)
              \cup {"unique"} \X get_unique_constraints(t)
              \cup {"index"} \X {i \in get_indexes(t) : ~i.duplicates}}
    \cup {[table |-> t, name |-> n, kind |-> "check",
           columns |-> (CHOOSE k \in catalog.keys : k.table = t /\ k.name = n).columns, refers |-> None] :
             n \in get_check_constraints(t)}
    \cup {[table |-> t, name |-> fk.name, kind |-> "foreign", columns |-> fk.columns,
           refers |-> [table |-> [schema |-> IF fk.referred_schema = None THEN Current
                                             ELSE fk.referred_schema,
                                  name |-> fk.referred_table],
                       columns |-> fk.referred_columns]] : fk \in get_foreign_keys(t, arg)}

Args(t) == {t.schema} \cup IF t.schema = Current THEN {None} ELSE {}

-----------------------------------------------------------------------------
TypeOK == /\ defined \subseteq Definition
          /\ catalog.keys \subseteq Key
          /\ \A k \in catalog.keys : k.rkey # None => k.rkey \in catalog.keys
          /\ \A i \in catalog.idxs : i.table \in Table /\ i.name \in Name /\ i.columns \in Columns
          /\ refused \in BOOLEAN

Init == defined = {} /\ catalog = [keys |-> {}, idxs |-> {}] /\ refused = FALSE

ReferredTo(k) == \E fk \in catalog.keys : fk.rkey = k

\* A constraint of CREATE TABLE or ALTER TABLE, which the server can take.
Define(d) ==
    /\ Cardinality(defined) < MaxDefined /\ d.kind # "index"
    /\ IF d.kind = "foreign" THEN \E k \in catalog.keys : d.refers # None /\ Matches(k, d.refers)
       ELSE d.refers = None
    /\ d.kind = "foreign" => Len(d.columns) = Len(d.refers.columns)
    /\ Acceptable(catalog, {d})
    /\ Store(catalog, {d})
    /\ defined' = defined \cup {d}

CreateIndex(index) ==
    LET d == [table |-> index.table, name |-> index.name, columns |-> index.columns,
              kind |-> IF index.unique THEN "unique" ELSE "index", refers |-> None]
    IN  /\ Cardinality(defined) < MaxDefined
        /\ Acceptable(catalog, {d})
        /\ Store(catalog, {visit_create_index(index)})
        /\ defined' = defined \cup {d}

\* An index is dropped that was reflected, and that no foreign key needs.
DropIndex(t, index) ==
    /\ ~\E k \in catalog.keys : k.table = t /\ k.name = index.name /\ ReferredTo(k)
    /\ catalog' = Dropped(visit_drop_index(t, index))
    /\ refused' = (catalog' = catalog)
    /\ defined' = {d \in defined : ~(d.table = t /\ d.name = index.name)}

\* The table is dropped and created again from its reflection.
Recreate(t, arg) ==
    /\ ~\E k \in catalog.keys : k.table # t /\ k.rkey # None /\ k.rkey.table = t
    /\ Store(Without(catalog, {t}), Reflected(t, arg))
    /\ UNCHANGED defined

Next == \/ \E d \in Definition : Define(d)
        \/ \E index \in [table : Table, name : Name, columns : Columns,
                         modifiers : 0 .. 2, unique : BOOLEAN] : CreateIndex(index)
        \/ \E t \in Table : \E index \in get_indexes(t) : DropIndex(t, index)
        \/ \E t \in Table : \E arg \in Args(t) : Recreate(t, arg)

Spec == Init /\ [][Next]_vars

-----------------------------------------------------------------------------
(* Properties.                                                             *)

Defined(t, kinds) == {[name |-> d.name, columns |-> d.columns] :
                        d \in {e \in defined : e.table = t /\ e.kind \in kinds}}

\* The catalog is well typed, and primary keys, unique and check constraints and
\* indexes are reported for the table that has them, with their columns in order
\* and once, however they came about; and "a UNIQUE constraint is backed by an
\* index of the same name, so it is reflected both by get_unique_constraints() and
\* by get_indexes()".
ReflectedAsDefined ==
    /\ TypeOK
    /\ \A t \in Table :
        LET indexes == get_indexes(t)
            Listed(some) == {[name |-> i.name, columns |-> i.columns] : i \in some}
        IN  /\ get_pk_constraint(t) = Defined(t, {"primary"})
            /\ get_unique_constraints(t) = Defined(t, {"unique"})
            /\ get_check_constraints(t) = NamesIn(Defined(t, {"check"}))
            /\ Listed(indexes) = Defined(t, {"unique", "index"})
            /\ Listed({i \in indexes : i.duplicates}) = Defined(t, {"unique"})
            /\ \A n \in Name : has_index(t, n) <=> n \in NamesIn(Defined(t, {"unique", "index"}))

\* A reflected foreign key pairs each column with the one it refers to, and
\* leads to the table it was defined for, whether the schema was named or not:
\* also when a table of the same name is in the current schema.
ReferencesResolve ==
    \A t \in Table : \A arg \in Args(t) :
        {d \in Reflected(t, arg) : d.kind = "foreign"}
            = {d \in defined : d.table = t /\ d.kind = "foreign"}

\* What the dialect reflects can be created again and dropped by the DDL it
\* emits: the index of a constraint is not created twice or dropped as an
\* index.
EmittedDDLAccepted == ~refused
=============================================================================

------------------------- MODULE KeyReflectionProofs -------------------------
(***************************************************************************)
(* The safety invariants of KeyReflection, for any tables, names, columns  *)
(* and any number of keys and indexes.                                     *)
(*                                                                         *)
(* The three invariants all follow from one link between what the          *)
(* application defined and what the server keeps (Linked): each definition *)
(* has its key and each key its definition, an index stands for a key or   *)
(* for a definition of its own, and names identify them.  The link is kept *)
(* by every piece of DDL, and by a table's being dropped and created again *)
(* because its reflection is exactly what was defined for it.  The same    *)
(* for the sequences of SequenceReflection follows at the end.             *)
(***************************************************************************)
EXTENDS KeyReflection, SequenceReflection, FiniteSetTheorems, TLAPS

\* What the application defines: a foreign key names as many columns as it has,
\* and nothing else refers to anything.
WellDefined(d) ==
    /\ d \in Definition
    /\ IF d.kind = "foreign"
       THEN d.refers \in Reference /\ Len(d.columns) = Len(d.refers.columns)
       ELSE d.refers = None

\* Names identify keys and indexes within a table, and indexes within a schema.
Distinct(definitions) ==
    \A d, e \in definitions :
        /\ d.table = e.table /\ d.name = e.name => d = e
        /\ d.table = e.table /\ d.kind = "primary" /\ e.kind = "primary" => d = e
        /\ d.table.schema = e.table.schema /\ d.name = e.name
              /\ d.kind # "check" /\ e.kind # "check" => d = e

\* The key k is what the server made of the definition d.
Made(d, k) ==
    /\ d.kind # "index"
    /\ k.table = d.table /\ k.name = d.name
    /\ k.type = KEY_TYPE[d.kind] /\ k.columns = d.columns
    /\ IF d.kind = "foreign" THEN k.rkey \in Referred /\ Matches(k.rkey, d.refers)
       ELSE k.rkey = None

\* The rows of catalog c are those of the definitions.
Linked(c, definitions) ==
    /\ \A d \in definitions : WellDefined(d)
    /\ Distinct(definitions)
    /\ \A k \in c.keys : /\ k \in Key /\ (k.rkey # None => k.rkey \in c.keys)
                         /\ \E d \in definitions : Made(d, k)
    /\ \A d \in definitions : d.kind # "index" => \E k \in c.keys : Made(d, k)
    /\ \A k, l \in c.keys : k.table = l.table /\ k.name = l.name => k = l
    /\ c.idxs = {IndexOf(k) : k \in {key \in c.keys : key.type # 4}}
                \cup {IndexOf(d) : d \in {e \in definitions : e.kind = "index"}}

IInv == Linked(catalog, defined) /\ refused = FALSE

-----------------------------------------------------------------------------
(* Rows in order.                                                          *)

\* A strictly increasing map of 1..n into itself moves nothing.
LEMMA IncreasingIsIdentity ==
    ASSUME NEW n \in Nat, NEW g \in [1..n -> 1..n],
           \A i, j \in 1..n : i < j => g[i] < g[j],
           NEW i \in 1..n
    PROVE  g[i] = i
  <1>1. g[i] \in 1..n
    OBVIOUS
  <1>2. ASSUME g[i] < i PROVE FALSE
    <2> DEFINE f == [j \in 1..i |-> g[j]]
    <2>1. ASSUME NEW j \in 1..i PROVE g[j] \in 1..g[i]
      <3>1. j \in 1..n /\ (j = i \/ j < i)
        OBVIOUS
      <3>2. g[j] \in 1..n
        BY <3>1
      <3>3. j = i \/ g[j] < g[i]
        BY <3>1
      <3>4. g[j] <= g[i]
        BY <1>1, <3>2, <3>3
      <3> QED
        BY <1>1, <3>2, <3>4
    <2>2. f \in [1..i -> 1..g[i]]
      BY <2>1
    <2>3. /\ IsFiniteSet(1..i) /\ Cardinality(1..i) = i
          /\ IsFiniteSet(1..g[i]) /\ Cardinality(1..g[i]) = g[i]
      BY <1>1, FS_Interval
    <2> HIDE DEF f
    <2>4. PICK x \in 1..i, y \in 1..i : x # y /\ f[x] = f[y]
      <3>1. Cardinality(1..g[i]) < Cardinality(1..i)
        BY <1>2, <2>3
      <3>2. IsFiniteSet(1..i) /\ IsFiniteSet(1..g[i])
        BY <2>3
      <3> QED
        BY <2>2, <3>1, <3>2, FS_PigeonHole
    <2>5. g[x] = g[y]
      BY <2>4 DEF f
    <2> QED
      BY <2>4, <2>5
  <1>3. ASSUME g[i] > i PROVE FALSE
    <2> DEFINE f == [j \in i..n |-> g[j]]
    <2>1. ASSUME NEW j \in i..n PROVE g[j] \in g[i]..n
      <3>1. j \in 1..n /\ g[j] \in 1..n /\ (j = i \/ i < j)
        OBVIOUS
      <3>2. j = i \/ g[i] < g[j]
        BY <3>1
      <3>3. g[i] <= g[j]
        <4>1. CASE j = i
          BY <1>1, <4>1
        <4>2. CASE g[i] < g[j]
          BY <1>1, <3>1, <4>2
        <4> QED
          BY <3>2, <4>1, <4>2
      <3> QED
        BY <1>1, <3>1, <3>3
    <2>2. f \in [i..n -> g[i]..n]
      BY <2>1
    <2>3. /\ IsFiniteSet(i..n) /\ Cardinality(i..n) = n - i + 1
          /\ IsFiniteSet(g[i]..n) /\ Cardinality(g[i]..n) = n - g[i] + 1
      BY <1>1, FS_Interval
    <2> HIDE DEF f
    <2>4. PICK x \in i..n, y \in i..n : x # y /\ f[x] = f[y]
      <3>1. Cardinality(g[i]..n) < Cardinality(i..n)
        BY <1>1, <1>3, <2>3
      <3> QED
        BY <2>2, <2>3, <3>1, FS_PigeonHole
    <2>5. g[x] = g[y]
      BY <2>4 DEF f
    <2> QED
      BY <2>4, <2>5
  <1> QED
    BY <1>1, <1>2, <1>3

\* Rows that number the columns of a sequence, one for each, give the sequence
\* back.
LEMMA InOrderOf ==
    ASSUME NEW columns \in Seq(Column), NEW rows, NEW field,
           \A r \in rows : r.nr \in 1..Len(columns) /\ r[field] = columns[r.nr],
           \A r, s \in rows : r.nr = s.nr => r = s,
           \A i \in 1..Len(columns) : \E r \in rows : r.nr = i
    PROVE  InOrder(rows, field) = columns
  <1> DEFINE n == Len(columns)
             row == [i \in 1..n |-> CHOOSE r \in rows : r.nr = i]
             Sorted(q) == \A i, j \in DOMAIN q : i < j => q[i] # q[j] /\ q[i].nr <= q[j].nr
             sorted == CHOOSE q \in [1..Cardinality(rows) -> rows] : Sorted(q)
  <1>1. n \in Nat
    OBVIOUS
  <1>2. \A i \in 1..n : row[i] \in rows /\ row[i].nr = i
    OBVIOUS
  <1> HIDE DEF n, row
  <1>3. row \in [1..n -> rows]
    BY <1>2 DEF row
  <1>4. row \in Bijection(1..n, rows)
    <2>1. \A i, j \in 1..n : row[i] = row[j] => i = j
      BY <1>2
    <2>2. \A r \in rows : \E i \in 1..n : row[i] = r
      BY <1>2 DEF n
    <2> QED
      BY <1>3, <2>1, <2>2 DEF Bijection, Injection, Surjection, IsInjective
  <1>5. Cardinality(rows) = n
    <2>1. IsFiniteSet(1..n) /\ Cardinality(1..n) = n
      BY <1>1, FS_Interval
    <2>2. ExistsBijection(1..n, rows)
      BY <1>4 DEF ExistsBijection
    <2> QED
      BY <2>1, <2>2, FS_Bijection
  <1>6. Sorted(row)
    BY <1>1, <1>2, <1>3
  <1>7. sorted \in [1..n -> rows] /\ Sorted(sorted)
    <2>1. \E q \in [1..Cardinality(rows) -> rows] : Sorted(q)
      BY <1>3, <1>5, <1>6
    <2> HIDE DEF Sorted
    <2> QED
      BY <1>5, <2>1
  <1>8. InOrder(rows, field) = [i \in DOMAIN sorted |-> sorted[i][field]]
    BY DEF InOrder
  <1> HIDE DEF sorted
  <1> DEFINE g == [i \in 1..n |-> sorted[i].nr]
  <1>9. g \in [1..n -> 1..n]
    BY <1>7 DEF n
  <1>10. \A i, j \in 1..n : i < j => g[i] < g[j]
    <2> SUFFICES ASSUME NEW i \in 1..n, NEW j \in 1..n, i < j PROVE g[i] < g[j]
      OBVIOUS
    <2>1. sorted[i] \in rows /\ sorted[j] \in rows
      BY <1>7
    <2>2. sorted[i] # sorted[j] /\ sorted[i].nr <= sorted[j].nr
      BY <1>7
    <2>3. sorted[i].nr # sorted[j].nr
      BY <2>1, <2>2
    <2> QED
      BY <2>1, <2>2, <2>3 DEF n
  <1>11. \A i \in 1..n : g[i] = i
    <2> HIDE DEF g
    <2> QED
      BY <1>1, <1>9, <1>10, IncreasingIsIdentity
  <1>12. \A i \in 1..n : sorted[i][field] = columns[i]
    BY <1>7, <1>11
  <1> QED
    BY <1>7, <1>8, <1>12 DEF n

-----------------------------------------------------------------------------
(* Shapes.                                                                 *)

LEMMA KeyTypes ==
    /\ KEY_TYPE["primary"] = 0 /\ KEY_TYPE["unique"] = 1
    /\ KEY_TYPE["foreign"] = 2 /\ KEY_TYPE["check"] = 4
  BY DEF KEY_TYPE

LEMMA ColumnsShape ==
    ASSUME NEW columns \in Columns
    PROVE  /\ columns \in Seq(Column) /\ columns # <<>>
           /\ Len(columns) \in Nat /\ 1 \in 1..Len(columns)
           /\ DOMAIN columns = 1..Len(columns)
  BY KeyAssumption

LEMMA KeyShape ==
    ASSUME NEW k \in Key
    PROVE  /\ k.table \in Table /\ k.name \in Name /\ k.columns \in Columns
           /\ k.type \in {0, 1, 2, 4}
           /\ k.type = 2 => k.rkey \in Referred
           /\ k.type # 2 => k.rkey = None
           /\ k.type \in {0, 1} => k \in Referred
           /\ k = [table |-> k.table, name |-> k.name, type |-> k.type,
                   columns |-> k.columns, rkey |-> k.rkey]
  BY DEF Key, Referred

LEMMA ReferredShape ==
    ASSUME NEW k \in Referred
    PROVE  k \in Key /\ k.table \in Table /\ k.columns \in Columns /\ k.type \in {0, 1} /\ k # None
  BY NoneAssumption DEF Key, Referred

LEMMA DefinitionShape ==
    ASSUME NEW d, WellDefined(d)
    PROVE  /\ d.table \in Table /\ d.name \in Name /\ d.columns \in Columns
           /\ d.kind \in {"primary", "unique", "foreign", "check", "index"}
           /\ d.kind = "foreign" => d.refers \in Reference /\ Len(d.columns) = Len(d.refers.columns)
           /\ d.kind # "foreign" => d.refers = None
           /\ d = [table |-> d.table, name |-> d.name, kind |-> d.kind,
                   columns |-> d.columns, refers |-> d.refers]
  BY DEF WellDefined, Definition

\* The type of a key tells the kind of its definition.
Fits(d, k) ==
    /\ k.table = d.table /\ k.name = d.name /\ k.columns = d.columns
    /\ k.type = 0 <=> d.kind = "primary"
    /\ k.type = 1 <=> d.kind = "unique"
    /\ k.type = 2 <=> d.kind = "foreign"
    /\ k.type = 4 <=> d.kind = "check"
    /\ k.type = KEY_TYPE[d.kind] /\ d.kind # "index"

LEMMA MadeFits ==
    ASSUME NEW d, NEW k, WellDefined(d), Made(d, k)
    PROVE  Fits(d, k)
  BY KeyTypes, DefinitionShape DEF Made, Fits

-----------------------------------------------------------------------------
(* The rows of keys.                                                       *)

LEMMA DefinitionOfKey ==
    ASSUME Linked(catalog, defined), NEW k \in catalog.keys
    PROVE  \E d \in defined : Made(d, k) /\ Fits(d, k)
  BY MadeFits DEF Linked

LEMMA KeyOfDefinition ==
    ASSUME Linked(catalog, defined), NEW d \in defined, d.kind # "index"
    PROVE  \E k \in catalog.keys : Made(d, k) /\ Fits(d, k)
  BY MadeFits DEF Linked

\* The rows of one key, by nr, give its columns in order.
LEMMA KeyRowsInOrder ==
    ASSUME NEW name, NEW columns \in Columns
    PROVE  InOrder({[name |-> name, nr |-> nr, column |-> columns[nr]] : nr \in DOMAIN columns}, "column")
               = columns
  <1> DEFINE rows == {[name |-> name, nr |-> nr, column |-> columns[nr]] : nr \in DOMAIN columns}
  <1>1. columns \in Seq(Column) /\ DOMAIN columns = 1..Len(columns)
    BY ColumnsShape
  <1>2. \A r \in rows : r.nr \in 1..Len(columns) /\ r["column"] = columns[r.nr]
    BY <1>1
  <1>3. \A r, q \in rows : r.nr = q.nr => r = q
    OBVIOUS
  <1>4. \A i \in 1..Len(columns) : \E r \in rows : r.nr = i
    <2> SUFFICES ASSUME NEW i \in 1..Len(columns) PROVE \E r \in rows : r.nr = i
      OBVIOUS
    <2>1. [name |-> name, nr |-> i, column |-> columns[i]] \in rows
      BY <1>1
    <2> QED
      BY <2>1
  <1> HIDE DEF rows
  <1>5. InOrder(rows, "column") = columns
    BY <1>1, <1>2, <1>3, <1>4, InOrderOf
  <1> QED
    BY <1>5 DEF rows

\* The rows under the name of a key are its own, and there are some.
LEMMA KeyRowsOf ==
    ASSUME Linked(catalog, defined), NEW k \in catalog.keys
    PROVE  /\ k.name \in NamesIn(KeyRows(k.table, k.type))
           /\ InOrder({r \in KeyRows(k.table, k.type) : r.name = k.name}, "column") = k.columns
  <1> DEFINE RowsOf(l) == {[name |-> l.name, nr |-> nr, column |-> l.columns[nr]] : nr \in DOMAIN l.columns}
             rows == KeyRows(k.table, k.type)
  <1>1. rows = UNION {RowsOf(l) : l \in {key \in catalog.keys : key.table = k.table /\ key.type = k.type}}
    BY DEF KeyRows
  <1>2. \A l \in catalog.keys : l.table = k.table /\ l.name = k.name => l = k
    BY DEF Linked
  <1>3. \A l : \A r \in RowsOf(l) : r.name = l.name
    OBVIOUS
  <1>4. k.columns \in Columns
    BY KeyShape DEF Linked
  <1>5. RowsOf(k) # {}
    <2>1. 1 \in DOMAIN k.columns
      BY <1>4, ColumnsShape
    <2> QED
      BY <2>1
  <1>6. InOrder(RowsOf(k), "column") = k.columns
    BY <1>4, KeyRowsInOrder
  <1> HIDE DEF RowsOf, rows
  <1>7. RowsOf(k) \subseteq rows
    BY <1>1
  <1>8. {r \in rows : r.name = k.name} = RowsOf(k)
    BY <1>1, <1>2, <1>3, <1>7
  <1>9. k.name \in NamesIn(rows)
    BY <1>5, <1>8 DEF NamesIn
  <1>10. InOrder({r \in rows : r.name = k.name}, "column") = k.columns
    BY <1>6, <1>8
  <1> QED
    BY <1>9, <1>10 DEF rows

LEMMA KeyRowsNames ==
    ASSUME Linked(catalog, defined), NEW t, NEW type
    PROVE  NamesIn(KeyRows(t, type))
               = {k.name : k \in {key \in catalog.keys : key.table = t /\ key.type = type}}
  <1>1. ASSUME NEW r \in KeyRows(t, type)
        PROVE  \E k \in catalog.keys : k.table = t /\ k.type = type /\ r.name = k.name
    <2>1. PICK k \in {key \in catalog.keys : key.table = t /\ key.type = type} :
              r \in {[name |-> k.name, nr |-> nr, column |-> k.columns[nr]] : nr \in DOMAIN k.columns}
      BY DEF KeyRows
    <2> QED
      BY <2>1
  <1>2. ASSUME NEW k \in catalog.keys, k.table = t, k.type = type
        PROVE  k.name \in NamesIn(KeyRows(t, type))
    BY <1>2, KeyRowsOf
  <1>3. ASSUME NEW n \in NamesIn(KeyRows(t, type))
        PROVE  \E k \in catalog.keys : k.table = t /\ k.type = type /\ n = k.name
    BY <1>1 DEF NamesIn
  <1> QED
    BY <1>2, <1>3

-----------------------------------------------------------------------------
(* The getters, and what was defined.                                      *)

\* At most one primary key.
LEMMA PrimaryReflected ==
    ASSUME Linked(catalog, defined), NEW t
    PROVE  get_pk_constraint(t) = Defined(t, {"primary"})
  <1> DEFINE rows == KeyRows(t, 0)
  <1>1. get_pk_constraint(t) =
            IF rows = {} THEN {}
            ELSE {[name |-> (CHOOSE r \in rows : TRUE).name, columns |-> InOrder(rows, "column")]}
    BY KeyTypes DEF get_pk_constraint
  <1>2. CASE \E k \in catalog.keys : k.table = t /\ k.type = 0
    <2>1. PICK k \in catalog.keys : k.table = t /\ k.type = 0
      BY <1>2
    <2>2. PICK d \in defined : Made(d, k) /\ Fits(d, k)
      BY <2>1, DefinitionOfKey
    <2>3. ASSUME NEW l \in catalog.keys, l.table = t, l.type = 0 PROVE l = k
      <3>1. PICK e \in defined : Made(e, l) /\ Fits(e, l)
        BY DefinitionOfKey
      <3>2. e = d
        BY <2>1, <2>2, <2>3, <3>1 DEF Linked, Distinct, Fits
      <3> QED
        BY <2>1, <2>2, <3>1, <3>2 DEF Linked, Fits
    <2>4. \A r \in rows : r.name = k.name
      <3>1. NamesIn(rows) = {k.name}
        BY <2>1, <2>3, KeyRowsNames
      <3> QED
        BY <3>1 DEF NamesIn
    <2>5. rows # {} /\ InOrder(rows, "column") = k.columns
      <3>1. \E r \in rows : r.name = k.name
        BY <2>1, KeyRowsOf DEF NamesIn
      <3>2. InOrder({r \in rows : r.name = k.name}, "column") = k.columns
        BY <2>1, KeyRowsOf
      <3>3. {r \in rows : r.name = k.name} = rows
        BY <2>4
      <3> QED
        BY <3>1, <3>2, <3>3
    <2> HIDE DEF rows
    <2>6. get_pk_constraint(t) = {[name |-> k.name, columns |-> k.columns]}
      <3>1. (CHOOSE r \in rows : TRUE).name = k.name
        BY <2>4, <2>5
      <3> QED
        BY <1>1, <2>5, <3>1
    <2>7. {e \in defined : e.table = t /\ e.kind \in {"primary"}} = {d}
      BY <2>1, <2>2 DEF Linked, Distinct, Fits
    <2>8. Defined(t, {"primary"}) = {[name |-> d.name, columns |-> d.columns]}
      BY <2>7 DEF Defined
    <2> QED
      BY <2>2, <2>6, <2>8 DEF Fits
  <1>3. CASE ~\E k \in catalog.keys : k.table = t /\ k.type = 0
    <2>1. rows = {}
      BY <1>3 DEF KeyRows
    <2>2. ASSUME NEW d \in defined, d.table = t, d.kind = "primary" PROVE FALSE
      <3>1. PICK k \in catalog.keys : Fits(d, k)
        BY <2>2, KeyOfDefinition
      <3> QED
        BY <1>3, <2>2, <3>1 DEF Fits
    <2>3. Defined(t, {"primary"}) = {}
      BY <2>2 DEF Defined
    <2> QED
      BY <1>1, <2>1, <2>3
  <1> QED
    BY <1>2, <1>3

LEMMA UniqueReflected ==
    ASSUME Linked(catalog, defined), NEW t
    PROVE  get_unique_constraints(t) = Defined(t, {"unique"})
  <1> DEFINE rows == KeyRows(t, 1)
             keys == {k \in catalog.keys : k.table = t /\ k.type = 1}
             Told(n) == [name |-> n, columns |-> InOrder({r \in rows : r.name = n}, "column")]
  <1>1. get_unique_constraints(t) = {Told(n) : n \in NamesIn(rows)}
    BY KeyTypes DEF get_unique_constraints
  <1>2. NamesIn(rows) = {k.name : k \in keys}
    BY KeyRowsNames
  <1>3. ASSUME NEW k \in keys PROVE Told(k.name) = [name |-> k.name, columns |-> k.columns]
    BY KeyRowsOf
  <1> HIDE DEF Told, rows
  <1>4. ASSUME NEW x \in get_unique_constraints(t) PROVE x \in Defined(t, {"unique"})
    <2>1. PICK n \in NamesIn(rows) : x = Told(n)
      BY <1>1
    <2>2. PICK k \in keys : n = k.name
      BY <1>2
    <2>3. x = [name |-> k.name, columns |-> k.columns]
      BY <1>3, <2>1, <2>2
    <2>4. PICK d \in defined : Fits(d, k)
      BY DefinitionOfKey
    <2> QED
      BY <2>3, <2>4 DEF Defined, Fits
  <1>5. ASSUME NEW x \in Defined(t, {"unique"}) PROVE x \in get_unique_constraints(t)
    <2>1. PICK d \in defined : d.table = t /\ d.kind = "unique"
                                /\ x = [name |-> d.name, columns |-> d.columns]
      BY DEF Defined
    <2>2. PICK k \in catalog.keys : Fits(d, k)
      BY <2>1, KeyOfDefinition
    <2>3. k \in keys /\ x = Told(k.name)
      BY <1>3, <2>1, <2>2 DEF Fits
    <2> QED
      BY <1>1, <1>2, <2>3
  <1> QED
    BY <1>4, <1>5

LEMMA ChecksReflected ==
    ASSUME Linked(catalog, defined), NEW t
    PROVE  get_check_constraints(t) = NamesIn(Defined(t, {"check"}))
  <1> DEFINE keys == {k \in catalog.keys : k.table = t /\ k.type = 4}
  <1>1. get_check_constraints(t) = {k.name : k \in keys}
    BY KeyRowsNames, KeyTypes DEF get_check_constraints
  <1>2. NamesIn(Defined(t, {"check"})) = {d.name : d \in {e \in defined : e.table = t /\ e.kind = "check"}}
    <2>1. ASSUME NEW n \in NamesIn(Defined(t, {"check"}))
          PROVE  \E d \in defined : d.table = t /\ d.kind = "check" /\ n = d.name
      <3>1. PICK r \in Defined(t, {"check"}) : n = r.name
        BY DEF NamesIn
      <3> QED
        BY <3>1 DEF Defined
    <2>2. ASSUME NEW d \in defined, d.table = t, d.kind = "check"
          PROVE  d.name \in NamesIn(Defined(t, {"check"}))
      <3>1. [name |-> d.name, columns |-> d.columns] \in Defined(t, {"check"})
        BY <2>2 DEF Defined
      <3> QED
        BY <3>1 DEF NamesIn
    <2> QED
      BY <2>1, <2>2
  <1>3. ASSUME NEW k \in keys
        PROVE  \E d \in defined : d.table = t /\ d.kind = "check" /\ d.name = k.name
    BY DefinitionOfKey DEF Fits
  <1>4. ASSUME NEW d \in defined, d.table = t, d.kind = "check"
        PROVE  \E k \in keys : d.name = k.name
    BY <1>4, KeyOfDefinition DEF Fits
  <1> HIDE DEF keys
  <1> QED
    BY <1>1, <1>2, <1>3, <1>4

\* What is told of a foreign key: its columns beside those of the key it refers to.
ForeignTold(t, k, arg) ==
    [name |-> k.name, columns |-> k.columns,
     referred_schema |-> ReferredSchema(t, k, arg), referred_table |-> k.rkey.table.name,
     referred_columns |-> k.rkey.columns]

LEMMA PairsInOrder ==
    ASSUME NEW columns \in Columns, NEW others \in Columns, Len(columns) = Len(others)
    PROVE  LET rows == {[nr |-> nr, column |-> columns[nr], referred |-> others[nr]] :
                           nr \in (DOMAIN columns) \cap (DOMAIN others)}
           IN  InOrder(rows, "column") = columns /\ InOrder(rows, "referred") = others
  <1> DEFINE rows == {[nr |-> nr, column |-> columns[nr], referred |-> others[nr]] :
                         nr \in (DOMAIN columns) \cap (DOMAIN others)}
  <1>1. /\ columns \in Seq(Column) /\ DOMAIN columns = 1..Len(columns)
        /\ others \in Seq(Column) /\ DOMAIN others = 1..Len(others)
    BY ColumnsShape
  <1>2. \A r \in rows : /\ r.nr \in 1..Len(columns)
                        /\ r["column"] = columns[r.nr] /\ r["referred"] = others[r.nr]
    BY <1>1
  <1>3. \A r, q \in rows : r.nr = q.nr => r = q
    OBVIOUS
  <1>4. ASSUME NEW i \in 1..Len(columns) PROVE \E r \in rows : r.nr = i
    <2>1. [nr |-> i, column |-> columns[i], referred |-> others[i]] \in rows
      BY <1>1
    <2> QED
      BY <2>1
  <1> HIDE DEF rows
  <1>5. InOrder(rows, "column") = columns
    BY <1>1, <1>2, <1>3, <1>4, InOrderOf
  <1>6. InOrder(rows, "referred") = others
    BY <1>1, <1>2, <1>3, <1>4, InOrderOf
  <1> QED
    BY <1>5, <1>6 DEF rows

LEMMA ForeignKeysTold ==
    ASSUME Linked(catalog, defined), NEW t, NEW arg
    PROVE  get_foreign_keys(t, arg) =
               {ForeignTold(t, k, arg) : k \in {key \in catalog.keys : key.table = t /\ key.type = 2}}
  <1> DEFINE RowsOf(k) == {[nr |-> nr, column |-> k.columns[nr], referred |-> k.rkey.columns[nr]] :
                              nr \in (DOMAIN k.columns) \cap (DOMAIN k.rkey.columns)}
             Told(k) == [name |-> k.name,
                         columns |-> InOrder(RowsOf(k), "column"),
                         referred_schema |-> ReferredSchema(t, k, arg),
                         referred_table |-> k.rkey.table.name,
                         referred_columns |-> InOrder(RowsOf(k), "referred")]
  <1>1. get_foreign_keys(t, arg) =
            {Told(k) : k \in {key \in catalog.keys : key.table = t /\ key.type = 2}}
    BY KeyTypes DEF get_foreign_keys
  <1>2. ASSUME NEW k \in catalog.keys, k.type = 2
        PROVE  Told(k) = ForeignTold(t, k, arg)
    <2>1. PICK d \in defined : Made(d, k) /\ Fits(d, k)
      BY DefinitionOfKey
    <2>2. k.columns \in Columns /\ k.rkey.columns \in Columns
      <3>1. k \in Key
        BY DEF Linked
      <3> QED
        BY <1>2, <3>1, KeyShape, ReferredShape
    <2>3. Len(k.columns) = Len(k.rkey.columns)
      BY <1>2, <2>1, DefinitionShape DEF Linked, Made, Fits, Matches
    <2>4. InOrder(RowsOf(k), "column") = k.columns /\ InOrder(RowsOf(k), "referred") = k.rkey.columns
      BY <2>2, <2>3, PairsInOrder
    <2> QED
      BY <2>4 DEF ForeignTold
  <1> HIDE DEF Told
  <1> QED
    BY <1>1, <1>2

\* A schema that is left out is the table's own, and the current one.
LEMMA SchemaResolved ==
    ASSUME NEW t \in Table, NEW arg \in Args(t), NEW k, k.rkey.table \in Table
    PROVE  (IF ReferredSchema(t, k, arg) = None THEN Current ELSE ReferredSchema(t, k, arg))
               = k.rkey.table.schema
  <1>1. t.schema # None /\ k.rkey.table.schema # None
    BY KeyAssumption
  <1>2. arg = t.schema \/ (arg = None /\ t.schema = Current)
    BY DEF Args
  <1> QED
    BY <1>1, <1>2 DEF ReferredSchema

\* The definition that a table of metadata has for a reflected foreign key.
ForeignOf(t, fk) ==
    [table |-> t, name |-> fk.name, kind |-> "foreign", columns |-> fk.columns,
     refers |-> [table |-> [schema |-> IF fk.referred_schema = None THEN Current
                                       ELSE fk.referred_schema,
                            name |-> fk.referred_table],
                 columns |-> fk.referred_columns]]

LEMMA ForeignReflected ==
    ASSUME Linked(catalog, defined), NEW t \in Table, NEW arg \in Args(t)
    PROVE  {ForeignOf(t, fk) : fk \in get_foreign_keys(t, arg)}
               = {d \in defined : d.table = t /\ d.kind = "foreign"}
  <1> DEFINE keys == {key \in catalog.keys : key.table = t /\ key.type = 2}
  <1>1. ASSUME NEW k \in keys, NEW d \in defined, Made(d, k), Fits(d, k)
        PROVE  ForeignOf(t, ForeignTold(t, k, arg)) = d
    <2>1. /\ d.kind = "foreign" /\ d.refers \in Reference
          /\ d = [table |-> d.table, name |-> d.name, kind |-> d.kind,
                  columns |-> d.columns, refers |-> d.refers]
      BY <1>1, DefinitionShape DEF Linked, Fits
    <2>2. k.rkey.table = d.refers.table /\ k.rkey.columns = d.refers.columns /\ k.rkey \in Referred
      BY <1>1, <2>1 DEF Made, Matches
    <2>3. k.rkey.table \in Table
      BY <2>2, ReferredShape
    <2>4. k.rkey.table = [schema |-> k.rkey.table.schema, name |-> k.rkey.table.name]
      BY <2>3, KeyAssumption
    <2>5. d.refers = [table |-> d.refers.table, columns |-> d.refers.columns]
      BY <2>1 DEF Reference
    <2>6. (IF ReferredSchema(t, k, arg) = None THEN Current ELSE ReferredSchema(t, k, arg))
              = k.rkey.table.schema
      BY <2>3, SchemaResolved
    <2> DEFINE schema == IF ReferredSchema(t, k, arg) = None THEN Current ELSE ReferredSchema(t, k, arg)
    <2>7. ForeignOf(t, ForeignTold(t, k, arg)) =
              [table |-> t, name |-> k.name, kind |-> "foreign", columns |-> k.columns,
               refers |-> [table |-> [schema |-> schema, name |-> k.rkey.table.name],
                           columns |-> k.rkey.columns]]
      BY DEF ForeignOf, ForeignTold
    <2>8. schema = k.rkey.table.schema
      BY <2>6
    <2> HIDE DEF schema
    <2>9. [table |-> [schema |-> schema, name |-> k.rkey.table.name], columns |-> k.rkey.columns] = d.refers
      BY <2>2, <2>4, <2>5, <2>8
    <2>10. t = d.table /\ k.name = d.name /\ k.columns = d.columns
      BY <1>1 DEF Fits
    <2> QED
      BY <2>1, <2>7, <2>9, <2>10
  <1>2. get_foreign_keys(t, arg) = {ForeignTold(t, k, arg) : k \in keys}
    BY ForeignKeysTold
  <1>3. ASSUME NEW k \in keys
        PROVE  \E d \in defined : /\ d.table = t /\ d.kind = "foreign"
                                  /\ ForeignOf(t, ForeignTold(t, k, arg)) = d
    <2>1. PICK d \in defined : Made(d, k) /\ Fits(d, k)
      BY DefinitionOfKey
    <2> QED
      BY <1>1, <2>1 DEF Fits
  <1>4. ASSUME NEW d \in defined, d.table = t, d.kind = "foreign"
        PROVE  \E k \in keys : ForeignOf(t, ForeignTold(t, k, arg)) = d
    <2>1. PICK k \in catalog.keys : Made(d, k) /\ Fits(d, k)
      BY <1>4, KeyOfDefinition
    <2>2. k \in keys
      BY <1>4, <2>1 DEF Fits
    <2> QED
      BY <1>1, <2>1, <2>2
  <1> HIDE DEF keys
  <1> QED
    BY <1>2, <1>3, <1>4

\* The keys that an index is joined to: its own, if it has one.
LEMMA KeysOfIndex ==
    ASSUME Linked(catalog, defined)
    PROVE  /\ \A k \in catalog.keys : KeysNamed(IndexOf(k)) = {k}
           /\ \A d \in defined : d.kind = "index" => KeysNamed(IndexOf(d)) = {}
  <1>1. ASSUME NEW k \in catalog.keys PROVE KeysNamed(IndexOf(k)) = {k}
    BY DEF Linked, KeysNamed, IndexOf
  <1>2. ASSUME NEW d \in defined, d.kind = "index" PROVE KeysNamed(IndexOf(d)) = {}
    <2>1. KeysNamed(IndexOf(d)) = {k \in catalog.keys : k.name = d.name /\ k.table = d.table}
      BY DEF KeysNamed, IndexOf
    <2>2. ASSUME NEW k \in catalog.keys, k.name = d.name, k.table = d.table PROVE FALSE
      <3>1. PICK e \in defined : Fits(e, k)
        BY DefinitionOfKey
      <3>2. e.table = d.table /\ e.name = d.name
        BY <2>2, <3>1 DEF Fits
      <3>3. e = d
        BY <3>2 DEF Linked, Distinct
      <3> QED
        BY <1>2, <3>1, <3>3 DEF Fits
    <2> QED
      BY <2>1, <2>2
  <1> QED
    BY <1>1, <1>2

\* The rows of one index, joined to one key or to none.
JoinedRows(columns, keys) ==
    {[nr |-> nr, column |-> columns[nr], key |-> k] : nr \in DOMAIN columns, k \in keys}

LEMMA IndexRowsInOrder ==
    ASSUME NEW columns \in Columns, NEW key
    PROVE  InOrder(JoinedRows(columns, {key}), "column") = columns
  <1> DEFINE rows == JoinedRows(columns, {key})
  <1>1. columns \in Seq(Column) /\ DOMAIN columns = 1..Len(columns)
    BY ColumnsShape
  <1>2. \A r \in rows : r.nr \in 1..Len(columns) /\ r["column"] = columns[r.nr]
    BY <1>1 DEF JoinedRows
  <1>3. \A r, q \in rows : r.nr = q.nr => r = q
    BY DEF JoinedRows
  <1>4. ASSUME NEW i \in 1..Len(columns) PROVE \E r \in rows : r.nr = i
    <2>1. [nr |-> i, column |-> columns[i], key |-> key] \in rows
      BY <1>1 DEF JoinedRows
    <2> QED
      BY <2>1
  <1> HIDE DEF rows
  <1>5. InOrder(rows, "column") = columns
    BY <1>1, <1>2, <1>3, <1>4, InOrderOf
  <1> QED
    BY <1>5 DEF rows

\* What is told of an index that is joined to those keys.
IndexRows(i, keys) == JoinedRows(i.columns, IF {l.type : l \in keys} = {} THEN {None} ELSE keys)

OfUnique(keys) == KEY_TYPE.unique \in {l.type : l \in keys}

IndexEntry(i, keys) ==
    [name |-> i.name, columns |-> InOrder(IndexRows(i, keys), "column"),
     unique |-> OfUnique(keys), duplicates |-> OfUnique(keys)]

\* What is told of an index that was defined, by itself or with a constraint.
IndexTold(d) == [name |-> d.name, columns |-> d.columns,
                 unique |-> d.kind = "unique", duplicates |-> d.kind = "unique"]

LEMMA IndexToldShape ==
    ASSUME NEW d
    PROVE  /\ IndexTold(d).name = d.name /\ IndexTold(d).columns = d.columns
           /\ d.kind = "unique" => IndexTold(d).duplicates /\ IndexTold(d).unique
           /\ d.kind # "unique" => ~IndexTold(d).duplicates /\ ~IndexTold(d).unique
  <1> DEFINE marked == d.kind = "unique"
  <1>1. marked \in BOOLEAN
    OBVIOUS
  <1>2. IndexTold(d) = [name |-> d.name, columns |-> d.columns, unique |-> marked, duplicates |-> marked]
    BY DEF IndexTold
  <1>3. IndexTold(d).duplicates = marked /\ IndexTold(d).unique = marked
    <2> HIDE DEF marked
    <2> QED
      BY <1>2
  <1>4. IndexTold(d).name = d.name /\ IndexTold(d).columns = d.columns
    BY DEF IndexTold
  <1> QED
    BY <1>3, <1>4

\* The names of what was defined.
LEMMA NamesDefined ==
    ASSUME NEW t, NEW kinds, NEW n
    PROVE  n \in NamesIn(Defined(t, kinds)) <=>
               \E d \in defined : d.table = t /\ d.kind \in kinds /\ n = d.name
  <1>1. ASSUME NEW d \in defined, d.table = t, d.kind \in kinds
        PROVE  d.name \in NamesIn(Defined(t, kinds))
    <2>1. [name |-> d.name, columns |-> d.columns] \in Defined(t, kinds)
      BY <1>1 DEF Defined
    <2> QED
      BY <2>1 DEF NamesIn
  <1>2. ASSUME n \in NamesIn(Defined(t, kinds))
        PROVE  \E d \in defined : d.table = t /\ d.kind \in kinds /\ n = d.name
    <2>1. PICK r \in Defined(t, kinds) : n = r.name
      BY <1>2 DEF NamesIn
    <2> QED
      BY <2>1 DEF Defined
  <1> QED
    BY <1>1, <1>2

Shown(t) == {i \in catalog.idxs : i.table = t /\ \A k \in KeysNamed(i) : k.type = KEY_TYPE.unique}

LEMMA IndexEntries ==
    ASSUME NEW t
    PROVE  get_indexes(t) = {IndexEntry(i, KeysNamed(i)) : i \in Shown(t)}
  BY DEF get_indexes, IndexEntry, IndexRows, JoinedRows, OfUnique, Shown

LEMMA UniqueIndexEntry ==
    ASSUME NEW i, i.columns \in Columns, NEW k, k.type = 1
    PROVE  IndexEntry(i, {k}) =
               [name |-> i.name, columns |-> i.columns, unique |-> TRUE, duplicates |-> TRUE]
  <1>1. {l.type : l \in {k}} = {1}
    OBVIOUS
  <1>2. IndexRows(i, {k}) = JoinedRows(i.columns, {k})
    BY <1>1 DEF IndexRows
  <1>3. InOrder(IndexRows(i, {k}), "column") = i.columns
    BY <1>2, IndexRowsInOrder
  <1>4. OfUnique({k}) = TRUE
    BY <1>1, KeyTypes DEF OfUnique
  <1> QED
    BY <1>3, <1>4 DEF IndexEntry

LEMMA PlainIndexEntry ==
    ASSUME NEW i, i.columns \in Columns
    PROVE  IndexEntry(i, {}) =
               [name |-> i.name, columns |-> i.columns, unique |-> FALSE, duplicates |-> FALSE]
  <1>1. {l.type : l \in {}} = {}
    OBVIOUS
  <1>2. IndexRows(i, {}) = JoinedRows(i.columns, {None})
    BY <1>1 DEF IndexRows
  <1>3. InOrder(IndexRows(i, {}), "column") = i.columns
    BY <1>2, IndexRowsInOrder
  <1>4. OfUnique({}) = FALSE
    BY <1>1 DEF OfUnique
  <1> QED
    BY <1>3, <1>4 DEF IndexEntry

\* The indexes that are told: those of unique constraints, and the plain ones.
LEMMA IndexesTold ==
    ASSUME Linked(catalog, defined), NEW t
    PROVE  get_indexes(t) =
               {IndexTold(d) : d \in {e \in defined : e.table = t /\ e.kind \in {"unique", "index"}}}
  <1> DEFINE Told(i) == IndexEntry(i, KeysNamed(i))
             shown == Shown(t)
  <1>1. get_indexes(t) = {Told(i) : i \in shown}
    BY IndexEntries
  <1>2. ASSUME NEW k \in catalog.keys, k.type = 1, NEW d \in defined, Fits(d, k)
        PROVE  Told(IndexOf(k)) = IndexTold(d)
    <2>1. KeysNamed(IndexOf(k)) = {k}
      BY KeysOfIndex
    <2>2. IndexOf(k).columns = k.columns /\ IndexOf(k).name = k.name /\ k.columns \in Columns
      BY KeyShape DEF IndexOf, Linked
    <2>3. Told(IndexOf(k)) = [name |-> k.name, columns |-> k.columns, unique |-> TRUE, duplicates |-> TRUE]
      BY <1>2, <2>1, <2>2, UniqueIndexEntry
    <2>4. d.kind = "unique" /\ k.name = d.name /\ k.columns = d.columns
      BY <1>2 DEF Fits
    <2> QED
      BY <2>3, <2>4 DEF IndexTold
  <1>3. ASSUME NEW d \in defined, d.kind = "index"
        PROVE  Told(IndexOf(d)) = IndexTold(d)
    <2>1. KeysNamed(IndexOf(d)) = {}
      BY <1>3, KeysOfIndex
    <2>2. IndexOf(d).columns = d.columns /\ IndexOf(d).name = d.name /\ d.columns \in Columns
      BY DefinitionShape DEF IndexOf, Linked
    <2>3. Told(IndexOf(d)) = [name |-> d.name, columns |-> d.columns, unique |-> FALSE, duplicates |-> FALSE]
      BY <2>1, <2>2, PlainIndexEntry
    <2>4. (d.kind = "unique") = FALSE
      BY <1>3
    <2> QED
      BY <2>3, <2>4 DEF IndexTold
  <1>4. \A i : i \in shown <=> i \in catalog.idxs /\ i.table = t /\ \A k \in KeysNamed(i) : k.type = 1
    BY KeyTypes DEF Shown
  <1> HIDE DEF shown, Told
  <1>5. ASSUME NEW i \in shown
        PROVE  \E d \in defined : /\ d.table = t /\ d.kind \in {"unique", "index"}
                                  /\ Told(i) = IndexTold(d)
    <2>1. CASE \E k \in catalog.keys : k.type # 4 /\ i = IndexOf(k)
      <3>1. PICK k \in catalog.keys : i = IndexOf(k)
        BY <2>1
      <3>2. k.type = 1 /\ k.table = t
        <4>1. KeysNamed(i) = {k}
          BY <3>1, KeysOfIndex
        <4> QED
          BY <1>4, <1>5, <3>1, <4>1 DEF IndexOf
      <3>3. PICK d \in defined : Fits(d, k)
        BY DefinitionOfKey
      <3> QED
        BY <1>2, <3>1, <3>2, <3>3 DEF Fits
    <2>2. CASE \E d \in defined : d.kind = "index" /\ i = IndexOf(d)
      <3>1. PICK d \in defined : d.kind = "index" /\ i = IndexOf(d)
        BY <2>2
      <3>2. d.table = t
        BY <1>4, <1>5, <3>1 DEF IndexOf
      <3> QED
        BY <1>3, <3>1, <3>2
    <2>3. i \in catalog.idxs
      BY <1>4, <1>5
    <2> QED
      BY <2>1, <2>2, <2>3 DEF Linked
  <1>6. ASSUME NEW d \in defined, d.table = t, d.kind \in {"unique", "index"}
        PROVE  \E i \in shown : Told(i) = IndexTold(d)
    <2>1. CASE d.kind = "unique"
      <3>1. PICK k \in catalog.keys : Fits(d, k)
        BY <2>1, KeyOfDefinition
      <3>2. k.type = 1 /\ IndexOf(k) \in catalog.idxs /\ IndexOf(k).table = t
        BY <1>6, <2>1, <3>1 DEF Fits, IndexOf, Linked
      <3>3. IndexOf(k) \in shown
        <4>1. KeysNamed(IndexOf(k)) = {k}
          BY KeysOfIndex
        <4> QED
          BY <1>4, <3>2, <4>1
      <3> QED
        BY <1>2, <3>1, <3>2, <3>3
    <2>2. CASE d.kind = "index"
      <3>1. IndexOf(d) \in catalog.idxs /\ IndexOf(d).table = t
        BY <1>6, <2>2 DEF IndexOf, Linked
      <3>2. IndexOf(d) \in shown
        <4>1. KeysNamed(IndexOf(d)) = {}
          BY <2>2, KeysOfIndex
        <4> QED
          BY <1>4, <3>1, <4>1
      <3> QED
        BY <1>3, <2>2, <3>2
    <2> QED
      BY <1>6, <2>1, <2>2
  <1> QED
    BY <1>1, <1>5, <1>6

-----------------------------------------------------------------------------
(* A table of metadata is what was defined for the table.                  *)

\* What the entries for keys and plain indexes become in it.
EntryOf(t, r) ==
    [table |-> t, name |-> r[2].name, kind |-> r[1], columns |-> r[2].columns, refers |-> None]

Entries(t) == {"primary"} \X get_pk_constraint(t)
              \cup {"unique"} \X get_unique_constraints(t)
              \cup {"index"} \X {i \in get_indexes(t) : ~i.duplicates}

LEMMA EntriesReflected ==
    ASSUME Linked(catalog, defined), NEW t
    PROVE  {EntryOf(t, r) : r \in Entries(t)}
               = {d \in defined : d.table = t /\ d.kind \in {"primary", "unique", "index"}}
  <1>1. /\ get_pk_constraint(t) = Defined(t, {"primary"})
        /\ get_unique_constraints(t) = Defined(t, {"unique"})
    BY PrimaryReflected, UniqueReflected
  <1>2. ASSUME NEW d \in defined, d.table = t, d.kind # "foreign", NEW r,
               r[1] = d.kind, r[2].name = d.name, r[2].columns = d.columns
        PROVE  EntryOf(t, r) = d
    <2>1. /\ d = [table |-> d.table, name |-> d.name, kind |-> d.kind,
                  columns |-> d.columns, refers |-> d.refers]
          /\ d.refers = None
      BY <1>2, DefinitionShape DEF Linked
    <2> QED
      BY <1>2, <2>1 DEF EntryOf
  <1>3. ASSUME NEW r \in Entries(t)
        PROVE  \E d \in defined : /\ d.table = t /\ d.kind \in {"primary", "unique", "index"}
                                  /\ EntryOf(t, r) = d
    <2>1. CASE r \in {"primary"} \X get_pk_constraint(t)
      <3>1. r[1] = "primary" /\ r[2] \in Defined(t, {"primary"})
        BY <1>1, <2>1
      <3>2. PICK d \in defined : /\ d.table = t /\ d.kind = "primary"
                                 /\ r[2] = [name |-> d.name, columns |-> d.columns]
        BY <3>1 DEF Defined
      <3>3. EntryOf(t, r) = d
        BY <1>2, <3>1, <3>2
      <3> QED
        BY <3>2, <3>3
    <2>2. CASE r \in {"unique"} \X get_unique_constraints(t)
      <3>1. r[1] = "unique" /\ r[2] \in Defined(t, {"unique"})
        BY <1>1, <2>2
      <3>2. PICK d \in defined : /\ d.table = t /\ d.kind = "unique"
                                 /\ r[2] = [name |-> d.name, columns |-> d.columns]
        BY <3>1 DEF Defined
      <3>3. EntryOf(t, r) = d
        BY <1>2, <3>1, <3>2
      <3> QED
        BY <3>2, <3>3
    <2>3. CASE r \in {"index"} \X {i \in get_indexes(t) : ~i.duplicates}
      <3>1. r[1] = "index" /\ r[2] \in get_indexes(t) /\ ~r[2].duplicates
        BY <2>3
      <3>2. PICK d \in defined : d.table = t /\ d.kind \in {"unique", "index"} /\ r[2] = IndexTold(d)
        BY <3>1, IndexesTold
      <3>3. d.kind = "index" /\ r[2].name = d.name /\ r[2].columns = d.columns
        BY <3>1, <3>2, IndexToldShape
      <3>4. EntryOf(t, r) = d
        BY <1>2, <3>1, <3>2, <3>3
      <3> QED
        BY <3>2, <3>3, <3>4
    <2> QED
      BY <2>1, <2>2, <2>3 DEF Entries
  <1>4. ASSUME NEW d \in defined, d.table = t, d.kind \in {"primary", "unique", "index"}
        PROVE  \E r \in Entries(t) : EntryOf(t, r) = d
    <2> DEFINE told == [name |-> d.name, columns |-> d.columns]
    <2>1. CASE d.kind = "primary"
      <3>1. told \in get_pk_constraint(t)
        BY <1>1, <1>4, <2>1 DEF Defined
      <3>2. <<"primary", told>> \in Entries(t)
        BY <3>1 DEF Entries
      <3>3. EntryOf(t, <<"primary", told>>) = d
        BY <1>2, <1>4, <2>1
      <3> QED
        BY <3>2, <3>3
    <2>2. CASE d.kind = "unique"
      <3>1. told \in get_unique_constraints(t)
        BY <1>1, <1>4, <2>2 DEF Defined
      <3>2. <<"unique", told>> \in Entries(t)
        BY <3>1 DEF Entries
      <3>3. EntryOf(t, <<"unique", told>>) = d
        BY <1>2, <1>4, <2>2
      <3> QED
        BY <3>2, <3>3
    <2>3. CASE d.kind = "index"
      <3>1. IndexTold(d) \in get_indexes(t)
        BY <1>4, <2>3, IndexesTold
      <3>2. /\ ~IndexTold(d).duplicates
            /\ IndexTold(d).name = d.name /\ IndexTold(d).columns = d.columns
        BY <2>3, IndexToldShape
      <3>3. <<"index", IndexTold(d)>> \in Entries(t)
        BY <3>1, <3>2 DEF Entries
      <3>4. EntryOf(t, <<"index", IndexTold(d)>>) = d
        BY <1>2, <1>4, <2>3, <3>2
      <3> QED
        BY <3>3, <3>4
    <2> QED
      BY <1>4, <2>1, <2>2, <2>3
  <1> QED
    BY <1>3, <1>4

CheckOf(t, n) ==
    [table |-> t, name |-> n, kind |-> "check",
     columns |-> (CHOOSE k \in catalog.keys : k.table = t /\ k.name = n).columns, refers |-> None]

LEMMA ChecksReflectedInFull ==
    ASSUME Linked(catalog, defined), NEW t
    PROVE  {CheckOf(t, n) : n \in get_check_constraints(t)}
               = {d \in defined : d.table = t /\ d.kind = "check"}
  <1>1. get_check_constraints(t) = NamesIn(Defined(t, {"check"}))
    BY ChecksReflected
  <1>2. ASSUME NEW d \in defined, d.table = t, d.kind = "check"
        PROVE  CheckOf(t, d.name) = d
    <2>1. PICK k \in catalog.keys : Fits(d, k)
      BY <1>2, KeyOfDefinition
    <2>2. k.table = t /\ k.name = d.name /\ k.columns = d.columns
      BY <1>2, <2>1 DEF Fits
    <2>3. \A l \in catalog.keys : l.table = t /\ l.name = d.name => l = k
      BY <2>2 DEF Linked
    <2>4. (CHOOSE l \in catalog.keys : l.table = t /\ l.name = d.name) = k
      BY <2>2, <2>3
    <2>5. /\ d = [table |-> d.table, name |-> d.name, kind |-> d.kind,
                  columns |-> d.columns, refers |-> d.refers]
          /\ d.refers = None
      BY <1>2, DefinitionShape DEF Linked
    <2> QED
      BY <1>2, <2>2, <2>4, <2>5 DEF CheckOf
  <1>3. \A n : n \in get_check_constraints(t) <=>
               \E d \in defined : d.table = t /\ d.kind = "check" /\ n = d.name
    BY <1>1, NamesDefined
  <1> QED
    BY <1>2, <1>3

\* Linked definitions of one table are exactly what its reflection holds.
LEMMA ReflectedInFull ==
    ASSUME Linked(catalog, defined), NEW t \in Table, NEW arg \in Args(t)
    PROVE  Reflected(t, arg) = {d \in defined : d.table = t}
  <1>1. Reflected(t, arg) = {EntryOf(t, r) : r \in Entries(t)}
                            \cup {CheckOf(t, n) : n \in get_check_constraints(t)}
                            \cup {ForeignOf(t, fk) : fk \in get_foreign_keys(t, arg)}
    BY DEF Reflected, EntryOf, Entries, CheckOf, ForeignOf
  <1>2. \A d \in defined : d.kind \in {"primary", "unique", "foreign", "check", "index"}
    BY DefinitionShape DEF Linked
  <1> QED
    BY <1>1, <1>2, EntriesReflected, ChecksReflectedInFull, ForeignReflected

-----------------------------------------------------------------------------
(* The invariants follow from the link.                                    *)

LEMMA TypesByLink ==
    ASSUME Linked(catalog, defined), refused = FALSE
    PROVE  TypeOK
  <1>1. defined \subseteq Definition
    BY DEF Linked, WellDefined
  <1>2. /\ catalog.keys \subseteq Key
        /\ \A k \in catalog.keys : k.rkey # None => k.rkey \in catalog.keys
    BY DEF Linked
  <1>3. ASSUME NEW i \in catalog.idxs
        PROVE  i.table \in Table /\ i.name \in Name /\ i.columns \in Columns
    <2>1. (\E k \in catalog.keys : i = IndexOf(k)) \/ (\E d \in defined : i = IndexOf(d))
      BY DEF Linked
    <2>2. CASE \E k \in catalog.keys : i = IndexOf(k)
      BY <1>2, <2>2, KeyShape DEF IndexOf
    <2>3. CASE \E d \in defined : i = IndexOf(d)
      BY <2>3, DefinitionShape DEF IndexOf, Linked
    <2> QED
      BY <2>1, <2>2, <2>3
  <1> QED
    BY <1>1, <1>2, <1>3 DEF TypeOK

LEMMA ReflectedAsDefinedByLink ==
    ASSUME Linked(catalog, defined), refused = FALSE
    PROVE  ReflectedAsDefined
  <1>1. TypeOK
    BY TypesByLink
  <1> DEFINE Names(some) == {[name |-> i.name, columns |-> i.columns] : i \in some}
  <1>2. ASSUME NEW t
        PROVE  /\ Names(get_indexes(t)) = Defined(t, {"unique", "index"})
               /\ Names({i \in get_indexes(t) : i.duplicates}) = Defined(t, {"unique"})
               /\ \A n \in Name : has_index(t, n) <=> n \in NamesIn(Defined(t, {"unique", "index"}))
    <2>1. get_indexes(t) =
              {IndexTold(d) : d \in {e \in defined : e.table = t /\ e.kind \in {"unique", "index"}}}
      BY IndexesTold
    <2>2. \A d : /\ IndexTold(d).name = d.name /\ IndexTold(d).columns = d.columns
                 /\ IndexTold(d).duplicates <=> d.kind = "unique"
      BY IndexToldShape
    <2>3. Names(get_indexes(t)) = Defined(t, {"unique", "index"})
      BY <2>1, <2>2 DEF Defined
    <2>4. {i \in get_indexes(t) : i.duplicates} =
              {IndexTold(d) : d \in {e \in defined : e.table = t /\ e.kind = "unique"}}
      BY <2>1, <2>2
    <2>5. Names({i \in get_indexes(t) : i.duplicates}) = Defined(t, {"unique"})
      BY <2>2, <2>4 DEF Defined
    <2>6. \A n \in Name : has_index(t, n) <=> n \in NamesIn(Defined(t, {"unique", "index"}))
      <3> SUFFICES ASSUME NEW n PROVE has_index(t, n) <=> n \in NamesIn(Defined(t, {"unique", "index"}))
        OBVIOUS
      <3>1. has_index(t, n) <=>
                \E d \in defined : d.table = t /\ d.kind \in {"unique", "index"} /\ n = d.name
        BY <2>1, <2>2 DEF has_index
      <3> QED
        BY <3>1, NamesDefined
    <2> QED
      BY <2>3, <2>5, <2>6
  <1>3. ASSUME NEW t
        PROVE  /\ get_pk_constraint(t) = Defined(t, {"primary"})
               /\ get_unique_constraints(t) = Defined(t, {"unique"})
               /\ get_check_constraints(t) = NamesIn(Defined(t, {"check"}))
    BY PrimaryReflected, UniqueReflected, ChecksReflected
  <1> QED
    BY <1>1, <1>2, <1>3 DEF ReflectedAsDefined

LEMMA ReferencesResolveByLink ==
    ASSUME Linked(catalog, defined)
    PROVE  ReferencesResolve
  BY ReflectedInFull DEF ReferencesResolve

-----------------------------------------------------------------------------
(* The link is kept.                                                       *)

\* What there is for a foreign key to refer to.
Known(c, definitions) ==
    c.keys \cup {KeyOf(d, None) : d \in {e \in definitions : e.kind \notin {"foreign", "index"}}}

\* The keys that the foreign keys among the definitions may be made to refer to.
Choices(c, definitions) ==
    LET foreign == {d \in definitions : d.kind = "foreign"}
    IN  {f \in [foreign -> Known(c, definitions)] : \A d \in foreign : Matches(f[d], d.refers)}

\* The catalog after one of the choices.
After(c, definitions, r) ==
    LET keys == Known(c, definitions) \cup {KeyOf(d, r[d]) : d \in {e \in definitions : e.kind = "foreign"}}
    IN  [keys |-> keys,
         idxs |-> c.idxs \cup {IndexOf(k) : k \in {key \in keys : key.type # 4}}
                  \cup {IndexOf(d) : d \in {e \in definitions : e.kind = "index"}}]

LEMMA StoredAre ==
    ASSUME NEW c, NEW definitions
    PROVE  Stored(c, definitions) = {After(c, definitions, r) : r \in Choices(c, definitions)}
  BY DEF Stored, Choices, Known, After

LEMMA StoredSome ==
    ASSUME NEW c, NEW definitions,
           \A d \in definitions : d.kind = "foreign" => \E k \in Known(c, definitions) : Matches(k, d.refers)
    PROVE  Stored(c, definitions) # {}
  <1> DEFINE foreign == {d \in definitions : d.kind = "foreign"}
             f == [d \in foreign |-> CHOOSE k \in Known(c, definitions) : Matches(k, d.refers)]
  <1>1. \A d \in foreign : f[d] \in Known(c, definitions) /\ Matches(f[d], d.refers)
    OBVIOUS
  <1>2. f \in [foreign -> Known(c, definitions)]
    BY <1>1
  <1>3. f \in Choices(c, definitions)
    <2> HIDE DEF f
    <2> QED
      BY <1>1, <1>2 DEF Choices
  <1> QED
    BY <1>3, StoredAre

\* The key that the server makes of a definition.
NewKey(d, r) == KeyOf(d, IF d.kind = "foreign" THEN r[d] ELSE None)

\* The keys and indexes after the definitions are carried out.
LEMMA StoredIs ==
    ASSUME NEW c, NEW definitions, NEW new \in Stored(c, definitions)
    PROVE  \E r \in Choices(c, definitions) :
              /\ new.keys = c.keys \cup {NewKey(d, r) : d \in {e \in definitions : e.kind # "index"}}
              /\ new.idxs = c.idxs \cup {IndexOf(k) : k \in {key \in new.keys : key.type # 4}}
                            \cup {IndexOf(d) : d \in {e \in definitions : e.kind = "index"}}
  <1> DEFINE Of(r) == {KeyOf(d, r[d]) : d \in {e \in definitions : e.kind = "foreign"}}
             plain == {IndexOf(d) : d \in {e \in definitions : e.kind = "index"}}
  <1>1. PICK r \in Choices(c, definitions) : new = After(c, definitions, r)
    BY StoredAre
  <1>2. new.keys = Known(c, definitions) \cup Of(r)
    BY <1>1 DEF After
  <1>3. new.idxs = c.idxs \cup {IndexOf(k) : k \in {key \in new.keys : key.type # 4}} \cup plain
    BY <1>1, <1>2 DEF After
  <1>4. Known(c, definitions) \cup Of(r)
            = c.keys \cup {NewKey(d, r) : d \in {e \in definitions : e.kind # "index"}}
    <2>1. \A d : d.kind = "foreign" => NewKey(d, r) = KeyOf(d, r[d])
      BY DEF NewKey
    <2>2. \A d : d.kind # "foreign" => NewKey(d, r) = KeyOf(d, None)
      BY DEF NewKey
    <2> QED
      BY <2>1, <2>2 DEF Known
  <1> QED
    BY <1>2, <1>3, <1>4

\* A key that the server makes is the one of its definition.
LEMMA NewKeyMade ==
    ASSUME NEW c, \A k \in c.keys : k \in Key,
           NEW definitions, \A d \in definitions : WellDefined(d),
           NEW r \in Choices(c, definitions), NEW d \in definitions, d.kind # "index"
    PROVE  /\ Made(d, NewKey(d, r)) /\ NewKey(d, r) \in Key
           /\ NewKey(d, r).rkey # None => NewKey(d, r).rkey \in Known(c, definitions)
  <1>1. /\ d.table \in Table /\ d.name \in Name /\ d.columns \in Columns
        /\ d.kind \in {"primary", "unique", "foreign", "check"}
    BY DefinitionShape
  <1> DEFINE key == NewKey(d, r)
  <1>2. /\ key.table = d.table /\ key.name = d.name /\ key.type = KEY_TYPE[d.kind]
        /\ key.columns = d.columns
    BY DEF NewKey, KeyOf
  <1>3. CASE d.kind = "foreign"
    <2>1. r[d] \in Known(c, definitions) /\ Matches(r[d], d.refers)
      BY <1>3 DEF Choices
    <2>2. r[d] \in Key
      <3>1. ASSUME NEW e \in definitions, e.kind \notin {"foreign", "index"}
            PROVE  KeyOf(e, None) \in Key
        <4>1. /\ e.table \in Table /\ e.name \in Name /\ e.columns \in Columns
              /\ e.kind \in {"primary", "unique", "check"}
          BY <3>1, DefinitionShape
        <4>2. KEY_TYPE[e.kind] \in {0, 1, 4}
          BY <4>1, KeyTypes
        <4> QED
          BY <4>1, <4>2 DEF KeyOf, Key, Referred
      <3> QED
        BY <2>1, <3>1 DEF Known
    <2>3. r[d] \in Referred
      BY <2>1, <2>2, KeyShape DEF Matches
    <2>4. key.rkey = r[d] /\ key = KeyOf(d, r[d])
      BY <1>3 DEF NewKey, KeyOf
    <2>5. key \in Key
      BY <1>1, <1>3, <2>3, <2>4, KeyTypes DEF KeyOf, Key
    <2> QED
      BY <1>2, <1>3, <2>1, <2>3, <2>4, <2>5 DEF Made
  <1>4. CASE d.kind # "foreign"
    <2>1. key.rkey = None /\ key = KeyOf(d, None)
      BY <1>4 DEF NewKey, KeyOf
    <2>2. KEY_TYPE[d.kind] \in {0, 1, 4}
      BY <1>1, <1>4, KeyTypes
    <2>3. key \in Key
      BY <1>1, <2>1, <2>2 DEF KeyOf, Key, Referred
    <2> QED
      BY <1>2, <1>4, <2>1, <2>3 DEF Made
  <1> QED
    BY <1>3, <1>4

\* Definitions that the server can take join those that it has.
LEMMA StoredLinks ==
    ASSUME NEW c, NEW earlier, Linked(c, earlier),
           NEW definitions, \A d \in definitions : WellDefined(d),
           Acceptable(c, definitions), NEW new \in Stored(c, definitions)
    PROVE  Linked(new, earlier \cup definitions)
  <1> DEFINE all == earlier \cup definitions
  <1>1. PICK r \in Choices(c, definitions) :
            /\ new.keys = c.keys \cup {NewKey(d, r) : d \in {e \in definitions : e.kind # "index"}}
            /\ new.idxs = c.idxs \cup {IndexOf(k) : k \in {key \in new.keys : key.type # 4}}
                          \cup {IndexOf(d) : d \in {e \in definitions : e.kind = "index"}}
    BY StoredIs
  <1>2. \A k \in c.keys : k \in Key
    BY DEF Linked
  <1>3. \A d \in definitions : d.kind # "index" =>
            /\ Made(d, NewKey(d, r)) /\ NewKey(d, r) \in Key
            /\ NewKey(d, r).rkey # None => NewKey(d, r).rkey \in Known(c, definitions)
    BY <1>2, NewKeyMade
  <1>4. \A d, e \in definitions : /\ d.name = e.name => d = e
                                  /\ d.kind = "primary" /\ e.kind = "primary" => d = e
    BY DEF Acceptable
  <1>5. \A k \in new.keys : k \in c.keys \/ \E d \in definitions : d.kind # "index" /\ k = NewKey(d, r)
    BY <1>1
  \* What is new is in nobody's way.
  <1>6. ASSUME NEW k \in c.keys, NEW d \in definitions, k.table = d.table PROVE k.name # d.name
    BY <1>6 DEF Acceptable
  <1>7. ASSUME NEW e \in earlier, NEW d \in definitions
        PROVE  /\ e.table = d.table => e.name # d.name
               /\ e.table = d.table => ~(e.kind = "primary" /\ d.kind = "primary")
               /\ e.table.schema = d.table.schema /\ e.kind # "check" /\ d.kind # "check" => e.name # d.name
    <2>1. CASE e.kind = "index"
      <3>1. IndexOf(e) \in c.idxs
        BY <2>1 DEF Linked
      <3>2. IndexOf(e).table = e.table /\ IndexOf(e).name = e.name
        BY DEF IndexOf
      <3> QED
        BY <2>1, <3>1, <3>2 DEF Acceptable
    <2>2. CASE e.kind # "index"
      <3>1. PICK k \in c.keys : Made(e, k)
        BY <2>2 DEF Linked
      <3>2. Fits(e, k)
        BY <3>1, MadeFits DEF Linked
      <3>3. /\ ~(k.table = d.table /\ k.name = d.name)
            /\ ~(k.table = d.table /\ k.type = 0 /\ d.kind = "primary")
        BY DEF Acceptable
      <3>4. e.kind # "check" => IndexOf(k) \in c.idxs
        BY <3>2 DEF Linked, Fits
      <3>5. IndexOf(k).table = k.table /\ IndexOf(k).name = k.name
        BY DEF IndexOf
      <3>6. e.kind # "check" /\ d.kind # "check" /\ k.table.schema = d.table.schema => k.name # d.name
        BY <3>4, <3>5 DEF Acceptable
      <3> QED
        BY <3>2, <3>3, <3>6 DEF Fits
    <2> QED
      BY <2>1, <2>2
  <1>8. \A d \in all : WellDefined(d)
    BY DEF Linked
  <1>9. Distinct(all)
    <2>1. Distinct(earlier)
      BY DEF Linked
    <2>2. ASSUME NEW d \in all, NEW e \in all
          PROVE  /\ d.table = e.table /\ d.name = e.name => d = e
                 /\ d.table = e.table /\ d.kind = "primary" /\ e.kind = "primary" => d = e
                 /\ d.table.schema = e.table.schema /\ d.name = e.name
                       /\ d.kind # "check" /\ e.kind # "check" => d = e
      <3>1. CASE d \in earlier /\ e \in earlier
        BY <2>1, <3>1 DEF Distinct
      <3>2. CASE d \in definitions /\ e \in definitions
        BY <1>4, <3>2
      <3>3. CASE d \in earlier /\ e \in definitions
        BY <1>7, <3>3
      <3>4. CASE d \in definitions /\ e \in earlier
        BY <1>7, <3>4
      <3> QED
        BY <3>1, <3>2, <3>3, <3>4
    <2> QED
      BY <2>2 DEF Distinct
  <1>10. ASSUME NEW k \in new.keys
         PROVE  /\ k \in Key /\ (k.rkey # None => k.rkey \in new.keys)
                /\ \E d \in all : Made(d, k)
    <2>1. CASE k \in c.keys
      <3>1. /\ k \in Key /\ (k.rkey # None => k.rkey \in c.keys)
            /\ \E d \in earlier : Made(d, k)
        BY <2>1 DEF Linked
      <3> QED
        BY <1>1, <3>1
    <2>2. CASE \E d \in definitions : d.kind # "index" /\ k = NewKey(d, r)
      <3>1. PICK d \in definitions : d.kind # "index" /\ k = NewKey(d, r)
        BY <2>2
      <3>2. Known(c, definitions) \subseteq new.keys
        <4>1. \A e : e.kind # "foreign" => KeyOf(e, None) = NewKey(e, r)
          BY DEF NewKey
        <4> QED
          BY <1>1, <4>1 DEF Known
      <3> QED
        BY <1>3, <3>1, <3>2
    <2> QED
      BY <1>5, <2>1, <2>2
  <1>11. ASSUME NEW d \in all, d.kind # "index"
         PROVE  \E k \in new.keys : Made(d, k)
    <2>1. CASE d \in earlier
      BY <1>1, <1>11, <2>1 DEF Linked
    <2>2. CASE d \in definitions
      BY <1>1, <1>3, <1>11, <2>2
    <2> QED
      BY <2>1, <2>2
  <1>12. ASSUME NEW k \in new.keys, NEW l \in new.keys, k.table = l.table, k.name = l.name
         PROVE  k = l
    <2>1. \A d \in definitions : NewKey(d, r).table = d.table /\ NewKey(d, r).name = d.name
      BY DEF NewKey, KeyOf
    <2>2. CASE k \in c.keys /\ l \in c.keys
      BY <1>12, <2>2 DEF Linked
    <2>3. CASE k \notin c.keys
      <3>1. PICK d \in definitions : k = NewKey(d, r)
        BY <1>5, <2>3
      <3> QED
        BY <1>4, <1>5, <1>6, <1>12, <2>1, <3>1
    <2>4. CASE l \notin c.keys
      <3>1. PICK d \in definitions : l = NewKey(d, r)
        BY <1>5, <2>4
      <3> QED
        BY <1>4, <1>5, <1>6, <1>12, <2>1, <3>1
    <2> QED
      BY <2>2, <2>3, <2>4
  <1>13. new.idxs = {IndexOf(k) : k \in {key \in new.keys : key.type # 4}}
                    \cup {IndexOf(d) : d \in {e \in all : e.kind = "index"}}
    <2>1. c.idxs = {IndexOf(k) : k \in {key \in c.keys : key.type # 4}}
                   \cup {IndexOf(d) : d \in {e \in earlier : e.kind = "index"}}
      BY DEF Linked
    <2>2. {IndexOf(d) : d \in {e \in all : e.kind = "index"}}
              = {IndexOf(d) : d \in {e \in earlier : e.kind = "index"}}
                \cup {IndexOf(d) : d \in {e \in definitions : e.kind = "index"}}
      OBVIOUS
    <2>3. {IndexOf(k) : k \in {key \in c.keys : key.type # 4}}
              \subseteq {IndexOf(k) : k \in {key \in new.keys : key.type # 4}}
      BY <1>1
    <2> QED
      BY <1>1, <2>1, <2>2, <2>3
  <1> HIDE DEF all
  <1>14. Linked(new, all)
    BY <1>8, <1>9, <1>10, <1>11, <1>12, <1>13 DEF Linked
  <1> QED
    BY <1>14 DEF all

Own(definitions, t) == {d \in definitions : d.table = t}
Others(definitions, t) == {d \in definitions : d.table # t}

\* A table that no other refers to leaves with what was defined for it.
LEMMA WithoutLinks ==
    ASSUME NEW c, NEW definitions, Linked(c, definitions), NEW t,
           \A k \in c.keys : k.table # t /\ k.rkey # None => k.rkey.table # t
    PROVE  Linked(Without(c, {t}), Others(definitions, t))
  <1> DEFINE new == Without(c, {t})
             rest == {d \in definitions : d.table # t}
  <1>1. new.keys = {k \in c.keys : k.table # t} /\ new.idxs = {i \in c.idxs : i.table # t}
    BY DEF Without
  <1> HIDE DEF new
  <1>2. \A d \in rest : WellDefined(d)
    BY DEF Linked
  <1>3. Distinct(rest)
    BY DEF Linked, Distinct
  <1>4. ASSUME NEW k \in new.keys
        PROVE  /\ k \in Key /\ (k.rkey # None => k.rkey \in new.keys)
               /\ \E d \in rest : Made(d, k)
    <2>1. /\ k \in Key /\ (k.rkey # None => k.rkey \in c.keys) /\ k.table # t
          /\ \E d \in definitions : Made(d, k)
      BY <1>1 DEF Linked
    <2>2. \E d \in rest : Made(d, k)
      BY <2>1 DEF Made
    <2> QED
      BY <1>1, <2>1, <2>2
  <1>5. ASSUME NEW d \in rest, d.kind # "index"
        PROVE  \E k \in new.keys : Made(d, k)
    <2>1. PICK k \in c.keys : Made(d, k)
      BY <1>5 DEF Linked
    <2> QED
      BY <1>1, <2>1 DEF Made
  <1>6. \A k, l \in new.keys : k.table = l.table /\ k.name = l.name => k = l
    BY <1>1 DEF Linked
  <1>7. new.idxs = {IndexOf(k) : k \in {key \in new.keys : key.type # 4}}
                   \cup {IndexOf(d) : d \in {e \in rest : e.kind = "index"}}
    <2>1. c.idxs = {IndexOf(k) : k \in {key \in c.keys : key.type # 4}}
                   \cup {IndexOf(d) : d \in {e \in definitions : e.kind = "index"}}
      BY DEF Linked
    <2>2. \A r : IndexOf(r).table = r.table
      BY DEF IndexOf
    <2> QED
      BY <1>1, <2>1, <2>2
  <1> HIDE DEF rest
  <1>8. Linked(new, rest)
    BY <1>2, <1>3, <1>4, <1>5, <1>6, <1>7 DEF Linked
  <1> QED
    BY <1>8 DEF new, rest, Others

\* An index, or a unique constraint that no key refers to, is dropped alone.
LEMMA DroppedLinks ==
    ASSUME NEW c, NEW definitions, Linked(c, definitions),
           NEW d \in definitions, d.kind \in {"unique", "index"},
           \A k, l \in c.keys : k.table = d.table /\ k.name = d.name => l.rkey # k,
           NEW new, new.keys = {k \in c.keys : ~(k.table = d.table /\ k.name = d.name)},
           new.idxs = c.idxs \ {IndexOf(d)}
    PROVE  Linked(new, definitions \ {d})
  <1> DEFINE rest == definitions \ {d}
  <1>1. \A e \in rest : WellDefined(e)
    BY DEF Linked
  <1>2. Distinct(rest)
    BY DEF Linked, Distinct
  <1>3. \A e \in rest : ~(e.table = d.table /\ e.name = d.name)
    BY DEF Linked, Distinct
  <1>4. ASSUME NEW k \in new.keys
        PROVE  /\ k \in Key /\ (k.rkey # None => k.rkey \in new.keys)
               /\ \E e \in rest : Made(e, k)
    <2>1. /\ k \in Key /\ (k.rkey # None => k.rkey \in c.keys)
          /\ \E e \in definitions : Made(e, k)
          /\ k \in c.keys /\ ~(k.table = d.table /\ k.name = d.name)
      BY DEF Linked
    <2>2. \E e \in rest : Made(e, k)
      BY <2>1 DEF Made
    <2> QED
      BY <2>1, <2>2
  <1>5. ASSUME NEW e \in rest, e.kind # "index"
        PROVE  \E k \in new.keys : Made(e, k)
    <2>1. PICK k \in c.keys : Made(e, k)
      BY <1>5 DEF Linked
    <2> QED
      BY <1>3, <2>1 DEF Made
  <1>6. \A k, l \in new.keys : k.table = l.table /\ k.name = l.name => k = l
    BY DEF Linked
  <1>7. new.idxs = {IndexOf(k) : k \in {key \in new.keys : key.type # 4}}
                   \cup {IndexOf(e) : e \in {f \in rest : f.kind = "index"}}
    <2>1. c.idxs = {IndexOf(k) : k \in {key \in c.keys : key.type # 4}}
                   \cup {IndexOf(e) : e \in {f \in definitions : f.kind = "index"}}
      BY DEF Linked
    <2>2. \A r : IndexOf(r).table = r.table /\ IndexOf(r).name = r.name
      BY DEF IndexOf
    <2>3. ASSUME NEW k \in c.keys, k.table = d.table, k.name = d.name
          PROVE  IndexOf(k) = IndexOf(d)
      <3>1. PICK e \in definitions : Made(e, k)
        BY DEF Linked
      <3>2. e.table = k.table /\ e.name = k.name /\ e.columns = k.columns
        BY <3>1 DEF Made
      <3>3. e = d
        BY <1>3, <2>3, <3>2
      <3> QED
        BY <2>3, <3>2, <3>3 DEF IndexOf
    <2>4. \A k \in new.keys : IndexOf(k) # IndexOf(d)
      BY <2>2
    <2>5. \A e \in rest : IndexOf(e) # IndexOf(d)
      BY <1>3, <2>2
    <2>6. ASSUME NEW i \in new.idxs
          PROVE  \/ \E k \in new.keys : k.type # 4 /\ i = IndexOf(k)
                 \/ \E e \in rest : e.kind = "index" /\ i = IndexOf(e)
      <3>1. i \in c.idxs /\ i # IndexOf(d)
        OBVIOUS
      <3>2. \/ \E k \in c.keys : k.type # 4 /\ i = IndexOf(k)
            \/ \E e \in definitions : e.kind = "index" /\ i = IndexOf(e)
        BY <2>1, <3>1
      <3> QED
        BY <2>3, <3>1, <3>2
    <2>7. ASSUME NEW k \in new.keys, k.type # 4 PROVE IndexOf(k) \in new.idxs
      BY <2>1, <2>4, <2>7
    <2>8. ASSUME NEW e \in rest, e.kind = "index" PROVE IndexOf(e) \in new.idxs
      BY <2>1, <2>5, <2>8
    <2> QED
      BY <2>6, <2>7, <2>8
  <1> HIDE DEF rest
  <1>8. Linked(new, rest)
    BY <1>1, <1>2, <1>4, <1>5, <1>6, <1>7 DEF Linked
  <1> QED
    BY <1>8 DEF rest

\* What the reflection of a table holds can be taken when the table is gone, and
\* its foreign keys have what they refer to.
LEMMA ReflectionAcceptable ==
    ASSUME NEW c, NEW definitions, Linked(c, definitions), NEW t
    PROVE  Acceptable(Without(c, {t}), Own(definitions, t))
  <1> DEFINE new == Without(c, {t})
             own == {d \in definitions : d.table = t}
  <1>1. new.keys = {k \in c.keys : k.table # t} /\ new.idxs = {i \in c.idxs : i.table # t}
    BY DEF Without
  <1>2. \A d, e \in own : d # e => d.name # e.name /\ ~(d.kind = "primary" /\ e.kind = "primary")
    BY DEF Linked, Distinct
  <1>3. \A d \in own : d.columns \in Seq(Column)
    BY DefinitionShape, ColumnsShape DEF Linked
  <1>4. ASSUME NEW d \in own, NEW k \in new.keys PROVE k.table # d.table
    BY <1>1
  <1>5. ASSUME NEW d \in own, NEW i \in new.idxs, i.name = d.name
        PROVE  i.table # d.table /\ ~(d.kind # "check" /\ i.table.schema = d.table.schema)
    <2>1. i \in c.idxs /\ i.table # t
      BY <1>1
    <2>2. PICK e \in definitions : e.table = i.table /\ e.name = i.name /\ e.kind # "check"
      <3>1. (\E k \in c.keys : k.type # 4 /\ i = IndexOf(k))
            \/ (\E e \in definitions : e.kind = "index" /\ i = IndexOf(e))
        BY <2>1 DEF Linked
      <3>2. CASE \E k \in c.keys : k.type # 4 /\ i = IndexOf(k)
        <4>1. PICK k \in c.keys : k.type # 4 /\ i = IndexOf(k)
          BY <3>2
        <4>2. PICK e \in definitions : Made(e, k)
          BY DEF Linked
        <4>3. Fits(e, k)
          BY <4>2, MadeFits DEF Linked
        <4> QED
          BY <4>1, <4>3 DEF Fits, IndexOf
      <3>3. CASE \E e \in definitions : e.kind = "index" /\ i = IndexOf(e)
        BY <3>3 DEF IndexOf
      <3> QED
        BY <3>1, <3>2, <3>3
    <2>3. e # d
      BY <2>1, <2>2
    <2>4. ~(e.table.schema = d.table.schema /\ e.name = d.name /\ e.kind # "check" /\ d.kind # "check")
      BY <2>3 DEF Linked, Distinct
    <2> QED
      BY <1>5, <2>1, <2>2, <2>4
  <1> HIDE DEF new, own
  <1>6. Acceptable(new, own)
    BY <1>2, <1>3, <1>4, <1>5 DEF Acceptable
  <1> QED
    BY <1>6 DEF new, own, Own

LEMMA ReflectionHasReferences ==
    ASSUME NEW c, NEW definitions, Linked(c, definitions), NEW t
    PROVE  Stored(Without(c, {t}), Own(definitions, t)) # {}
  <1> DEFINE own == {d \in definitions : d.table = t}
  <1>1. ASSUME NEW d \in own, d.kind = "foreign"
        PROVE  \E k \in Known(Without(c, {t}), own) : Matches(k, d.refers)
    <2>1. PICK k \in c.keys : Made(d, k)
      BY <1>1 DEF Linked
    <2>2. k.rkey \in Referred /\ Matches(k.rkey, d.refers)
      BY <1>1, <2>1 DEF Made
    <2>3. k.rkey # None
      BY <2>2, ReferredShape
    <2>4. k.rkey \in c.keys
      BY <2>3 DEF Linked
    <2>5. CASE k.rkey.table # t
      BY <2>2, <2>4, <2>5 DEF Known, Without
    <2>6. CASE k.rkey.table = t
      <3>1. PICK e \in definitions : Made(e, k.rkey)
        BY <2>4 DEF Linked
      <3>2. Fits(e, k.rkey)
        BY <3>1, MadeFits DEF Linked
      <3>3. k.rkey.type \in {0, 1}
        BY <2>2 DEF Matches
      <3>4. e \in own /\ e.kind \notin {"foreign", "index"}
        BY <2>6, <3>2, <3>3 DEF Fits
      <3>5. k.rkey.rkey = None
        BY <2>2 DEF Referred
      <3>6. k.rkey = [table |-> k.rkey.table, name |-> k.rkey.name, type |-> k.rkey.type,
                      columns |-> k.rkey.columns, rkey |-> k.rkey.rkey]
        BY <2>2, ReferredShape, KeyShape
      <3>7. k.rkey = KeyOf(e, None)
        BY <3>2, <3>5, <3>6 DEF Fits, KeyOf
      <3> QED
        BY <2>2, <3>4, <3>7 DEF Known
    <2> QED
      BY <2>5, <2>6
  <1> HIDE DEF own
  <1>2. Stored(Without(c, {t}), own) # {}
    BY <1>1, StoredSome
  <1> QED
    BY <1>2 DEF own, Own

-----------------------------------------------------------------------------
(* The actions.                                                            *)

LEMMA InitEstablishesInv == Init => IInv
  BY DEF Init, IInv, Linked, Distinct

\* DDL that can be taken is carried out.
LEMMA StoreKeeps ==
    ASSUME NEW c, NEW earlier, Linked(c, earlier),
           NEW definitions, \A d \in definitions : WellDefined(d),
           Acceptable(c, definitions), Stored(c, definitions) # {}, Store(c, definitions)
    PROVE  Linked(catalog', earlier \cup definitions) /\ refused' = FALSE
  <1>1. refused' = FALSE /\ catalog' \in Stored(c, definitions)
    BY DEF Store
  <1> QED
    BY <1>1, StoredLinks

LEMMA DefineKeepsInv ==
    ASSUME IInv, NEW d \in Definition, Define(d)
    PROVE  IInv'
  <1>1. Acceptable(catalog, {d}) /\ Store(catalog, {d}) /\ defined' = defined \cup {d}
    BY DEF Define
  <1>2. WellDefined(d)
    BY DEF Define, WellDefined, Definition
  <1>3. Stored(catalog, {d}) # {}
    <2>1. d.kind = "foreign" => \E k \in catalog.keys : Matches(k, d.refers)
      BY DEF Define
    <2> QED
      BY <2>1, StoredSome DEF Known
  <1>4. Linked(catalog', defined \cup {d}) /\ refused' = FALSE
    BY <1>1, <1>2, <1>3, StoreKeeps DEF IInv
  <1> QED
    BY <1>1, <1>4 DEF IInv

\* The DDL for an index is the definition of it, modifiers or not.
LEMMA CreateIndexKeepsInv ==
    ASSUME IInv,
           NEW index \in [table : Table, name : Name, columns : Columns,
                          modifiers : 0 .. 2, unique : BOOLEAN],
           CreateIndex(index)
    PROVE  IInv'
  <1> DEFINE kind == IF index.unique THEN "unique" ELSE "index"
             d == [table |-> index.table, name |-> index.name, columns |-> index.columns,
                   kind |-> kind, refers |-> None]
  <1>1. Acceptable(catalog, {d}) /\ Store(catalog, {visit_create_index(index)}) /\ defined' = defined \cup {d}
    BY DEF CreateIndex
  <1>2. kind \in {"unique", "index"}
    OBVIOUS
  <1>3. visit_create_index(index) = d
    <2>1. index.columns = [i \in DOMAIN index.columns |-> index.columns[i]]
      <3>1. index.columns \in Columns
        OBVIOUS
      <3> QED
        BY <3>1, ColumnsShape
    <2>2. visit_create_index(index) =
              [table |-> index.table, name |-> index.name, kind |-> kind,
               columns |-> [i \in DOMAIN index.columns |-> index.columns[i]], refers |-> None]
      BY DEF visit_create_index, _strip_ordering
    <2> HIDE DEF kind
    <2> QED
      BY <2>1, <2>2
  <1> HIDE DEF kind
  <1>4. WellDefined(d) /\ d.kind # "foreign"
    BY <1>2 DEF WellDefined, Definition
  <1> HIDE DEF d
  <1>5. Stored(catalog, {d}) # {}
    BY <1>4, StoredSome
  <1>6. Linked(catalog', defined \cup {d}) /\ refused' = FALSE
    BY <1>1, <1>3, <1>4, <1>5, StoreKeeps DEF IInv
  <1> QED
    BY <1>1, <1>6 DEF IInv

\* The DDL that drops an index drops the constraint it belongs to, or the index
\* alone; and it drops something.
LEMMA DropIndexKeepsInv ==
    ASSUME IInv, NEW t \in Table, NEW index \in get_indexes(t), DropIndex(t, index)
    PROVE  IInv'
  <1> DEFINE new == Dropped(visit_drop_index(t, index))
  <1>1. PICK d \in defined : d.table = t /\ d.kind \in {"unique", "index"} /\ index = IndexTold(d)
    BY IndexesTold DEF IInv
  <1>2. index.name = d.name
    BY <1>1, IndexToldShape
  <1>3. \A k, l \in catalog.keys : k.table = d.table /\ k.name = d.name => l.rkey # k
    BY <1>1, <1>2 DEF DropIndex, ReferredTo
  <1>4. Linked(catalog, defined)
    BY DEF IInv
  <1>5. /\ new.keys = {k \in catalog.keys : ~(k.table = d.table /\ k.name = d.name)}
        /\ new.idxs = catalog.idxs \ {IndexOf(d)}
        /\ new # catalog
    <2>1. CASE d.kind = "unique"
      <3>1. visit_drop_index(t, index) = [drop |-> "CONSTRAINT", of |-> t, name |-> d.name]
        <4>1. index.unique
          BY <1>1, <2>1, IndexToldShape
        <4> QED
          BY <1>2, <4>1 DEF visit_drop_index
      <3> DEFINE keys == {k \in catalog.keys : k.table = t /\ k.name = d.name}
      <3>2. /\ new.keys = catalog.keys \ keys
            /\ new.idxs = catalog.idxs \ ({IndexOf(k) : k \in keys} \cap catalog.idxs)
        BY <3>1 DEF Dropped
      <3>3. PICK k \in catalog.keys : Fits(d, k)
        BY <1>4, <2>1, KeyOfDefinition
      <3>4. keys = {k} /\ IndexOf(k) = IndexOf(d)
        BY <1>1, <1>4, <3>3 DEF Fits, IndexOf, Linked
      <3> HIDE DEF new, keys
      <3>5. new.keys # catalog.keys
        BY <3>2, <3>4
      <3>6. new.keys = {l \in catalog.keys : ~(l.table = d.table /\ l.name = d.name)}
        BY <1>1, <3>2 DEF keys
      <3>7. new.idxs = catalog.idxs \ {IndexOf(d)}
        BY <3>2, <3>4
      <3> QED
        BY <3>5, <3>6, <3>7
    <2>2. CASE d.kind = "index"
      <3>1. visit_drop_index(t, index) = [drop |-> "INDEX", of |-> t.schema, name |-> d.name]
        <4>1. ~index.unique
          BY <1>1, <2>2, IndexToldShape
        <4> QED
          BY <1>2, <4>1 DEF visit_drop_index
      <3> DEFINE idxs == {i \in catalog.idxs :
                            i.table.schema = t.schema /\ i.name = d.name /\ KeysNamed(i) = {}}
      <3>2. new.keys = catalog.keys /\ new.idxs = catalog.idxs \ idxs
        BY <3>1 DEF Dropped
      <3>3. \A k \in catalog.keys : ~(k.table = d.table /\ k.name = d.name)
        <4>1. KeysNamed(IndexOf(d)) = {}
          BY <1>4, <2>2, KeysOfIndex
        <4> QED
          BY <4>1 DEF KeysNamed, IndexOf
      <3>4. IndexOf(d) \in idxs
        <4>1. IndexOf(d) \in catalog.idxs
          BY <1>4, <2>2 DEF Linked
        <4>2. KeysNamed(IndexOf(d)) = {}
          BY <1>4, <2>2, KeysOfIndex
        <4>3. IndexOf(d).table = t /\ IndexOf(d).name = d.name
          BY <1>1 DEF IndexOf
        <4> QED
          BY <4>1, <4>2, <4>3
      <3>5. ASSUME NEW i \in idxs PROVE i = IndexOf(d)
        <4>1. ~\E k \in catalog.keys : i = IndexOf(k)
          <5>1. ASSUME NEW k \in catalog.keys, i = IndexOf(k) PROVE FALSE
            <6>1. KeysNamed(IndexOf(k)) = {k}
              BY <1>4, KeysOfIndex
            <6> QED
              BY <5>1, <6>1
          <5> QED
            BY <5>1
        <4>2. PICK e \in defined : e.kind = "index" /\ i = IndexOf(e)
          BY <1>4, <4>1 DEF Linked
        <4>3. e.table.schema = d.table.schema /\ e.name = d.name
          BY <1>1, <4>2 DEF IndexOf
        <4>4. e = d
          BY <1>4, <2>2, <4>2, <4>3 DEF Linked, Distinct
        <4> QED
          BY <4>2, <4>4
      <3>6. idxs = {IndexOf(d)}
        BY <3>4, <3>5
      <3>7. IndexOf(d) \in catalog.idxs
        BY <3>4
      <3> HIDE DEF new, idxs
      <3>8. new.idxs = catalog.idxs \ {IndexOf(d)} /\ new.idxs # catalog.idxs
        BY <3>2, <3>6, <3>7
      <3> QED
        BY <3>2, <3>3, <3>8
    <2> QED
      BY <1>1, <2>1, <2>2
  <1>6. /\ catalog' = new /\ refused' = (catalog' = catalog)
        /\ defined' = {e \in defined : ~(e.table = t /\ e.name = index.name)}
    BY DEF DropIndex
  <1> HIDE DEF new
  <1>7. Linked(new, defined \ {d})
    BY <1>1, <1>3, <1>4, <1>5, DroppedLinks
  <1>8. defined' = defined \ {d}
    BY <1>1, <1>2, <1>4, <1>6 DEF Linked, Distinct
  <1>9. refused' = FALSE
    BY <1>5, <1>6
  <1> QED
    BY <1>6, <1>7, <1>8, <1>9 DEF IInv

\* A table comes back as it was, whichever way it was reflected.
LEMMA RecreateKeepsInv ==
    ASSUME IInv, NEW t \in Table, NEW arg \in Args(t), Recreate(t, arg)
    PROVE  IInv'
  <1> DEFINE own == Own(defined, t)
             rest == Others(defined, t)
  <1>1. Linked(catalog, defined)
    BY DEF IInv
  <1>2. Reflected(t, arg) = own
    BY <1>1, ReflectedInFull DEF Own
  <1>3. Store(Without(catalog, {t}), own) /\ defined' = defined
    BY <1>2 DEF Recreate, Store
  <1>4. Linked(Without(catalog, {t}), rest)
    <2>1. \A k \in catalog.keys : k.table # t /\ k.rkey # None => k.rkey.table # t
      BY DEF Recreate
    <2> QED
      BY <1>1, <2>1, WithoutLinks
  <1>5. Acceptable(Without(catalog, {t}), own) /\ Stored(Without(catalog, {t}), own) # {}
    BY <1>1, ReflectionAcceptable, ReflectionHasReferences
  <1>6. \A d \in own : WellDefined(d)
    BY <1>1 DEF Linked, Own
  <1>7. rest \cup own = defined
    BY DEF Own, Others
  <1> HIDE DEF own, rest
  <1>8. Linked(catalog', rest \cup own) /\ refused' = FALSE
    BY <1>3, <1>4, <1>5, <1>6, StoreKeeps
  <1> QED
    BY <1>3, <1>7, <1>8 DEF IInv

LEMMA StutteringKeepsInv == IInv /\ UNCHANGED vars => IInv'
  BY DEF IInv, vars

LEMMA Invariance == Spec => []IInv
  <1>1. ASSUME IInv, [Next]_vars PROVE IInv'
    <2>1. ASSUME NEW d \in Definition, Define(d) PROVE IInv'
      BY <1>1, <2>1, DefineKeepsInv
    <2>2. ASSUME NEW index \in [table : Table, name : Name, columns : Columns,
                                modifiers : 0 .. 2, unique : BOOLEAN],
                 CreateIndex(index)
          PROVE  IInv'
      BY <1>1, <2>2, CreateIndexKeepsInv
    <2>3. ASSUME NEW t \in Table, NEW index \in get_indexes(t), DropIndex(t, index) PROVE IInv'
      BY <1>1, <2>3, DropIndexKeepsInv
    <2>4. ASSUME NEW t \in Table, NEW arg \in Args(t), Recreate(t, arg) PROVE IInv'
      BY <1>1, <2>4, RecreateKeepsInv
    <2>5. CASE UNCHANGED vars
      BY <1>1, <2>5, StutteringKeepsInv
    <2> QED
      BY <1>1, <2>1, <2>2, <2>3, <2>4, <2>5 DEF Next
  <1> QED
    BY InitEstablishesInv, <1>1, PTL DEF Spec

\* What the getters report of keys, constraints and indexes is what the
\* application defined, after any DDL and any number of reflections.
THEOREM AlwaysReflectedAsDefined == Spec => []ReflectedAsDefined
  <1>1. IInv => ReflectedAsDefined
    BY ReflectedAsDefinedByLink DEF IInv
  <1> QED
    BY Invariance, <1>1, PTL

\* A reflected foreign key leads to the columns and the table it was defined
\* for, in whichever schema that is.
THEOREM ReferencesAlwaysResolve == Spec => []ReferencesResolve
  <1>1. IInv => ReferencesResolve
    BY ReferencesResolveByLink DEF IInv
  <1> QED
    BY Invariance, <1>1, PTL

\* The server takes all DDL that the dialect emits for what it reflected.
THEOREM EmittedDDLAlwaysAccepted == Spec => []EmittedDDLAccepted
  <1>1. IInv => EmittedDDLAccepted
    BY DEF IInv, EmittedDDLAccepted
  <1> QED
    BY Invariance, <1>1, PTL
-----------------------------------------------------------------------------
(* Sequences, the other thing that DDL makes and reflection reads, for any *)
(* schemas, names and columns and however DDL is interleaved.              *)

Exists(key, generated) == [key |-> key, generated |-> generated] \in sequences

\* A default names a sequence that exists, and one that was generated just when
\* the column is an identity, of which no two share one.
Named ==
    \A c \in TableColumn : tableColumns[c] # Absent =>
        /\ tableColumns[c].made = "identity" => Exists(tableColumns[c].default, TRUE)
        /\ tableColumns[c].made = "drawing" => Exists(tableColumns[c].default, FALSE)

Owned ==
    \A c, d \in TableColumn :
        /\ tableColumns[c] # Absent /\ tableColumns[c].made = "identity"
        /\ tableColumns[d] # Absent /\ tableColumns[d].made = "identity"
        /\ tableColumns[c].default = tableColumns[d].default
        => c = d

SequencesInv == SequenceTypeOK /\ Named /\ Owned

-----------------------------------------------------------------------------
\* A key is generated or declared, and not both.
LEMMA OneSequence ==
    ASSUME SequenceTypeOK, NEW key
    PROVE  ~(Exists(key, TRUE) /\ Exists(key, FALSE))
  <1> SUFFICES ASSUME Exists(key, TRUE), Exists(key, FALSE) PROVE FALSE
    OBVIOUS
  <1> DEFINE p == [key |-> key, generated |-> TRUE]
             q == [key |-> key, generated |-> FALSE]
  <1>1. p \in sequences /\ q \in sequences /\ p.key = q.key
    BY DEF Exists
  <1>2. p = q
    BY <1>1 DEF SequenceTypeOK
  <1>3. p.generated = TRUE /\ q.generated = FALSE
    OBVIOUS
  <1> QED
    BY <1>2, <1>3

\* The server's rows for a key.
LEMMA TakenExists ==
    ASSUME SequenceTypeOK, NEW key
    PROVE  Taken(key) <=> Exists(key, TRUE) \/ Exists(key, FALSE)
  <1>1. \A q \in sequences : q = [key |-> q.key, generated |-> q.generated] /\ q.generated \in BOOLEAN
    BY DEF SequenceTypeOK, Sequence
  <1> QED
    BY <1>1 DEF Taken, Exists

\* A sequence under a free key keeps the keys unique.
LEMMA NewSequence ==
    ASSUME SequenceTypeOK, NEW key \in SequenceKey, NEW generated \in BOOLEAN, ~Taken(key),
           sequences' = sequences \cup {[key |-> key, generated |-> generated]}
    PROVE  /\ sequences' \subseteq Sequence
           /\ \A p, r \in sequences' : p.key = r.key => p = r
  <1> DEFINE q == [key |-> key, generated |-> generated]
  <1>1. q \in Sequence /\ q.key = key
    BY DEF Sequence
  <1>2. \A p \in sequences : p.key # q.key
    BY <1>1 DEF Taken
  <1>3. sequences' = sequences \cup {q}
    OBVIOUS
  <1> HIDE DEF q
  <1>4. ASSUME NEW p \in sequences', NEW r \in sequences', p.key = r.key PROVE p = r
    <2>1. p \in sequences \/ p = q
      BY <1>3
    <2>2. r \in sequences \/ r = q
      BY <1>3
    <2> QED
      BY <1>2, <1>4, <2>1, <2>2 DEF SequenceTypeOK
  <1> QED
    BY <1>1, <1>3, <1>4 DEF SequenceTypeOK

\* What a new column must be for the invariant to hold of it.
LEMMA NewColumn ==
    ASSUME SequencesInv, NEW c \in TableColumn, NEW column \in ColumnType,
           tableColumns[c] = Absent, tableColumns' = [tableColumns EXCEPT ![c] = column],
           sequences \subseteq sequences', SequenceTypeOK',
           column.made = "identity" => Exists(column.default, TRUE)'
                                       /\ ~Exists(column.default, TRUE),
           column.made = "drawing" => Exists(column.default, FALSE)'
    PROVE  SequencesInv'
  <1>1. tableColumns'[c] = column /\ \A d \in TableColumn \ {c} : tableColumns'[d] = tableColumns[d]
    BY DEF SequencesInv, SequenceTypeOK
  <1>2. \A key, g : Exists(key, g) => Exists(key, g)'
    BY DEF Exists
  <1>3. Named'
    <2> SUFFICES ASSUME NEW d \in TableColumn, (tableColumns[d] # Absent)'
                 PROVE  /\ tableColumns'[d].made = "identity" => Exists(tableColumns[d].default, TRUE)'
                        /\ tableColumns'[d].made = "drawing" => Exists(tableColumns[d].default, FALSE)'
      BY DEF Named
    <2>1. CASE d = c
      BY <1>1, <2>1, Zenon DEF Exists
    <2>2. CASE d # c
      <3>1. tableColumns'[d] = tableColumns[d]
        BY <1>1, <2>2
      <3> QED
        BY <1>2, <3>1, Zenon DEF SequencesInv, Named, Exists
    <2> QED
      BY <2>1, <2>2
  <1>4. Owned'
    <2> SUFFICES ASSUME NEW d \in TableColumn, NEW e \in TableColumn,
                        tableColumns'[d] # Absent, tableColumns'[d].made = "identity",
                        tableColumns'[e] # Absent, tableColumns'[e].made = "identity",
                        tableColumns'[d].default = tableColumns'[e].default
                 PROVE  d = e
      BY DEF Owned
    <2>1. CASE d # c /\ e # c
      BY <1>1, <2>1 DEF SequencesInv, Owned
    <2>2. ASSUME NEW k \in TableColumn \ {c}, tableColumns'[k] # Absent, tableColumns'[k].made = "identity",
                 column.made = "identity", tableColumns'[k].default = column.default
          PROVE  FALSE
      <3>1. Exists(tableColumns[k].default, TRUE)
        BY <1>1, <2>2 DEF SequencesInv, Named
      <3> QED
        BY <1>1, <2>2, <3>1
    <2> QED
      BY <1>1, <2>1, <2>2
  <1> QED
    BY <1>3, <1>4 DEF SequencesInv

-----------------------------------------------------------------------------
LEMMA SequencesInitially == SequenceInit => SequencesInv
  BY DEF SequenceInit, SequencesInv, SequenceTypeOK, Named, Owned, Sequence,
         ColumnType

LEMMA SequenceCreated ==
    ASSUME SequencesInv, NEW key \in SequenceKey, CreateSequence(key)
    PROVE  SequencesInv'
  <1>1. ~Taken(key) /\ tableColumns' = tableColumns
        /\ sequences' = sequences \cup {[key |-> key, generated |-> FALSE]}
    BY DEF CreateSequence
  <1>2. SequenceTypeOK'
    <2>1. /\ sequences' \subseteq Sequence
          /\ \A p, r \in sequences' : p.key = r.key => p = r
      BY <1>1, NewSequence DEF SequencesInv
    <2> QED
      BY <1>1, <2>1 DEF SequencesInv, SequenceTypeOK
  <1> QED
    BY <1>1, <1>2 DEF SequencesInv, Named, Owned, Exists

LEMMA SequenceDropped ==
    ASSUME SequencesInv, NEW key \in SequenceKey, DropSequence(key)
    PROVE  SequencesInv'
  <1>1. ~InUse(key) /\ tableColumns' = tableColumns
        /\ sequences' = sequences \ {[key |-> key, generated |-> FALSE]}
    BY DEF DropSequence
  <1>2. SequenceTypeOK'
    BY <1>1 DEF SequencesInv, SequenceTypeOK
  <1>3. Named'
    BY <1>1 DEF SequencesInv, Named, Exists, InUse
  <1> QED
    BY <1>1, <1>2, <1>3 DEF SequencesInv, Owned

LEMMA PlainCreated ==
    ASSUME SequencesInv, NEW c \in TableColumn, CreatePlainColumn(c)
    PROVE  SequencesInv'
  <1> DEFINE column == [made |-> "plain", default |-> Absent]
  <1>1. column \in ColumnType /\ column.made = "plain" /\ column.default = Absent
    BY DEF ColumnType
  <1>2. /\ tableColumns[c] = Absent /\ tableColumns' = [tableColumns EXCEPT ![c] = column]
        /\ sequences' = sequences
    BY DEF CreatePlainColumn
  <1> HIDE DEF column
  <1>3. SequenceTypeOK'
    BY <1>1, <1>2 DEF SequencesInv, SequenceTypeOK
  <1> QED
    BY <1>1, <1>2, <1>3, NewColumn

LEMMA IdentityCreated ==
    ASSUME SequencesInv, NEW c \in TableColumn, NEW key \in SequenceKey,
           CreateIdentityColumn(c, key)
    PROVE  SequencesInv'
  <1> DEFINE column == [made |-> "identity", default |-> key]
  <1>1. column \in ColumnType /\ column.made = "identity" /\ column.default = key /\ key # Absent
    BY AbsentAssumption DEF ColumnType
  <1>2. /\ tableColumns[c] = Absent /\ tableColumns' = [tableColumns EXCEPT ![c] = column]
        /\ ~Taken(key) /\ sequences' = sequences \cup {[key |-> key, generated |-> TRUE]}
    BY DEF CreateIdentityColumn
  <1> HIDE DEF column
  <1>3. SequenceTypeOK'
    <2>1. /\ sequences' \subseteq Sequence
          /\ \A p, r \in sequences' : p.key = r.key => p = r
      BY <1>2, NewSequence DEF SequencesInv
    <2> QED
      BY <1>1, <1>2, <2>1 DEF SequencesInv, SequenceTypeOK
  <1>4. ~Exists(key, TRUE)
    BY <1>2, TakenExists DEF SequencesInv
  <1>5. Exists(key, TRUE)'
    BY <1>2 DEF Exists
  <1> QED
    BY <1>1, <1>2, <1>3, <1>4, <1>5, NewColumn

LEMMA DrawingCreated ==
    ASSUME SequencesInv, NEW c \in TableColumn, NEW key \in SequenceKey,
           CreateDrawingColumn(c, key)
    PROVE  SequencesInv'
  <1> DEFINE column == [made |-> "drawing", default |-> key]
  <1>1. column \in ColumnType /\ column.made = "drawing" /\ column.default = key /\ key # Absent
    BY AbsentAssumption DEF ColumnType
  <1>2. /\ tableColumns[c] = Absent /\ tableColumns' = [tableColumns EXCEPT ![c] = column]
        /\ sequences' = sequences /\ Exists(key, FALSE)
    BY DEF CreateDrawingColumn, DefaultOf, Exists
  <1> HIDE DEF column
  <1>3. SequenceTypeOK'
    BY <1>1, <1>2 DEF SequencesInv, SequenceTypeOK
  <1>4. Exists(key, FALSE)'
    BY <1>2 DEF Exists
  <1> QED
    BY <1>1, <1>2, <1>3, <1>4, NewColumn

LEMMA ColumnDropped ==
    ASSUME SequencesInv, NEW c \in TableColumn, DropColumn(c)
    PROVE  SequencesInv'
  <1> USE DEF SequencesInv
  <1>1. tableColumns'[c] = Absent /\ \A d \in TableColumn \ {c} : tableColumns'[d] = tableColumns[d]
    BY DEF DropColumn, SequenceTypeOK
  <1>2. tableColumns' \in [TableColumn -> ColumnType \cup {Absent}] /\ sequences' \subseteq sequences
    BY DEF DropColumn, SequenceTypeOK
  <1>3. SequenceTypeOK'
    BY <1>1, <1>2 DEF SequenceTypeOK
  <1>4. Owned'
    BY <1>1 DEF Owned
  <1>5. Named'
    <2> SUFFICES ASSUME NEW d \in TableColumn, tableColumns'[d] # Absent
                 PROVE  /\ tableColumns'[d].made = "identity" => Exists(tableColumns[d].default, TRUE)'
                        /\ tableColumns'[d].made = "drawing" => Exists(tableColumns[d].default, FALSE)'
      BY DEF Named
    <2>1. d # c /\ tableColumns'[d] = tableColumns[d]
      BY <1>1
    <2>2. CASE sequences' = sequences
      BY <2>1, <2>2 DEF Named, Exists
    <2>3. CASE /\ tableColumns[c] # Absent /\ tableColumns[c].made = "identity"
               /\ sequences' = {q \in sequences : q.key # tableColumns[c].default}
      <3>1. Exists(tableColumns[c].default, TRUE) /\ ~Exists(tableColumns[c].default, FALSE)
        BY <2>3, OneSequence DEF Named
      <3>2. \A key, g : Exists(key, g) /\ key # tableColumns[c].default => Exists(key, g)'
        BY <2>3 DEF Exists
      <3>3. tableColumns[d].made = "identity" => tableColumns[d].default # tableColumns[c].default
        BY <2>1, <2>3 DEF Owned
      <3>4. tableColumns[d].made = "drawing" => tableColumns[d].default # tableColumns[c].default
        BY <2>1, <3>1 DEF Named
      <3> QED
        BY <2>1, <3>2, <3>3, <3>4 DEF Named, Exists
    <2> QED
      BY <2>2, <2>3 DEF DropColumn
  <1> QED
    BY <1>3, <1>4, <1>5

LEMMA SequencesInvariance == SequenceSpec => []SequencesInv
  <1>1. SequencesInv /\ [SequenceNext]_sequenceVars => SequencesInv'
    <2> SUFFICES ASSUME SequencesInv, [SequenceNext]_sequenceVars PROVE SequencesInv'
      OBVIOUS
    <2>1. CASE UNCHANGED sequenceVars
      BY <2>1 DEF sequenceVars, SequencesInv, SequenceTypeOK, Named, Owned, Exists
    <2>2. CASE SequenceNext
      BY <2>2, SequenceCreated, SequenceDropped, PlainCreated, IdentityCreated,
         DrawingCreated, ColumnDropped DEF SequenceNext
    <2> QED
      BY <2>1, <2>2
  <1> QED
    BY <1>1, SequencesInitially, PTL DEF SequenceSpec

-----------------------------------------------------------------------------
\* The rows of sys.sequences and sys.columns stay well typed and keys unique.
THEOREM SequencesTypeCorrect == SequenceSpec => []SequenceTypeOK
  <1>1. SequencesInv => SequenceTypeOK
    BY DEF SequencesInv
  <1> QED
    BY <1>1, SequencesInvariance, PTL

\* get_columns tells generated sequences from declared ones, and
\* get_sequence_names leaves out each one that an identity owns.
THEOREM ColumnsReflectedRight == SequenceSpec => []ReflectedAsDeclared
  <1>1. SequencesInv => ReflectedAsDeclared
    <2> SUFFICES ASSUME SequencesInv PROVE ReflectedAsDeclared
      OBVIOUS
    <2>1. ASSUME NEW c \in TableColumn, tableColumns[c] # Absent
          PROVE  (\E q \in SequenceFor(tableColumns[c].default) : q.generated)
                     <=> tableColumns[c].made = "identity"
      <3>1. tableColumns[c].made \in {"plain", "identity", "drawing"}
        BY <2>1 DEF SequencesInv, SequenceTypeOK, ColumnType
      <3>2. \A q \in sequences : q.key \in SequenceKey /\ q = [key |-> q.key, generated |-> q.generated]
                                 /\ q.generated \in BOOLEAN
        BY DEF SequencesInv, SequenceTypeOK, Sequence
      <3>3. CASE tableColumns[c].made = "identity"
        <4>1. Exists(tableColumns[c].default, TRUE)
          BY <2>1, <3>3 DEF SequencesInv, Named
        <4> QED
          BY <3>3, <4>1 DEF Exists, SequenceFor
      <3>4. CASE tableColumns[c].made = "drawing"
        <4>1. ~Exists(tableColumns[c].default, TRUE)
          BY <2>1, <3>4, OneSequence DEF SequencesInv, Named
        <4>2. ~\E q \in SequenceFor(tableColumns[c].default) : q.generated
          BY <3>2, <4>1 DEF Exists, SequenceFor
        <4> QED
          BY <3>4, <4>2
      <3>5. CASE tableColumns[c].made = "plain"
        <4>1. tableColumns[c].default = Absent
          BY <2>1, <3>5 DEF SequencesInv, SequenceTypeOK
        <4> QED
          BY <3>2, <3>5, <4>1, AbsentAssumption DEF SequenceFor
      <3> QED
        BY <3>1, <3>3, <3>4, <3>5
    <2>2. ASSUME NEW c \in TableColumn, tableColumns[c] # Absent
          PROVE  ReflectedColumn(c) =
                     [identity |-> tableColumns[c].made = "identity",
                      default |-> IF tableColumns[c].made = "identity" THEN Absent
                                  ELSE tableColumns[c].default]
      <3>1. CASE tableColumns[c].made = "identity"
        BY <2>1, <2>2, <3>1 DEF ReflectedColumn
      <3>2. CASE tableColumns[c].made # "identity"
        BY <2>1, <2>2, <3>2 DEF ReflectedColumn
      <3> QED
        BY <3>1, <3>2
    <2>3. \A s \in Schema : \A q \in SequenceNames(s) :
              q.generated => ~\E c \in TableColumn : tableColumns[c] # Absent /\ tableColumns[c].default = q.key
      BY DEF SequenceNames, InUse
    <2> QED
      BY <2>2, <2>3 DEF ReflectedAsDeclared
  <1> QED
    BY <1>1, SequencesInvariance, PTL
=============================================================================

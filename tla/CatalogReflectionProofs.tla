----------------------- MODULE CatalogReflectionProofs -----------------------
(***************************************************************************)
(* The safety invariants of CatalogReflection, for any names, any schema   *)
(* arguments and any catalog.                                              *)
(*                                                                         *)
(* LookupsAgree compares entries of the cache with one another; what makes *)
(* it inductive is that, until the catalog changes, each entry is what its *)
(* query says now (CacheCurrent).  AnsweredInFull has to hold of stale     *)
(* entries too, and rests on what every entry once resolved keeps for good *)
(* (CacheSound): it names what was asked for, one table for a name, and    *)
(* the catalog that has the facts about a table can be told from its type. *)
(***************************************************************************)
EXTENDS CatalogReflection, TLAPS

\* The catalog holds one table for a name in each schema, of a type that the
\* schema can hold.
CatalogOK == /\ \A t \in catalog : t.type \in Kinds[t.schema]
             /\ \A t, u \in catalog : t.schema = u.schema /\ t.name = u.name => t = u

\* What a request can resolve to, now or when its answer was cached.
Sound(tables, names) ==
    /\ tables \subseteq Table /\ OnePerName(tables)
    /\ \A t \in tables : /\ names # NoFilter => t.name \in names
                         /\ ReadFrom(t) = KeptIn(t)

CacheSound == \A key \in DOMAIN cache :
    \A arg \in Arg, names \in Filter, c \in Choice :
        key = CacheKey(arg, names, c[1], c[2]) => Sound(cache[key], names)

\* The value is what the query of that key says of the catalog now.
Answers(key, value) == \A arg \in Arg :
    /\ key = <<"tables", arg>> => value = TableNames(arg)
    /\ key = <<"views", arg>> => value = ViewNames(arg)
    /\ key = <<"temporary", arg>> => value = TempTableNames(arg)
    /\ \A n \in Name : key = <<"has", arg, n>> => value = TableId(arg, n)
    /\ \A names \in (SUBSET Name) \cup {NoFilter}, scope \in SUBSET {"DEFAULT", "TEMPORARY"},
          kind \in SUBSET {"TABLE", "VIEW"} :
          key = CacheKey(arg, names, scope, kind) => value = Resolved(arg, names, scope, kind)

CacheCurrent == fresh => \A key \in DOMAIN cache : Answers(key, cache[key])

IInv == /\ TypeOK
        /\ CatalogOK
        /\ CacheSound
        /\ Sound(request, asked)
        /\ CacheCurrent
        /\ AnsweredInFull

-----------------------------------------------------------------------------
(* Lemmas about the operators of the model.                                *)

\* The schemas, and the types of table that each can hold.
LEMMA KindsBySchema ==
    /\ Schema = {"app", "sys", "tmp"}
    /\ Kinds["app"] = {"table", "view", "merge"}
    /\ Kinds["sys"] = {"system", "sysview"}
    /\ Kinds["tmp"] = {"local", "global"}
  BY DEF Schema, Kinds

\* Every argument names one of the schemas.
LEMMA TargetIsSchema ==
    ASSUME NEW arg \in Arg
    PROVE  Target(arg) \in Schema
  BY ArgAssumption, KindsBySchema DEF Target

\* Keys of different lookups differ: they have different tags or lengths.
LEMMA KeysApart ==
    ASSUME NEW a, NEW b, NEW c, NEW d, NEW x, NEW y, NEW z
    PROVE  /\ <<x, y>> # CacheKey(a, b, c, d) /\ <<x, y, z>> # CacheKey(a, b, c, d)
           /\ <<x, y>> # <<a, b, c>>
  BY DEF CacheKey

\* A key determines the request it was made for.
LEMMA KeyDetermines ==
    ASSUME NEW a, NEW b, NEW c, NEW d, NEW w, NEW x, NEW y, NEW z,
           CacheKey(a, b, c, d) = CacheKey(w, x, y, z)
    PROVE  a = w /\ b = x /\ c = y /\ d = z
  BY DEF CacheKey

\* A new entry leaves the others as they are.
LEMMA ExtendedCache ==
    ASSUME NEW key, NEW value, ~Known(key), cache' = Extended(key, value)
    PROVE  /\ DOMAIN cache' = DOMAIN cache \cup {key}
           /\ \A k \in DOMAIN cache : k # key /\ cache'[k] = cache[k]
           /\ cache'[key] = value
  BY DEF Known, Extended

\* Explicit names and bulk discovery reach no temporary table through the
\* catalog of a schema.
LEMMA TypesForPermanent ==
    ASSUME NEW names, NEW kind
    PROVE  TypesFor(names, kind) \subseteq {"table", "merge", "system", "view", "sysview"}
  BY DEF TypesFor

\* What is resolved is in the catalog, and is either a table of the schema asked
\* for that is not temporary, or a temporary one of the session.
LEMMA ResolvedFrom ==
    ASSUME CatalogOK, NEW arg \in Arg, NEW names, NEW scope, NEW kind,
           NEW t \in Resolved(arg, names, scope, kind)
    PROVE  /\ t \in catalog
           /\ names # NoFilter => t.name \in names
           /\ \/ t.schema = Target(arg) /\ t.schema # "tmp" /\ t.type # "local"
              \/ t.schema = "tmp" /\ t.type = "local"
  <1>1. /\ t \in catalog /\ (names # NoFilter => t.name \in names)
        /\ \/ t.schema = Target(arg) /\ t.type \in TypesFor(names, kind)
           \/ t.schema = "tmp" /\ t.type = "local"
    BY DEF Resolved, Selected, Tables
  <1>2. t.schema = Target(arg) /\ t.type \in TypesFor(names, kind) =>
            t.schema # "tmp" /\ t.type # "local"
    BY <1>1, TypesForPermanent, KindsBySchema DEF CatalogOK
  <1> QED
    BY <1>1, <1>2

\* Of two tables of one name, of which one is temporary, the other is chosen.
LEMMA PermanentChosen ==
    ASSUME NEW arg, NEW names, NEW scope, NEW kind,
           NEW t \in Resolved(arg, names, scope, kind),
           NEW u \in Resolved(arg, names, scope, kind),
           t.name = u.name, u.type = "local"
    PROVE  t.type = "local"
  BY DEF Resolved, Selected

\* A request resolves to one table for a name, whose facts are in the catalog
\* that its type leads to.
LEMMA ResolvedSound ==
    ASSUME TypeOK, CatalogOK, NEW arg \in Arg, NEW names, NEW scope, NEW kind
    PROVE  Sound(Resolved(arg, names, scope, kind), names)
  <1> DEFINE tables == Resolved(arg, names, scope, kind)
  <1>1. \A t \in tables :
            /\ t \in catalog
            /\ names # NoFilter => t.name \in names
            /\ \/ t.schema = Target(arg) /\ t.schema # "tmp" /\ t.type # "local"
               \/ t.schema = "tmp" /\ t.type = "local"
    BY ResolvedFrom
  <1>2. \A t, u \in tables : t.name = u.name /\ u.type = "local" => t.type = "local"
    BY PermanentChosen
  <1> HIDE DEF tables
  <1>3. tables \subseteq Table
    BY <1>1 DEF TypeOK
  <1>4. OnePerName(tables)
    BY <1>1, <1>2 DEF OnePerName, CatalogOK
  <1>5. \A t \in tables : ReadFrom(t) = KeptIn(t)
    BY <1>1 DEF ReadFrom, KeptIn
  <1> QED
    BY <1>1, <1>3, <1>4, <1>5 DEF Sound, tables

\* What a query says depends on the catalog alone.
LEMMA QueriesOfCatalog ==
    ASSUME UNCHANGED catalog, NEW arg
    PROVE  /\ TableNames(arg)' = TableNames(arg)
           /\ ViewNames(arg)' = ViewNames(arg)
           /\ TempTableNames(arg)' = TempTableNames(arg)
           /\ \A n : TableId(arg, n)' = TableId(arg, n)
           /\ \A names, scope, kind :
                Resolved(arg, names, scope, kind)' = Resolved(arg, names, scope, kind)
  BY DEF TableNames, ViewNames, TempTableNames, TableId, Resolved, Tables, NamesOf

\* So a current cache stays current while neither of the two changes.
LEMMA SameCurrent ==
    ASSUME CacheCurrent, UNCHANGED <<catalog, cache, fresh>>
    PROVE  CacheCurrent'
  <1>1. ASSUME fresh, NEW k \in DOMAIN cache PROVE Answers(k, cache[k])'
    <2>1. Answers(k, cache[k])
      BY <1>1 DEF CacheCurrent
    <2>2. ASSUME NEW arg \in Arg
          PROVE  /\ TableNames(arg)' = TableNames(arg)
                 /\ ViewNames(arg)' = ViewNames(arg)
                 /\ TempTableNames(arg)' = TempTableNames(arg)
                 /\ \A n : TableId(arg, n)' = TableId(arg, n)
                 /\ \A names, scope, kind :
                      Resolved(arg, names, scope, kind)' = Resolved(arg, names, scope, kind)
      BY QueriesOfCatalog
    <2> QED
      BY <2>1, <2>2 DEF Answers
  <1> QED
    BY <1>1 DEF CacheCurrent

\* An answer that is right when it is cached keeps the cache current.
LEMMA CachedCurrent ==
    ASSUME CacheCurrent, UNCHANGED <<catalog, fresh>>,
           NEW key, NEW value, ~Known(key), cache' = Extended(key, value),
           Answers(key, value)
    PROVE  CacheCurrent'
  <1> DEFINE Told(k, v) == Answers(k, v)
  <1>1. ASSUME fresh, NEW k \in DOMAIN cache' PROVE Told(k, cache'[k])
    <2> HIDE DEF Told
    <2>1. \A old \in DOMAIN cache : Told(old, cache[old])
      BY <1>1 DEF CacheCurrent, Told
    <2>2. Told(key, value)
      BY DEF Told
    <2>3. DOMAIN cache' = DOMAIN cache \cup {key} /\ cache'[key] = value
      BY ExtendedCache
    <2>4. \A old \in DOMAIN cache : cache'[old] = cache[old]
      BY ExtendedCache
    <2> QED
      BY <1>1, <2>1, <2>2, <2>3, <2>4
  <1>2. ASSUME fresh, NEW k \in DOMAIN cache' PROVE Answers(k, cache[k])'
    <2>1. Answers(k, cache'[k])
      BY <1>1, <1>2
    <2>2. ASSUME NEW arg \in Arg
          PROVE  /\ TableNames(arg)' = TableNames(arg)
                 /\ ViewNames(arg)' = ViewNames(arg)
                 /\ TempTableNames(arg)' = TempTableNames(arg)
                 /\ \A n : TableId(arg, n)' = TableId(arg, n)
                 /\ \A names, scope, kind :
                      Resolved(arg, names, scope, kind)' = Resolved(arg, names, scope, kind)
      BY QueriesOfCatalog
    <2> QED
      BY <2>1, <2>2 DEF Answers
  <1> QED
    BY <1>2 DEF CacheCurrent

\* Any entry whose key is not that of a request keeps the cache sound, and so
\* does a request's that is sound when it is cached.
LEMMA CachedSound ==
    ASSUME CacheSound, NEW key, NEW value, ~Known(key), cache' = Extended(key, value),
           \A arg \in Arg, names \in Filter, c \in Choice :
               key = CacheKey(arg, names, c[1], c[2]) => Sound(value, names)
    PROVE  CacheSound'
  <1>1. DOMAIN cache' = DOMAIN cache \cup {key} /\ cache'[key] = value
    BY ExtendedCache
  <1>2. \A old \in DOMAIN cache : cache'[old] = cache[old]
    BY ExtendedCache
  <1>3. \A k \in DOMAIN cache' : \A arg \in Arg, names \in Filter, c \in Choice :
            k = CacheKey(arg, names, c[1], c[2]) => Sound(cache'[k], names)
    BY <1>1, <1>2 DEF CacheSound
  <1> QED
    BY <1>3 DEF CacheSound, Sound

-----------------------------------------------------------------------------
(* The invariant.                                                          *)

LEMMA InitInvariant == Init => IInv
  <1> SUFFICES ASSUME Init PROVE IInv
    OBVIOUS
  <1>1. 0 \in 0..MaxDDL
    BY BoundsAssumption
  <1>2. PICK c \in SUBSET {t \in Table : t.born = 0 /\ t.type \in Kinds[t.schema]} :
            /\ catalog = c
            /\ \A s \in Schema : OnePerName({t \in c : t.schema = s})
    BY DEF Init
  <1>3. catalog \subseteq Table /\ \A t \in catalog : t.type \in Kinds[t.schema] /\ t.schema \in Schema
    BY <1>2 DEF Table
  <1>4. \A t, u \in catalog : t.schema = u.schema /\ t.name = u.name => t = u
    BY <1>2, <1>3 DEF OnePerName
  <1>5. DOMAIN cache = {}
    BY DEF Init
  <1>6. TypeOK
    BY <1>1, <1>3 DEF Init, TypeOK, OnePerName
  <1>7. Sound(request, asked)
    BY DEF Init, Sound, OnePerName
  <1>8. CacheSound /\ CacheCurrent
    BY <1>5 DEF CacheSound, CacheCurrent
  <1>9. AnsweredInFull
    BY DEF Init, AnsweredInFull
  <1> QED
    BY <1>3, <1>4, <1>6, <1>7, <1>8, <1>9 DEF IInv, CatalogOK


\* An answer of a single query is cached.
LEMMA AskKeeps ==
    ASSUME IInv, NEW key, NEW value, Ask(key, value), Answers(key, value),
           \A a, b, c, d : key # CacheKey(a, b, c, d)
    PROVE  IInv'
  <1>1. ~Known(key) /\ cache' = Extended(key, value) /\ UNCHANGED <<catalog, fresh>>
    BY DEF Ask
  <1>2. CacheCurrent'
    BY <1>1, CachedCurrent DEF IInv
  <1>3. CacheSound'
    BY <1>1, CachedSound DEF IInv
  <1>4. TypeOK' /\ CatalogOK'
    BY DEF Ask, IInv, TypeOK, CatalogOK, OnePerName
  <1>5. Sound(request, asked)'
    BY DEF Ask, Sound, OnePerName
  <1>6. AnsweredInFull'
    BY DEF Ask, AnsweredInFull
  <1> QED
    BY <1>2, <1>3, <1>4, <1>5, <1>6 DEF IInv

\* The names of tables, views and temporary tables, and has_table.
LEMMA QueriesKeep ==
    ASSUME IInv, NEW arg \in Arg,
           \/ GetTableNames(arg) \/ GetViewNames(arg) \/ GetTempTableNames(arg)
           \/ \E n \in Name : HasTable(arg, n)
    PROVE  IInv'
  <1>1. CASE GetTableNames(arg)
    <2>1. Answers(<<"tables", arg>>, TableNames(arg))
      BY KeysApart DEF Answers
    <2> QED
      BY <1>1, <2>1, KeysApart, AskKeeps DEF GetTableNames
  <1>2. CASE GetViewNames(arg)
    <2>1. Answers(<<"views", arg>>, ViewNames(arg))
      BY KeysApart DEF Answers
    <2> QED
      BY <1>2, <2>1, KeysApart, AskKeeps DEF GetViewNames
  <1>3. CASE GetTempTableNames(arg)
    <2>1. Answers(<<"temporary", arg>>, TempTableNames(arg))
      BY KeysApart DEF Answers
    <2> QED
      BY <1>3, <2>1, KeysApart, AskKeeps DEF GetTempTableNames
  <1>4. ASSUME NEW n \in Name, HasTable(arg, n) PROVE IInv'
    <2>1. Answers(<<"has", arg, n>>, TableId(arg, n))
      BY KeysApart DEF Answers
    <2> QED
      BY <1>4, <2>1, KeysApart, AskKeeps DEF HasTable
  <1> QED
    BY <1>1, <1>2, <1>3, <1>4

\* A request is resolved, from the cache or anew.
LEMMA ResolveKeeps ==
    ASSUME IInv, NEW arg \in Arg, NEW names \in Filter, NEW c \in Choice,
           Resolve(arg, names, c[1], c[2])
    PROVE  IInv'
  <1> DEFINE key == CacheKey(arg, names, c[1], c[2])
             tables == Resolved(arg, names, c[1], c[2])
  <1>1. c[1] \in SUBSET {"DEFAULT", "TEMPORARY"} /\ c[2] \in SUBSET {"TABLE", "VIEW"}
    BY ChoiceAssumption
  <1>2. /\ request = {} /\ asked' = names /\ answer' = {}
        /\ UNCHANGED <<catalog, ddl, fresh>>
        /\ \/ Known(key) /\ request' = cache[key] /\ cache' = cache
           \/ ~Known(key) /\ request' = tables /\ cache' = Extended(key, tables)
    BY DEF Resolve
  <1>3. Sound(tables, names)
    BY ResolvedSound DEF IInv
  <1>4. Answers(key, tables)
    <2>1. \A x, y, z : key # <<x, y>> /\ key # <<x, y, z>>
      BY KeysApart
    <2>2. ASSUME NEW a \in Arg, NEW b \in (SUBSET Name) \cup {NoFilter},
                 NEW s \in SUBSET {"DEFAULT", "TEMPORARY"}, NEW k \in SUBSET {"TABLE", "VIEW"},
                 key = CacheKey(a, b, s, k)
          PROVE  tables = Resolved(a, b, s, k)
      BY <2>2, KeyDetermines
    <2> QED
      BY <2>1, <2>2 DEF Answers
  <1>5. \A a \in Arg, b \in Filter, d \in Choice :
            key = CacheKey(a, b, d[1], d[2]) => Sound(tables, b)
    BY <1>3, KeyDetermines
  <1> HIDE DEF key, tables
  <1>6. CASE Known(key) /\ request' = cache[key] /\ cache' = cache
    <2>1. Sound(cache[key], names)
      BY <1>6 DEF IInv, CacheSound, Known, key
    <2>2. Sound(request, asked)'
      BY <1>2, <1>6, <2>1 DEF Sound, OnePerName
    <2>3. CacheSound'
      BY <1>6 DEF IInv, CacheSound, Sound
    <2>4. CacheCurrent'
      BY <1>2, <1>6, SameCurrent DEF IInv
    <2> QED
      BY <1>2, <2>2, <2>3, <2>4 DEF IInv, TypeOK, CatalogOK, AnsweredInFull, Sound
  <1>7. CASE ~Known(key) /\ request' = tables /\ cache' = Extended(key, tables)
    <2>1. Sound(request, asked)'
      BY <1>2, <1>3, <1>7 DEF Sound, OnePerName
    <2>2. CacheSound'
      BY <1>5, <1>7, CachedSound DEF IInv
    <2>3. CacheCurrent'
      BY <1>2, <1>4, <1>7, CachedCurrent DEF IInv
    <2> QED
      BY <1>2, <2>1, <2>2, <2>3 DEF IInv, TypeOK, CatalogOK, AnsweredInFull, Sound
  <1> QED
    BY <1>2, <1>6, <1>7

\* The facts about the resolved tables are read.
LEMMA FetchKeeps ==
    ASSUME IInv, Fetch
    PROVE  IInv'
  <1>1. /\ answer' = {[table |-> t, read |-> t \in catalog /\ ReadFrom(t) = KeptIn(t)] : t \in request}
        /\ request' = {} /\ UNCHANGED <<catalog, ddl, cache, fresh, asked>>
    BY DEF Fetch
  <1>2. ASSUME NEW e \in answer'
        PROVE  /\ e \in [table : Table, read : BOOLEAN]
               /\ asked # NoFilter => e.table.name \in asked
               /\ e.read \/ e.table \notin catalog
    <2>1. PICK t \in request :
              e = [table |-> t, read |-> t \in catalog /\ ReadFrom(t) = KeptIn(t)]
      BY <1>1
    <2>2. /\ ReadFrom(t) = KeptIn(t) /\ t \in Table
          /\ asked # NoFilter => t.name \in asked
      BY DEF IInv, Sound
    <2>3. CASE t \in catalog
      <3>1. e = [table |-> t, read |-> TRUE]
        BY <2>1, <2>2, <2>3
      <3> QED
        BY <2>2, <3>1
    <2>4. CASE t \notin catalog
      <3>1. e = [table |-> t, read |-> FALSE]
        BY <2>1, <2>4
      <3> QED
        BY <2>2, <2>4, <3>1
    <2> QED
      BY <2>3, <2>4
  <1>3. AnsweredInFull'
    BY <1>1, <1>2 DEF AnsweredInFull
  <1>4. TypeOK' /\ CatalogOK' /\ Sound(request, asked)'
    BY <1>1, <1>2 DEF IInv, TypeOK, CatalogOK, Sound, OnePerName
  <1>5. CacheSound'
    BY <1>1 DEF IInv, CacheSound, Sound
  <1>6. CacheCurrent'
    BY <1>1, SameCurrent DEF IInv
  <1> QED
    BY <1>3, <1>4, <1>5, <1>6 DEF IInv

\* A change of the catalog: the cache is no longer current, but sound.
LEMMA ChangedKeeps ==
    ASSUME IInv, Changed
    PROVE  /\ ddl' \in 0..MaxDDL /\ fresh' \in BOOLEAN /\ asked' \in Filter \cup {{}}
           /\ request' = request /\ answer' = {}
           /\ CacheSound' /\ Sound(request, asked)' /\ CacheCurrent' /\ AnsweredInFull'
  <1>1. ddl' \in 0..MaxDDL
    BY BoundsAssumption DEF Changed, IInv, TypeOK
  <1>2. CacheSound'
    BY DEF Changed, IInv, CacheSound, Sound
  <1>3. Sound(request, asked)'
    BY DEF Changed, IInv, Sound, OnePerName
  <1>4. asked' \in Filter \cup {{}}
    BY DEF Changed, IInv, TypeOK
  <1> QED
    BY <1>1, <1>2, <1>3, <1>4 DEF Changed, CacheCurrent, AnsweredInFull

\* A table or a view comes into being.
LEMMA CreateKeeps ==
    ASSUME IInv, NEW s \in Schema, NEW n \in Name, NEW k \in Type, Create(s, n, k)
    PROVE  IInv'
  <1> DEFINE new == [schema |-> s, name |-> n, type |-> k, born |-> ddl + 1]
  <1>1. /\ Changed /\ k \in Kinds[s] /\ catalog' = catalog \cup {new}
        /\ \A t \in catalog : ~(t.schema = s /\ t.name = n)
    BY DEF Create
  <1>2. ddl + 1 \in 0..MaxDDL
    BY <1>1, BoundsAssumption DEF Changed, IInv, TypeOK
  <1>3. new \in Table
    BY <1>2 DEF Table
  <1>4. CatalogOK'
    BY <1>1 DEF IInv, CatalogOK
  <1>5. TypeOK'
    BY <1>1, <1>3, <1>4, ChangedKeeps DEF IInv, TypeOK, CatalogOK, OnePerName
  <1> QED
    BY <1>1, <1>4, <1>5, ChangedKeeps DEF IInv

\* A table or a view is dropped.
LEMMA DropKeeps ==
    ASSUME IInv, NEW t \in catalog, Drop(t)
    PROVE  IInv'
  <1>1. Changed /\ catalog' = catalog \ {t}
    BY DEF Drop
  <1>2. CatalogOK'
    BY <1>1 DEF IInv, CatalogOK
  <1>3. TypeOK'
    BY <1>1, <1>2, ChangedKeeps DEF IInv, TypeOK, CatalogOK, OnePerName
  <1> QED
    BY <1>1, <1>2, <1>3, ChangedKeeps DEF IInv

\* The Inspector forgets.
LEMMA ClearCacheKeeps ==
    ASSUME IInv, ClearCache
    PROVE  IInv'
  <1>1. DOMAIN cache' = {}
    BY DEF ClearCache
  <1>2. CacheSound' /\ CacheCurrent'
    BY <1>1 DEF CacheSound, CacheCurrent
  <1>3. TypeOK' /\ CatalogOK' /\ Sound(request, asked)' /\ AnsweredInFull'
    BY DEF ClearCache, IInv, TypeOK, CatalogOK, Sound, OnePerName, AnsweredInFull
  <1> QED
    BY <1>2, <1>3 DEF IInv

LEMMA StutterKeeps ==
    ASSUME IInv, UNCHANGED vars
    PROVE  IInv'
  <1>1. UNCHANGED <<catalog, ddl, cache, fresh, asked, request, answer>>
    BY DEF vars
  <1>2. TypeOK' /\ CatalogOK' /\ Sound(request, asked)' /\ AnsweredInFull'
    BY <1>1 DEF IInv, TypeOK, CatalogOK, Sound, OnePerName, AnsweredInFull
  <1>3. CacheSound'
    BY <1>1 DEF IInv, CacheSound, Sound
  <1>4. CacheCurrent'
    BY <1>1, SameCurrent DEF IInv
  <1> QED
    BY <1>2, <1>3, <1>4 DEF IInv

THEOREM Invariance == Spec => []IInv
  <1>1. Init => IInv
    BY InitInvariant
  <1>2. IInv /\ [Next]_vars => IInv'
    <2> SUFFICES ASSUME IInv, [Next]_vars PROVE IInv'
      OBVIOUS
    <2>1. ASSUME NEW arg \in Arg,
                 \/ GetTableNames(arg) \/ GetViewNames(arg) \/ GetTempTableNames(arg)
                 \/ \E n \in Name : HasTable(arg, n)
          PROVE  IInv'
      BY <2>1, QueriesKeep
    <2>2. ASSUME NEW arg \in Arg, NEW names \in Filter, NEW c \in Choice,
                 Resolve(arg, names, c[1], c[2])
          PROVE  IInv'
      BY <2>2, ResolveKeeps
    <2>3. CASE Fetch
      BY <2>3, FetchKeeps
    <2>4. ASSUME NEW s \in Schema, NEW n \in Name, NEW k \in Type, Create(s, n, k) PROVE IInv'
      BY <2>4, CreateKeeps
    <2>5. ASSUME NEW t \in catalog, Drop(t) PROVE IInv'
      BY <2>5, DropKeeps
    <2>6. CASE ClearCache
      BY <2>6, ClearCacheKeeps
    <2>7. CASE UNCHANGED vars
      BY <2>7, StutterKeeps
    <2> QED
      BY <2>1, <2>2, <2>3, <2>4, <2>5, <2>6, <2>7 DEF Next
  <1> QED
    BY <1>1, <1>2, PTL DEF Spec

-----------------------------------------------------------------------------
(* What the invariant says of the lookups.                                 *)

\* A named table that get_table_names lists is what a request for the name
\* resolves to.
LEMMA ListedResolves ==
    ASSUME NEW arg \in Arg, NEW names \in SUBSET Name, NEW n \in names,
           n \in TableNames(arg)
    PROVE  \E t \in Resolved(arg, names, {"DEFAULT", "TEMPORARY"}, {"TABLE", "VIEW"}) :
               t.name = n /\ t.schema = Target(arg)
  <1>1. PICK t \in catalog : t.schema = Target(arg) /\ t.type = "table" /\ t.name = n
    BY DEF TableNames, NamesOf, Tables
  <1>2. names # NoFilter
    BY NoFilterAssumption
  <1>3. "table" \in TypesFor(names, {"TABLE", "VIEW"})
    BY <1>2 DEF TypesFor
  <1>4. t \in Resolved(arg, names, {"DEFAULT", "TEMPORARY"}, {"TABLE", "VIEW"})
    BY <1>1, <1>3 DEF Resolved, Selected, Tables
  <1> QED
    BY <1>1, <1>4

\* Bulk discovery of one kind resolves to what the list of that kind names.
LEMMA BulkResolves ==
    ASSUME NEW arg \in Arg
    PROVE  /\ NamesOf(Resolved(arg, NoFilter, {"DEFAULT"}, {"TABLE"})) = TableNames(arg)
           /\ NamesOf(Resolved(arg, NoFilter, {"DEFAULT"}, {"VIEW"})) = ViewNames(arg)
           /\ NamesOf(Resolved(arg, NoFilter, {"TEMPORARY"}, {"TABLE"})) = TempTableNames(arg)
  <1>1. /\ TypesFor(NoFilter, {"TABLE"}) = {"table"}
        /\ TypesFor(NoFilter, {"VIEW"}) = {"view"}
    BY DEF TypesFor
  <1>2. Resolved(arg, NoFilter, {"DEFAULT"}, {"TABLE"}) = Tables(Target(arg), {"table"})
    BY <1>1 DEF Resolved, Selected, Tables
  <1>3. Resolved(arg, NoFilter, {"DEFAULT"}, {"VIEW"}) = Tables(Target(arg), {"view"})
    BY <1>1 DEF Resolved, Selected, Tables
  <1>4. CASE arg = "default"
    <2>1. Resolved(arg, NoFilter, {"TEMPORARY"}, {"TABLE"}) = Tables("tmp", {"local"})
      BY <1>4 DEF Resolved, Selected, Tables
    <2> QED
      BY <1>2, <1>3, <1>4, <2>1 DEF TableNames, ViewNames, TempTableNames
  <1>5. CASE arg # "default"
    <2>1. Resolved(arg, NoFilter, {"TEMPORARY"}, {"TABLE"}) = {}
      BY <1>5 DEF Resolved, Selected
    <2> QED
      BY <1>2, <1>3, <1>5, <2>1 DEF TableNames, ViewNames, TempTableNames, NamesOf
  <1> QED
    BY <1>4, <1>5

\* has_table finds a name exactly when a request for it resolves to a table.
LEMMA ExistsResolves ==
    ASSUME CatalogOK, catalog \subseteq Table, NEW arg \in Arg \ {"tmp"}, NEW n \in Name
    PROVE  TableId(arg, n) <=>
               Resolved(arg, {n}, {"DEFAULT", "TEMPORARY"}, {"TABLE", "VIEW"}) # {}
  <1> DEFINE rows == {t \in catalog : /\ t.name = n
                                      /\ \/ t.schema = Target(arg)
                                         \/ arg = "default" /\ t.schema = "tmp" /\ t.type = "local"}
  <1>1. {n} # NoFilter
    BY NoFilterAssumption
  <1>2. TypesFor({n}, {"TABLE", "VIEW"}) = {"table", "merge", "system", "view", "sysview"}
    BY <1>1 DEF TypesFor
  <1>3. Target(arg) \in {"app", "sys"}
    BY ArgAssumption, KindsBySchema DEF Target
  <1>4. \A t \in catalog : t.schema = Target(arg) =>
            t.type \in TypesFor({n}, {"TABLE", "VIEW"}) /\ t.type # "local" /\ t.type \in Type
    BY <1>2, <1>3, KindsBySchema DEF CatalogOK, Table
  <1>5. TableId(arg, n) <=> rows # {}
    BY <1>4 DEF TableId, Tables, NamesOf
  <1>6. Resolved(arg, {n}, {"DEFAULT", "TEMPORARY"}, {"TABLE", "VIEW"}) = Selected(rows)
    BY <1>1, <1>4 DEF Resolved, Tables
  <1>7. Selected(rows) # {} <=> rows # {}
    BY DEF Selected
  <1> QED
    BY <1>5, <1>6, <1>7

\* The entries of a current cache, by what was asked.
LEMMA CachedAnswers ==
    ASSUME IInv, fresh, NEW arg \in Arg
    PROVE  /\ Known(<<"tables", arg>>) => cache[<<"tables", arg>>] = TableNames(arg)
           /\ Known(<<"views", arg>>) => cache[<<"views", arg>>] = ViewNames(arg)
           /\ Known(<<"temporary", arg>>) => cache[<<"temporary", arg>>] = TempTableNames(arg)
           /\ \A n \in Name :
                 Known(<<"has", arg, n>>) => cache[<<"has", arg, n>>] = TableId(arg, n)
  <1>1. \A key : Known(key) => Answers(key, cache[key])
    BY DEF IInv, CacheCurrent, Known
  <1> QED
    BY <1>1 DEF Answers

LEMMA CachedRequest ==
    ASSUME IInv, fresh, NEW arg \in Arg, NEW names \in (SUBSET Name) \cup {NoFilter},
           NEW scope \in SUBSET {"DEFAULT", "TEMPORARY"}, NEW kind \in SUBSET {"TABLE", "VIEW"},
           Known(<<arg, names, scope, kind>>)
    PROVE  cache[<<arg, names, scope, kind>>] = Resolved(arg, names, scope, kind)
  <1> DEFINE key == <<arg, names, scope, kind>>
  <1>1. Answers(key, cache[key])
    BY DEF IInv, CacheCurrent, Known
  <1>2. CacheKey(arg, names, scope, kind) = key
    BY DEF CacheKey
  <1> QED
    BY <1>1, <1>2 DEF Answers

LEMMA LookupsAgreeByInvariant ==
    ASSUME IInv
    PROVE  LookupsAgree
  <1>1. CASE ~fresh
    BY <1>1 DEF LookupsAgree, ListedIsReflected, BulkMatchesNames, ExistsIffReflected
  <1>2. CASE fresh
    <2>1. ASSUME NEW arg \in Arg, NEW names \in SUBSET Name,
                 Known(<<"tables", arg>>), Known(AnyOf(arg, names)),
                 NEW n \in cache[<<"tables", arg>>] \cap names
          PROVE  \E t \in Meant(arg, names) : t.name = n /\ t.schema = Target(arg)
      <3>1. n \in TableNames(arg)
        BY <1>2, <2>1, CachedAnswers
      <3>2. Meant(arg, names) = Resolved(arg, names, {"DEFAULT", "TEMPORARY"}, {"TABLE", "VIEW"})
        BY <1>2, <2>1, CachedRequest DEF Meant, AnyOf
      <3> QED
        BY <2>1, <3>1, <3>2, ListedResolves
    <2>2. ASSUME NEW arg \in Arg
          PROVE  /\ Known(<<"tables", arg>>) /\ Known(<<arg, NoFilter, {"DEFAULT"}, {"TABLE"}>>) =>
                        NamesOf(cache[<<arg, NoFilter, {"DEFAULT"}, {"TABLE"}>>]) = cache[<<"tables", arg>>]
                 /\ Known(<<"views", arg>>) /\ Known(<<arg, NoFilter, {"DEFAULT"}, {"VIEW"}>>) =>
                        NamesOf(cache[<<arg, NoFilter, {"DEFAULT"}, {"VIEW"}>>]) = cache[<<"views", arg>>]
                 /\ Known(<<"temporary", arg>>) /\ Known(<<arg, NoFilter, {"TEMPORARY"}, {"TABLE"}>>) =>
                        NamesOf(cache[<<arg, NoFilter, {"TEMPORARY"}, {"TABLE"}>>]) = cache[<<"temporary", arg>>]
      <3>1. \A scope \in {{"DEFAULT"}, {"TEMPORARY"}}, kind \in {{"TABLE"}, {"VIEW"}} :
                Known(<<arg, NoFilter, scope, kind>>) =>
                    cache[<<arg, NoFilter, scope, kind>>] = Resolved(arg, NoFilter, scope, kind)
        BY <1>2, CachedRequest
      <3>2. /\ Known(<<"tables", arg>>) => cache[<<"tables", arg>>] = TableNames(arg)
            /\ Known(<<"views", arg>>) => cache[<<"views", arg>>] = ViewNames(arg)
            /\ Known(<<"temporary", arg>>) => cache[<<"temporary", arg>>] = TempTableNames(arg)
        BY <1>2, CachedAnswers
      <3> QED
        BY <3>1, <3>2, BulkResolves
    <2>3. ASSUME NEW arg \in Arg \ {"tmp"}, NEW n \in Name,
                 Known(<<"has", arg, n>>), Known(AnyOf(arg, {n}))
          PROVE  cache[<<"has", arg, n>>] <=> Meant(arg, {n}) # {}
      <3>1. cache[<<"has", arg, n>>] = TableId(arg, n)
        BY <1>2, <2>3, CachedAnswers
      <3>2. Meant(arg, {n}) = Resolved(arg, {n}, {"DEFAULT", "TEMPORARY"}, {"TABLE", "VIEW"})
        BY <1>2, <2>3, CachedRequest DEF Meant, AnyOf
      <3> QED
        BY <3>1, <3>2, ExistsResolves DEF IInv, TypeOK
    <2>4. ListedIsReflected
      BY <2>1 DEF ListedIsReflected
    <2>5. BulkMatchesNames
      <3>1. ASSUME NEW arg \in Arg,
                   NEW b \in {<<"tables", "DEFAULT", "TABLE">>, <<"views", "DEFAULT", "VIEW">>,
                              <<"temporary", "TEMPORARY", "TABLE">>},
                   Known(<<b[1], arg>>), Known(<<arg, NoFilter, {b[2]}, {b[3]}>>)
            PROVE  NamesOf(cache[<<arg, NoFilter, {b[2]}, {b[3]}>>]) = cache[<<b[1], arg>>]
        <4>1. CASE b = <<"tables", "DEFAULT", "TABLE">>
          BY <2>2, <3>1, <4>1
        <4>2. CASE b = <<"views", "DEFAULT", "VIEW">>
          BY <2>2, <3>1, <4>2
        <4>3. CASE b = <<"temporary", "TEMPORARY", "TABLE">>
          BY <2>2, <3>1, <4>3
        <4> QED
          BY <4>1, <4>2, <4>3
      <3> QED
        BY <3>1 DEF BulkMatchesNames
    <2>6. ExistsIffReflected
      BY <2>3 DEF ExistsIffReflected
    <2> QED
      BY <2>4, <2>5, <2>6 DEF LookupsAgree
  <1> QED
    BY <1>1, <1>2

\* The types hold, and of one request no two tables have the same name: the
\* getters answer with one entry for a name.
THEOREM TypeCorrect == Spec => []TypeOK
  <1>1. IInv => TypeOK
    BY DEF IInv
  <1> QED
    BY <1>1, Invariance, PTL

\* Until the catalog changes, the lists of names, has_table, bulk discovery and
\* the getters do not contradict another, whatever was asked in which order.
THEOREM LookupsAlwaysAgree == Spec => []LookupsAgree
  <1>1. IInv => LookupsAgree
    BY LookupsAgreeByInvariant
  <1> QED
    BY <1>1, Invariance, PTL

\* A request is answered about the names it gave, from a stale cache too, and
\* without facts only about a table that is gone.
THEOREM AlwaysAnsweredInFull == Spec => []AnsweredInFull
  <1>1. IInv => AnsweredInFull
    BY DEF IInv
  <1> QED
    BY <1>1, Invariance, PTL
=============================================================================

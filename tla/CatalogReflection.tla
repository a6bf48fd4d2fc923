-------------------------- MODULE CatalogReflection --------------------------
(***************************************************************************)
(* Reflection through one Inspector (reflection.py, multi_reflection.py).  *)
(*                                                                         *)
(* A batched request first resolves which tables are meant and then reads  *)
(* the catalogs for their ids; the Inspector caches what was resolved, the *)
(* lists of names and the answers of has_table.  Meanwhile the session's   *)
(* own DDL between two calls, and under autocommit anybody's at any time,  *)
(* changes the catalog.  The get_multi_... methods differ in the facts     *)
(* they read, which are abstracted to whether they were found.             *)
(***************************************************************************)
EXTENDS Naturals, FiniteSets

CONSTANTS Name,      \* of tables and views
          Arg,       \* schema arguments: default is None, the current schema
          Choice,    \* the scopes and kinds of object asked for
          NoFilter,  \* the request names no tables: bulk discovery
          MaxCalls,  \* bound: answers in the cache
          MaxDDL,    \* bound: changes of the catalog
          MaxTables, \* bound: tables that exist at first
          NewKinds   \* bound: the kinds of table that come into being later

ASSUME BoundsAssumption == {MaxCalls, MaxDDL, MaxTables} \subseteq Nat

\* The types of table in each schema.  merge stands for merge, remote and
\* replica tables; global is a table of tmp that is not the session's own.
Kinds == [app |-> {"table", "view", "merge"}, sys |-> {"system", "sysview"},
          tmp |-> {"local", "global"}]
Schema == DOMAIN Kinds
Type == UNION {Kinds[s] : s \in Schema}

ASSUME NoFilterAssumption == \A names \in SUBSET Name : names # NoFilter

ASSUME ArgAssumption == Arg \subseteq Schema \cup {"default"}

Target(arg) == IF arg = "default" THEN "app" ELSE arg

\* A table is known by its id: one that is dropped and created anew differs.
Table == [schema : Schema, name : Name, type : Type, born : 0..MaxDDL]

VARIABLES catalog,  \* the tables the session can see
          ddl,      \* number of changes so far
          cache,    \* Inspector.info_cache, by the arguments of the call
          fresh,    \* nothing has changed since the cache was empty
          asked,    \* the names of the last batched request
          request,  \* the tables it was resolved to, until they are read
          answer    \* what it reported, until the next step

vars == <<catalog, ddl, cache, fresh, asked, request, answer>>

ASSUME ChoiceAssumption ==
    Choice \subseteq (SUBSET {"DEFAULT", "TEMPORARY"}) \X (SUBSET {"TABLE", "VIEW"})

\* Asking for no names at all is answered without a query.
Filter == ((SUBSET Name) \ {{}}) \cup {NoFilter}

\* _reflect_one asks for a named table with ObjectScope.ANY, ObjectKind.ANY.
AnyOf(arg, names) == <<arg, names, {"DEFAULT", "TEMPORARY"}, {"TABLE", "VIEW"}>>

OnePerName(tables) == \A t, u \in tables : t.name = u.name => t = u

TypeOK == /\ catalog \subseteq Table
          /\ \A t \in catalog : t.type \in Kinds[t.schema]
          /\ ddl \in 0..MaxDDL /\ fresh \in BOOLEAN
          /\ asked \in Filter \cup {{}}
          /\ request \subseteq Table /\ OnePerName(request)
          /\ answer \subseteq [table : Table, read : BOOLEAN]

Init == /\ catalog \in {c \in SUBSET {t \in Table : t.born = 0 /\ t.type \in Kinds[t.schema]} :
                          /\ Cardinality(c) <= MaxTables
                          /\ \A s \in Schema : OnePerName({t \in c : t.schema = s})}
        /\ ddl = 0 /\ cache = <<>> /\ fresh = TRUE
        /\ asked = {} /\ request = {} /\ answer = {}

-----------------------------------------------------------------------------
(* The queries.                                                            *)

Tables(schema, types) == {t \in catalog : t.schema = schema /\ t.type \in types}

NamesOf(tables) == {t.name : t \in tables}

\* get_table_names, get_view_names; get_temp_table_names, which knows none in
\* a schema that was named.
TableNames(arg) == NamesOf(Tables(Target(arg), {"table"}))
ViewNames(arg) == NamesOf(Tables(Target(arg), {"view"}))
TempTableNames(arg) == IF arg = "default" THEN NamesOf(Tables("tmp", {"local"})) ELSE {}

\* _table_id, and so has_table, finds a table of that name
TableId(arg, name) ==
    \/ name \in NamesOf(Tables(Target(arg), Type))
    \/ arg = "default" /\ name \in NamesOf(Tables("tmp", {"local"}))

\* Bulk discovery is for ordinary tables and views; a name reaches all types.
TypesFor(names, kind) ==
    IF names = NoFilter
    THEN (IF "TABLE" \in kind THEN {"table"} ELSE {})
         \cup (IF "VIEW" \in kind THEN {"view"} ELSE {})
    ELSE (IF "TABLE" \in kind THEN {"table", "merge", "system"} ELSE {})
         \cup (IF "VIEW" \in kind THEN {"view", "sysview"} ELSE {})

\* Mutants of Selected: every row is kept; the temporary table wins.
SelectedAll(rows) == rows
SelectedTemporary(rows) ==
    {t \in rows : t.type # "local" =>
        ~\E u \in rows : u.name = t.name /\ u.type = "local"}

\* Of a permanent and a temporary table of one name, the permanent one.
Selected(rows) ==
    {t \in rows : t.type = "local" =>
        ~\E u \in rows : u.name = t.name /\ u.type # "local"}

\* _resolve_tables
Resolved(arg, names, scope, kind) ==
    LET permanent == IF "DEFAULT" \in scope
                     THEN Tables(Target(arg), TypesFor(names, kind)) ELSE {}
        temporary == IF "TEMPORARY" \in scope /\ "TABLE" \in kind /\ arg = "default"
                     THEN Tables("tmp", {"local"}) ELSE {}
    IN Selected({t \in permanent \cup temporary : names = NoFilter \/ t.name \in names})

\* Mutant of CacheKey: the names are invisible in the key.
CacheKeyWithoutNames(arg, names, scope, kind) == <<arg, NoFilter, scope, kind>>

CacheKey(arg, names, scope, kind) == <<arg, names, scope, kind>>

-----------------------------------------------------------------------------
(* The Inspector.                                                          *)

Known(key) == key \in DOMAIN cache

Extended(key, value) ==
    [k \in DOMAIN cache \cup {key} |-> IF k = key THEN value ELSE cache[k]]

\* @reflection.cache: the answer is computed once.
Ask(key, value) ==
    /\ request = {} /\ ~Known(key) /\ Cardinality(DOMAIN cache) < MaxCalls
    /\ cache' = Extended(key, value)
    /\ asked' = {} /\ answer' = {}
    /\ UNCHANGED <<catalog, ddl, fresh, request>>

GetTableNames(arg) == Ask(<<"tables", arg>>, TableNames(arg))
GetViewNames(arg) == Ask(<<"views", arg>>, ViewNames(arg))
GetTempTableNames(arg) == Ask(<<"temporary", arg>>, TempTableNames(arg))
HasTable(arg, name) == Ask(<<"has", arg, name>>, TableId(arg, name))

\* The first half of a get_multi_... call: _resolve_request.
Resolve(arg, names, scope, kind) ==
    LET key == CacheKey(arg, names, scope, kind)
    IN /\ request = {}
       /\ asked' = names
       /\ \/ /\ Known(key)
             /\ request' = cache[key]
             /\ UNCHANGED cache
          \/ /\ ~Known(key) /\ Cardinality(DOMAIN cache) < MaxCalls
             /\ request' = Resolved(arg, names, scope, kind)
             /\ cache' = Extended(key, request')
       /\ answer' = {}
       /\ UNCHANGED <<catalog, ddl, fresh>>

\* The catalog that keeps a table's keys and indexes (the server).
KeptIn(t) == IF t.schema = "tmp" THEN "tmp" ELSE "sys"

ReadFrom(t) == IF t.type = "local" THEN "tmp" ELSE "sys"

\* The second half: _fetch, and one result for every resolved table, with no
\* facts when the catalog that was read has none for its id.
Fetch ==
    /\ request # {}
    /\ answer' = {[table |-> t, read |-> t \in catalog /\ ReadFrom(t) = KeptIn(t)] :
                    t \in request}
    /\ request' = {}
    /\ UNCHANGED <<catalog, ddl, cache, fresh, asked>>

-----------------------------------------------------------------------------
(* The catalog changes; the Inspector is told to forget.                   *)

Changed == /\ ddl < MaxDDL
           /\ ddl' = ddl + 1
           /\ fresh' = FALSE
           /\ asked' = (IF request = {} THEN {} ELSE asked) /\ answer' = {}
           /\ UNCHANGED <<cache, request>>

\* tmp belongs to the session, which does no DDL in the middle of a request.
Changeable(schema) == schema = "app" \/ (schema = "tmp" /\ request = {})

Create(s, n, k) ==
    /\ Changeable(s) /\ k \in Kinds[s] \cap NewKinds
    /\ ~\E t \in catalog : t.schema = s /\ t.name = n
    /\ catalog' = catalog \cup {[schema |-> s, name |-> n, type |-> k, born |-> ddl + 1]}
    /\ Changed

Drop(t) ==
    /\ Changeable(t.schema)
    /\ catalog' = catalog \ {t}
    /\ Changed

\* Inspector.clear_cache(), or a new Inspector
ClearCache ==
    /\ request = {}
    /\ cache' = <<>> /\ fresh' = TRUE /\ asked' = {} /\ answer' = {}
    /\ UNCHANGED <<catalog, ddl, request>>

Next == \/ \E arg \in Arg : \/ GetTableNames(arg) \/ GetViewNames(arg) \/ GetTempTableNames(arg)
                            \/ \E n \in Name : HasTable(arg, n)
        \/ \E arg \in Arg, names \in Filter, c \in Choice :
                Resolve(arg, names, c[1], c[2])
        \/ Fetch
        \/ \E s \in Schema, n \in Name, k \in Type : Create(s, n, k)
        \/ \E t \in catalog : Drop(t)
        \/ ClearCache

Spec == Init /\ [][Next]_vars

-----------------------------------------------------------------------------
(* Properties.                                                             *)

\* The tables resolved for a named table by the single-table methods.
Meant(arg, names) == cache[AnyOf(arg, names)]

\* MetaData.reflect() lists names and then asks for them, with temporary tables
\* in scope: what it is told about a listed name is about the listed table, not
\* about a temporary table that happens to have its name.
ListedIsReflected ==
    fresh => \A arg \in Arg, names \in SUBSET Name :
        Known(<<"tables", arg>>) /\ Known(AnyOf(arg, names)) =>
            \A n \in cache[<<"tables", arg>>] \cap names :
                \E t \in Meant(arg, names) : t.name = n /\ t.schema = Target(arg)

\* "Unfiltered calls are bulk discovery and must match get_table_names", and so
\* for views and for temporary tables.
BulkMatchesNames ==
    fresh => \A arg \in Arg :
        \A b \in {<<"tables", "DEFAULT", "TABLE">>, <<"views", "DEFAULT", "VIEW">>,
                  <<"temporary", "TEMPORARY", "TABLE">>} :
            LET bulk == <<arg, NoFilter, {b[2]}, {b[3]}>>
            IN Known(<<b[1], arg>>) /\ Known(bulk) =>
                  NamesOf(cache[bulk]) = cache[<<b[1], arg>>]

\* A table that has_table confirms can be reflected by that name, and the other
\* way round, whatever has been asked before.
ExistsIffReflected ==
    fresh => \A arg \in Arg \ {"tmp"}, n \in Name :
        Known(<<"has", arg, n>>) /\ Known(AnyOf(arg, {n})) =>
            (cache[<<"has", arg, n>>] <=> Meant(arg, {n}) # {})

\* The lists of names, has_table, bulk discovery and the getters are different
\* queries about one catalog: until it changes, they do not contradict another.
LookupsAgree == ListedIsReflected /\ BulkMatchesNames /\ ExistsIffReflected

\* A request is answered about what it asked for, and not from the cache entry
\* of another one; a table is reported without columns, keys and so on only
\* when it is gone, and a temporary one is looked up in the catalog it is in.
AnsweredInFull ==
    \A e \in answer : /\ asked # NoFilter => e.table.name \in asked
                      /\ e.read \/ e.table \notin catalog
=============================================================================

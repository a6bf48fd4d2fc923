---------------------------- MODULE ArrowTransfer ----------------------------
(***************************************************************************)
(* The Arrow helpers of arrow.py on one SQLAlchemy connection: they run on *)
(* the session behind it (raw_adbc_connection), read with                  *)
(* fetch_arrow_table and open_arrow_batch_reader, and load with            *)
(* ingest_arrow, in the transaction of the connection.                     *)
(*                                                                         *)
(* One table name, in any of several places: the default schema, named     *)
(* schemas and the temporary one.  A load sends its rows in two windows;   *)
(* the row <<l, w>> is window w of load l.                                 *)
(***************************************************************************)
EXTENDS Naturals, FiniteSets

CONSTANTS Schema,      \* named schemas
          Default,     \* the schema that is not named
          Tmp,         \* where temporary tables are
          Translation, \* the schema_translate_maps that may be in force
          MaxLoads,    \* bound: successful or partial loads
          None         \* no reader; nothing read

Place == Schema \cup {Default, Tmp}

ASSUME TransferAssumption ==
    /\ Default \notin Schema /\ Tmp \notin Schema \cup {Default}
    /\ MaxLoads \in Nat
    /\ Translation \subseteq [Schema \cup {Default} -> Schema \cup {Default}]
    /\ None \notin Place

VARIABLES
    map,         \* schema_translate_map of the connection
    autocommit,  \* the isolation level is AUTOCOMMIT
    begun,       \* Connection.in_transaction()
    base, view,  \* the tables as committed, and as the session sees them
    health,      \* of the server's transaction
    loads,       \* loads so far
    reader,      \* an open batch reader: what it reads; or None
    answer       \* the last read: what was asked and what came; or None

vars == <<map, autocommit, begun, base, view, health, loads, reader, answer>>

Window == {1, 2}

Row == (1 .. MaxLoads) \X Window

Content == [made : {"none", "declared", "inferred"}, rows : SUBSET Row]

Missing == [made |-> "none", rows |-> {}]

TypeOK ==
    /\ map \in Translation
    /\ autocommit \in BOOLEAN /\ begun \in BOOLEAN
    /\ base \in [Place -> Content] /\ view \in [Place -> Content]
    /\ \A p \in Place : view[p].made = "none" => view[p].rows = {}
    /\ autocommit => base = view
    /\ health \in {"ok", "incomplete", "aborted"}
    /\ loads \in 0 .. MaxLoads
    /\ reader \in Place \cup {None}
    /\ reader # None => begun
    /\ answer \in [place : Place, rows : SUBSET Row] \cup {None}

Init ==
    /\ map \in Translation
    /\ autocommit \in BOOLEAN
    /\ begun = FALSE
    /\ base = [p \in Place |-> Missing] /\ view = base
    /\ health = "ok"
    /\ loads = 0
    /\ reader = None /\ answer = None

-----------------------------------------------------------------------------
(* The transaction of the connection.                                       *)

\* Mutants of Begin: the session is used without SQLAlchemy's knowledge; or it
\* is under autocommit, where nothing seems to begin.
BeginNothing == UNCHANGED begun
BeginUnlessAutocommit == begun' = (begun \/ ~autocommit)

\* raw_adbc_connection starts SQLAlchemy's transaction.
Begin == begun' = TRUE

\* What a statement did is durable at once only under autocommit.
Settled(v) == view' = v /\ base' = IF autocommit THEN v ELSE base

\* A statement the server refuses aborts the transaction it is in.
AfterRefusal == IF autocommit THEN "ok" ELSE "aborted"

\* A transaction that is not complete is refused, and then rolled back by
\* MonetDBConnection.commit.
Commit ==
    /\ begun /\ reader = None
    /\ begun' = FALSE
    /\ IF health = "ok" THEN base' = view /\ UNCHANGED view
                        ELSE view' = base /\ UNCHANGED base
    /\ health' = "ok"
    /\ UNCHANGED <<map, autocommit, loads, reader, answer>>

Rollback ==
    /\ begun /\ reader = None
    /\ begun' = FALSE
    /\ view' = base /\ health' = "ok"
    /\ UNCHANGED <<map, autocommit, base, loads, reader, answer>>

-----------------------------------------------------------------------------
(* Names.  A Table goes by the schema_translate_map of the connection, in    *)
(* SQLAlchemy's DDL, in the statements the readers compile and in the schema *)
(* that a load names; a string is taken as it is.                            *)

Translated(s) == map[s]

Compiled(s) == Translated(s)

\* Mutant of SchemaName: the schema of the Table itself.
SchemaOfTable(a) == a.s

SchemaName(a) == IF a.table THEN Translated(a.s) ELSE a.s

\* Which of two tables of one name an unqualified name means is the server's.
Meant(p) == {p} \cup IF p = Default /\ view[Tmp].made # "none" THEN {Tmp} ELSE {}

-----------------------------------------------------------------------------
(* Reading.                                                                 *)

\* compile_arrow_statement, raw_adbc_connection, and then
\* _arrow_execute_parameters, which refuses parameters for a statement that
\* brings its own: the transaction has begun by then.
Read(fromTable, s, explicit, streamed) ==
    /\ reader = None
    /\ Begin
    /\ IF (fromTable /\ explicit) \/ health = "aborted"
       THEN UNCHANGED <<health, reader, answer>>
       ELSE \E p \in Meant(IF fromTable THEN Compiled(s) ELSE s) :
               IF view[p].made = "none"
               THEN health' = AfterRefusal /\ UNCHANGED <<reader, answer>>
               ELSE /\ reader' = IF streamed THEN p ELSE None
                    /\ answer' = IF streamed THEN answer ELSE [place |-> p, rows |-> view[p].rows]
                    /\ UNCHANGED health
    /\ UNCHANGED <<map, autocommit, base, view, loads>>

\* fetch_arrow_table.
FetchArrowTable(fromTable, s, explicit) == Read(fromTable, s, explicit, FALSE)

\* open_arrow_batch_reader.  One result channel for a session: until the reader
\* is finished the connection is not used (its docstring asks for that).
OpenReader(fromTable, s, explicit) == Read(fromTable, s, explicit, TRUE)

FinishReader ==
    /\ reader # None
    /\ answer' = [place |-> reader, rows |-> view[reader].rows]
    /\ reader' = None
    /\ UNCHANGED <<map, autocommit, begun, base, view, health, loads>>

\* The caller leaves the block early.
CloseReader ==
    /\ reader # None
    /\ reader' = None
    /\ UNCHANGED <<map, autocommit, begun, base, view, health, loads, answer>>

-----------------------------------------------------------------------------
(* ingest_arrow.                                                            *)

Mode == {"append", "create", "replace", "create_append"}

\* schema tells whether schema_name is given along with a Table.
Arguments == [table : BOOLEAN, s : Schema \cup {Default}, schema : BOOLEAN,
              mode : Mode, temporary : BOOLEAN, create : BOOLEAN]

\* Mutant of Rejected: create=True allows any mode.
RejectedUnlessCreated(a) ==
    IF a.table
    THEN \/ a.schema
         \/ a.mode # "append" /\ ~a.create
         \/ a.create /\ a.temporary
    ELSE a.create \/ a.schema

\* The ValueErrors and the TypeError.  (For a string, s is schema_name.)
Rejected(a) ==
    IF a.table
    THEN \/ a.schema
         \/ a.mode # "append" /\ ~a.create
         \/ a.create /\ (a.mode # "append" \/ a.temporary)
    ELSE a.create \/ a.schema

Targets(a) == IF a.temporary THEN {Tmp} ELSE Meant(SchemaName(a))

\* The driver, asked to load into place p: what the tables are afterwards, and
\* what becomes of the transaction, for every way the load may end.
Loaded(v, p, mode) ==
    LET exists == v[p].made # "none"
        table == IF exists /\ mode # "replace" THEN v[p]
                 ELSE [made |-> "inferred", rows |-> {}]
        With(windows) ==
            [v EXCEPT ![p] = [table EXCEPT !.rows = @ \cup ({loads + 1} \X windows)]]
        failed == {[v |-> v, health |-> h] : h \in {"ok", AfterRefusal}}
    IN  IF (mode = "append" /\ ~exists) \/ (mode = "create" /\ exists)
        THEN {[v |-> v, health |-> AfterRefusal]}
        ELSE failed \cup {[v |-> With(Window), health |-> "ok"]}
                \cup IF autocommit THEN {} ELSE {[v |-> With({1}), health |-> "incomplete"]}

\* An incomplete transaction stays so.
Ends(outcome) ==
    /\ Settled(outcome.v)
    /\ health' = IF outcome.health = "ok" THEN health ELSE outcome.health

\* table.create(), of which the server may refuse the DDL.
Prepared(a) ==
    IF a.create THEN [view EXCEPT ![Translated(a.s)] = [made |-> "declared", rows |-> {}]]
    ELSE view

\* The driver refuses a temporary load that names a schema.
DriverRefuses(a) == a.temporary /\ SchemaName(a) # Default

Ingest(a) ==
    /\ reader = None
    /\ Begin
    /\ IF Rejected(a) \/ health = "aborted"
       THEN UNCHANGED <<base, view, health, loads>>
       ELSE IF a.create /\ view[Translated(a.s)].made # "none"
       THEN Ends([v |-> view, health |-> AfterRefusal]) /\ UNCHANGED loads
       ELSE IF DriverRefuses(a)
       THEN Ends([v |-> Prepared(a), health |-> "ok"]) /\ UNCHANGED loads
       ELSE /\ loads < MaxLoads
            /\ \E p \in Targets(a) : \E o \in Loaded(Prepared(a), p, a.mode) : Ends(o)
            /\ loads' = loads + 1
    /\ UNCHANGED <<map, autocommit, reader, answer>>

\* table.create() by the application itself.
CreateTable(s) ==
    /\ reader = None /\ health # "aborted" /\ view[Translated(s)].made = "none"
    /\ Begin
    /\ Settled([view EXCEPT ![Translated(s)] = [made |-> "declared", rows |-> {}]])
    /\ UNCHANGED <<map, autocommit, health, loads, reader, answer>>

Next ==
    \/ Commit \/ Rollback \/ FinishReader \/ CloseReader
    \/ \E a \in Arguments : Ingest(a)
    \/ \E s \in Schema \cup {Default} :
          \/ CreateTable(s)
          \/ \E fromTable, explicit \in BOOLEAN :
                FetchArrowTable(fromTable, s, explicit) \/ OpenReader(fromTable, s, explicit)

Spec == Init /\ [][Next]_vars

-----------------------------------------------------------------------------
(* What holds.                                                              *)

\* What the helpers did belongs to SQLAlchemy's transaction: when that is over,
\* the session has nothing left to commit or to roll back; nor to undo of a load
\* that failed half way.
TransactionOwned == ~begun => view = base /\ health = "ok"

\* A load through a Table keeps its constraints: whatever the arguments, it turns
\* no table into another than the one that was there, or that table.create()
\* makes; never into one that the driver infers from the data.
ConstraintsKept ==
    [][\A p \in Place :
          /\ view'[p] # view[p]
          /\ view'[p].made # IF view[p].made = "none" THEN "declared" ELSE view[p].made
          => \A a \in Arguments : a.table => ~Ingest(a)]_vars

\* A Table is one place to the DDL, to the driver's load and to the statements
\* that read it, whatever the schema_translate_map: where no temporary table has
\* the name, create=True loads into the table it has made, and reading a Table
\* answers what loads into it have put there, uncommitted or not.
LoadedWhereCreated ==
    [][view[Tmp].made = "none" =>
          /\ \A p \in Place : view'[p] # view[p] =>
                \A a \in Arguments : a.create /\ p # Translated(a.s) => ~Ingest(a)
          /\ \A s \in Schema \cup {Default} :
                answer' # answer /\ FetchArrowTable(TRUE, s, FALSE) =>
                    answer'.rows = view[Translated(s)].rows]_vars
=============================================================================

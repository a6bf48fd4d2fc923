# Formal models of sqlalchemy-monetdb-adbc

TLA+ models of the SQLAlchemy dialect for MonetDB over ADBC, model-checked with
TLC, and theorems about them checked with TLAPS. All paths below are relative to
the repository; `src/` in `PROJECT.json` stands for its root, so that
`connection.py` is `sqlalchemy_monetdb_adbc/connection.py`.

    tlc -config MCSessionPool.cfg MCSessionPool     # a run (see "Runs")
    tlapm SessionPoolProofs.tla                     # the proofs of a module

## Inventory

The package is a layer between three things it does not contain: SQLAlchemy (its
pool, its Connection and transaction states, its DDL ordering and its Inspector),
the ADBC driver, and the server. It keeps little state, and most of what can go
wrong lies in the seams. The external side is modelled from how this code uses
it, as nondeterministically as the code has to allow for.

| component | state it keeps | operations | module |
|---|---|---|---|
| session wrapper (`connection.py`) | the driver's connection, `_defunct` | commit, rollback, close, autocommit, set_autocommit, closed | `MonetDBConnection` |
| dialect hooks on a session (`dialect.py`) | none | connect, do_ping, is_disconnect, set_isolation_level, do_commit, do_rollback | `MonetDBConnection`, `SessionPool` |
| the engine's sessions (external pool, hooks above, `raw_adbc_connection`) | pool slots, one Connection per worker | checkout, execute, ingest, commit, rollback, close, collection, loss of transport | `SessionPool`, `UnitOfWork` |
| result cursor (`base.py`, MonetDBCursor) | batch reader, buffered rows, index | execute, fetchone, fetchmany, fetchall | `ResultCursor`, `RowStream` |
| parameter schema cache (`dialect.py`, `base.py`) | one cache for all threads of an engine | lookup, build, prepare, execute, remember | `ParameterSchemaCache` |
| table reflection (`reflection.py`, `multi_reflection.py`) | the Inspector's cache | names, has_table, the get_multi_ getters | `CatalogReflection` |
| sequence and identity reflection | none (the server's catalogs) | create, drop, get_sequence_names, columns | `SequenceReflection` |
| foreign keys (`ddl.py`, `compiler.py`, `multi_reflection.py`, `_alembic.py`) | none (a running create_all) | CREATE TABLE, after_create hook, reflection, autogenerate | `ForeignKeys` |
| Arrow helpers (`arrow.py`) | none (the connection's transaction) | fetch_arrow_table, open_arrow_batch_reader, ingest_arrow | `ArrowTransfer` |
| keys and indexes (`multi_reflection.py`, `compiler.py`) | none (the server's catalogs) | index and constraint DDL, the getters of keys, indexes and checks, recreation from a reflection | `KeyReflection` |
| row conversion (`_convert.py`) | none | column_to_pylist, batch_to_rows | `ColumnConversion` |
| column types (`types.py`, type compiler, `resolve_type`) | none (a column of the server and its rows) | rendering, reflection, ALTER COLUMN, bind and result processors | `ColumnTypes`, `TypedColumn` |
| the rest of the SQL compiler, identifiers | none | rendering of expressions | not modelled |
| Alembic: defaults and type rendering; provisioning; packaging | none | | not modelled |

How they interact. SQLAlchemy's pool owns `MonetDBConnection` objects and calls
the dialect's hooks on them; the hooks and the wrapper decide together whether a
session that met an error is kept, rolled back or closed. A Connection's cursor
executes through the dialect's `do_execute`, which consults the parameter schema
cache shared with all other threads. The Arrow helpers bypass the cursor and act
on the driver's connection underneath, whose errors SQLAlchemy's error handling
never sees. Reflection runs several queries per request and meets DDL in
between. A value crosses the type's bind processor, PyArrow, the driver, the
server, the driver again, `_convert.py` and the type's result processor, each of
which chooses by another description of the same column. DDL for foreign keys is
emitted from three places that do not know of each other, and reflection and
Alembic compare what came of it.

What is hard: errors in the middle of commit and rollback, and what they leave
to the next user of a pooled session; the driver telling autocommit from a state
the server reported last; rows lost or served twice when a batch raises;
unlocked time between lookup and update of a shared cache; several methods
answering one question through different queries; DDL hooks that assume an
order; a conversion chosen per batch, from what happens to be in it. `PROJECT.json`
lists each such hazard at its line, with the properties that catch it.

What makes each component correct:

- sessions: nothing uncommitted reaches the next user; what the application was
  told about its work is what is durable; a usable session is never given up, a
  dead one never kept; slots come back.
- cursor: exactly the rows of the current result, in order, each once.
- schema cache: values travel under a schema that represents them, whatever other
  threads and earlier values left behind.
- reflection: the methods agree with each other and with what was declared.
- foreign keys: each is created exactly once with its actions; autogenerate
  reports real changes and nothing else.
- keys and indexes: what is reflected is what was defined, and can be created and
  dropped again from its reflection.
- columns: what is read is what was written, by value, class and zone; a table
  created from a reflection holds what the reflected one does.
- Arrow helpers: what they do belongs to SQLAlchemy's transaction, keeps the
  constraints of a Table, and goes to the table the Table object means.

## Modules

### MonetDBConnection

One session as a record `Conn`: `st` (live, dead, released), the transaction as the
driver last saw it (`txn`: none, open, poisoned), the uncommitted `work` the server
holds, the mode `auto`, and the wrapper's flags `closed` and `defunct`. Every method of the wrapper and every
hook is an operator from a session to the set of its possible outcomes (session
afterwards, error, units made durable). `RawCommit`, `RawRollback`, `RawClose`,
`RawExecute` are the driver: each may succeed, be refused by the server, or find
or lose the transport. `Commit`, `Rollback`, `SetAutocommit`, `SetIsolationLevel`,
`DoPing`, `IsDisconnect` are the code.

### SessionPool and UnitOfWork

`SessionPool` puts sessions into the slots of a pool (`pool_size + max_overflow`)
and lets workers check out, work, commit, roll back, close, or drop connections.
`conn` carries SQLAlchemy's transaction state: after a failed commit the
transaction is inactive and SQLAlchemy returns the session *without* a reset,
which is why the wrapper has to clean up itself. `Ingest` is a write whose errors
bypass `is_disconnect`. A call of a worker is one action, since nothing else acts
on its session during the call; the exception, a transport failing inside
commit, is among the outcomes of `RawCommit`.

`UnitOfWork` is the contract without sessions: units of work, what the
application was told of each, and what is durable. `SessionPool` implements it
under the identity mapping of `verdict`, `wrote` and `db`. "unsettled" is a unit
whose rollback was refused: nothing is promised about it.

### ResultCursor and RowStream

`ResultCursor` has the reader of the driver (`stream`), the buffer and index of
the cursor, and the fetch call in progress; steps are the iterations of the
fetch loops, so that an exception can hit any of them. `statement` is the statement
passed to `execute()` last, `query` the one whose result the driver has. They
differ after an `execute()` that raised before the driver dropped its last result,
as `parameter_record_batch()` can: the wrapper's buffer is reset by then
(`base.py:477`, `494`), the driver's result is not, and the next fetch opens it
again. `RowStream` is a list of rows from which a call takes some; an exception may
lose rows or leave those of the earlier statement, never duplicate or reorder them.

### ParameterSchemaCache

Each thread runs lookup (locked), build, prepare, execute (unlocked) and remember
(locked). Values, types and the relation between them (`Holds`, `Inferred`) are
constants; the columns of one statement decide independently. `MayNotTell` lets
the driver tell no schema.

### CatalogReflection

Tables of three schemas and several kinds, one Inspector with its cache, calls of
every entry point, and DDL between requests and between the two queries of one
request. Getters share `Resolve` and `Fetch`, as they share `_resolve_request`
and `_fetch`.

### SequenceReflection

Declared and generated sequences and the columns that draw from them, with the
server's refusals and the orphans that `suite/known_failures.py` describes.

### KeyReflection

`catalog` is sys.keys and sys.idxs; the id of a key or an index is the record
itself, and its rows in sys.objects are its sequence of columns. The getters are
the joins of `multi_reflection.py` with their grouping: foreign keys paired with
the key they refer to by number, indexes told from constraints by a LEFT JOIN on
name and table. `defined` is what the application asked for. `CreateIndex` and
`DropIndex` carry out the DDL that `compiler.py` emits, `Recreate` drops a table
and creates it from what the getters say; `refused` tells whether the server took
the last statement. The server's rules (`Acceptable`, `Stored`) are external: a
key has an index of its name, names are unique within a table and index names
within a schema, and the columns of a foreign key are numbered like those of the
key it refers to. A CHECK and an index that shared a name on one table would be
outside this; the LEFT JOIN would hide that index.

### ColumnConversion, ColumnTypes and TypedColumn

`ColumnConversion` is `_convert.py`: the test for each path (`Exact`,
`_numpy_safe`), what NumPy makes of a value (`FromNumpy`, external, from the
reasons `_convert.py` gives) and what `to_pylist` does (`AsPy`). Times and
instants are hours, so that a zone is an offset that can be got wrong.

`ColumnTypes` is the type compiler (`Rendered`), the server's row in sys.columns
(`StoredAs`, external) and `resolve_type`.

`TypedColumn` is the life of one column across them: created or altered, or made
by another client and reflected; written by an executemany through
`bind_processor` and PyArrow (`Buildable`, `ArrowValue`); selected, directly or
in an expression that adds to it and that the server computes in another type
(`Computed`, `term`); and read in batches through `batch_to_rows` and
`result_processor`. `given` is what the application meant, `rows` what the server
has. Numbers are counted in thousandths, and a double read as a Decimal is rounded to
the return scale (`Rounded`, the `"%.{scale}f"` of `types.py:158`). Left out: numbers
written with more digits than the column has, which the server rounds, numbers too
large for it, the decimal_return_scale argument, and bool among numbers.

### ForeignKeys

Foreign keys of the metadata (`shape`, and `options` that a developer edits), the
server's tables and `sys.keys.action`, and a running `create()`. CREATE TABLE
(compiler), the hook (`ddl.py`) and the end of create_all() (SQLAlchemy) each
emit a part. `OnCycle` is SQLAlchemy's rule that the tables of a cycle have *all*
their foreign keys added at the end. Actions are coded into one integer, as on
the server, and decoded as in `get_multi_foreign_keys`; `Reported` is Alembic's
comparison after the correction in `_alembic.py`.

### ArrowTransfer

One connection, one table name in several schemas, an optional
schema_translate_map. `Ingest` takes every combination of the arguments of
`ingest_arrow`, in the order the code checks them: the transaction begins first,
the Table's DDL comes before the load. `Loaded` is the driver: complete, failed
without a trace, refused, or (outside autocommit) left half done in a transaction
that can only be rolled back. That the rows of such a load do not become durable
is the driver's promise and no property here; whose transaction they are in is
`TransactionOwned`.

## Runs

| run | instance | shows |
|---|---|---|
| `session_pool` | 2 workers, 2 slots (1 kept), 2 units, pre-ping | the safety of sessions and pool |
| `session_pool_live` | 2 workers, 1 slot, 2 units, no pre-ping | closing terminates; `UnitOfWork` is implemented |
| `result_cursor` | 2 statements of up to 4 rows, fetch sizes 0 to 3 | `RowStream` is implemented; calls return |
| `parameter_schemas` | 2 threads, 2 expansions, 2 columns | the shared cache never misleads an execution, and learns only what the server accepted |
| `catalog_reflection` | 2 names, 2 tables, 2 calls, 1 DDL | the methods agree, and answer in full |
| `key_and_sequence_reflection` | keys: 3 tables (2 of one name in 2 schemas, 2 in one schema), 3 names, 2 columns in 3 sequences, 3 definitions; sequences: 2 schemas, 2 names, 3 columns | keys and indexes are reflected as defined, references resolve, the DDL is accepted; columns are reflected as declared |
| `sequence_declared` | 2 schemas, 2 names, 3 columns | finding |
| `foreign_keys` | 3 tables, 3 foreign keys declared in all ways, 3 of the 36 pairs of actions | create() emits each key once, but for one case; autogenerate reports what is edited |
| `foreign_keys_once` | 2 tables, 3 foreign keys | finding: the one case |
| `typed_column` | types of `types.py` with the lengths, scales and zones that matter, 2 values, 2 numbers, 3 terms, 3 rows | what is read is what was written; mixed numbers are accepted; a copy holds what its original does |
| `computed_numeric` | the same types, 1 number, 1 row | finding |
| `arrow_transfer` | 1 named schema, 2 loads, all arguments | loads are in SQLAlchemy's transaction, keep constraints and go where they should |

Bounds, and why they are enough. `session_pool`: the hazards pass a session from
one worker to the next, so two workers and one reused slot suffice; the second
slot is there for the overflow path, where a returned session is closed. Two
units make work of one visible in the commit of the other; three units were
checked once without another outcome. `result_cursor`: four rows can be cut into
more batches than the largest fetch takes, with one empty batch (`MaxBlank`)
anywhere. `parameter_schemas`: two threads race on one key or on two keys of one
dictionary; more columns repeat the two that matter (one with an exact type
narrower than what is inferred, one that may overflow int64). `catalog_reflection`:
a cache can confuse two requests, so two calls (`MaxCalls`); one DDL (`MaxDDL`)
falls between any two steps; two names separate a name asked for from another,
two tables (`MaxTables`) are what can bear one name; of the kinds that only exist
from the start none is treated otherwise when it is new (`NewKinds`). `foreign_keys`: three
foreign keys are needed for a self-reference beside a cycle of two tables, and
make a cycle of three; the pairs of actions have each byte with an action and without
one, and two that differ in nothing but NO ACTION for none given (the proofs cover
all pairs). `arrow_transfer`: one load (`MaxLoads`) can be half done
and another complete in the same transaction. `key_and_sequence_reflection` runs two
specifications that share no variable (`MCSpec`: in a behaviour one of them moves
and the other stays in its initial state), which is to check them in one run; two
tables of one name are what a join that forgets the schema mixes up, two of one
schema what one that forgets the table does; three definitions (`MaxDefined`) make a
key, a foreign key to it and an index; a sequence of two columns in both orders
shows a wrong order. `typed_column`: three
rows (`MaxRows`) make a batch of one and a batch of several, each with a null or
without, in one result; the hours 1 and 23 cross midnight in one direction or the
other under the offset of the second zone; of lengths, precisions and scales there
is none, zero, and one on each side of a threshold. The foreign columns are what a
declared type never makes: other digits, types without a SQLAlchemy counterpart.
Of the numbers one is whole and one is not, and a scale of 0 or of 2 rounds their
sums with the terms up, down or not at all.

Symmetry is used on interchangeable workers, sessions, units, threads, names,
columns, tables and foreign keys, in runs without liveness only.

Deadlock is checked except in the two pool runs: when every slot is lost (see
`LostOnlyToDeadAutocommit`) no worker can check out a connection any more, and
the application really stops.

Fairness. `session_pool_live` assumes weak fairness of `CloseConnection` for each
worker: an application closes what it opens, by with-blocks or collection; nothing
is assumed of checkouts, statements or the transport. `result_cursor` assumes weak
fairness of the steps of a running fetch call, which is a loop of one thread.

### Properties worth a comment

- `IdleClean`, `NoResurrection`, `OwnWorkOnly`, `FailedCommitEndsTransaction`
  belong together: a session in the pool has nothing of its last user, and work
  that was reported as gone stays gone.
- `LostOnlyToDeadAutocommit` names the one way in which a slot is lost to the
  pool: a session in autocommit mode dies, and the `set_isolation_level` that
  SQLAlchemy runs at check-in is the first to notice.
- `DeadNotPooled` also says that, with pre-ping, a session that is handed out can
  be used. It has an exception for a session that dies after its commit failed,
  because SQLAlchemy returns that one without touching it; pre-ping catches it.
- `LookupsAgree` relates the three ways to ask for a table: what names list is
  what the getters reflect, one by one and in bulk, and what `has_table` confirms.
  `AnsweredInFull` is about one request that DDL or the cache comes between.
- `ReflectedAsDeclared` includes that a sequence generated for an identity column
  is not listed as a declared one.
- `LoadedWhereCreated` relates the DDL, the load and the statement that reads it
  back: all three go to the table the Table object means after translation.
- `CopyHoldsColumn` compares the column created from a reflection with the
  original: it must hold every value of it, and, where the original was declared to
  the dialect, be no larger. SQLAlchemy's generic types declare no precision of
  TIME, so that none is in it.
- `RefusedOnlyOnCycle` is what remains true beside the finding on foreign keys.
- `ChangeReported` is about every difference between the server's actions and the
  declared ones, RESTRICT where the model says NO ACTION included, with one
  exception: NO ACTION on the server where the model is silent. Alembic's own
  signature takes the two for one, and `tests/test_alembic.py:193-232` asks for no
  change there, although creating the key anew would make it RESTRICT.
- `ConstraintsKept` is about two checks of `ingest_arrow` that must between them shut
  out every combination of mode and create in which the driver would put a table of
  inferred types in place of a Table's.
- `NothingLeaked` holds because a wrapper is marked closed or defunct only by a
  close() that has been tried (which releases the session whatever it reports, as
  `RawClose` takes it to) or by a terminal error of one that is dead.
- `OnlyThisResult` says what is left of "rows of the last statement" after an
  exception. SQLAlchemy closes the cursor when an execution raises, so that only a
  user of the raw cursor can fetch after that.
- `ReadAsWritten` says of a double read as a Decimal that it is the nearest number of
  the return scale, and of an integer computed for a NUMERIC the value only: its
  class is the third finding.

## Findings

1. `sequence_declared`: `get_sequence_names` omits a declared sequence that some
   column uses as its server default, against its comment
   (`reflection.py:153-154`).
2. `foreign_keys_once`: a table on a cycle of foreign keys that also refers to
   itself cannot be created by `create_all()`: the hook and SQLAlchemy both add
   the self-referential key (`ddl.py:26-27`). The ordering of create_all() is
   SQLAlchemy's `sort_tables_and_constraints`.
3. `computed_numeric`: an integer that the server computes for a NUMERIC, a HUGEINT
   for one, is read as an int with asdecimal as well, against the docstring of
   `MonetDBNumeric` ("a Numeric column yields Decimal", `types.py:117-118`):
   `batch_to_rows` has made an int of it, and the processor (`types.py:151-159`)
   looks for floats.

Smaller divergences, met while modelling and part of the models:

- A schema inferred from values that did not fit replaces the prepared one for
  later values that would have fitted, where README lines 94-96 speak of the exact
  schema (`ParameterSchemaCache`: `Remember`).
- With `schema="tmp"`, `has_table` confirms a temporary table that every getter
  then denies (`multi_reflection.py:66-68`); the run leaves that argument out, by
  its `Arg`.
- `Numeric(2)` is rendered `DECIMAL(2, 3)`, which the server refuses
  (`compiler.py:50`): `StoredAs` is empty for it.
- A fetch after an execute that raised in `parameter_record_batch` serves what is
  left of the statement before it, where the reset of `base.py:477` and `494` looks as
  if there were nothing to fetch (`Execute` in `ResultCursor`).

## Proofs

Every safety invariant and action property of the runs that pass, and each of the
two refinements, is a theorem of its specification, for every value of the
constants.

`SessionPoolProofs` begins with lemmas about `MonetDBConnection`, for each operator
on a session which sessions it can return: what commit, rollback, close, ping and
the isolation level leave of transaction, work and autocommit, whatever the driver
does. It then proves, for any sets of workers, sessions and units, any pool
size, with and without pre-ping, as theorems of `Spec`: `NothingLeaked` (with
`TypeOK`), `IdleClean`, `NoResurrection`, `OwnWorkOnly` and
`FailedCommitEndsTransaction`. None of the last four is inductive. The invariant `IInv` adds

- `Ownership`: slots in the queue, lost slots and those held by workers are
  disjoint, and no two workers hold one slot; otherwise a step of one worker could
  change the session of another;
- `UnitOwnership`: a running unit belongs to one active transaction of one worker,
  so that no two workers can settle it;
- `WorkOwned`: work on a session is its holder's unit, or unsettled - which makes
  a commit durable only for what the application was told;
- `IsolationTracked`: a session in autocommit mode is known to SQLAlchemy as such,
  so that check-in restores it;
- shapes of single sessions (`SessionOK`, `Clean`).

`StepAt` shows once that a step on one held session preserves all of it, from the
facts about the session before and after; each action then has a lemma that
derives these facts from the operators of the wrapper. On top of `IInv`, `DInv`
adds which unit the work on a held session can be, and that a released session
knows it (`WorkInHand`); with it are proved `Durability` and
`LostOnlyToDeadAutocommit`. `PoolImplements` is the refinement: every step of
`SessionPool` is one of `UnitOfWork` or a stutter. On top of `DInv`, `GInv` adds
that only close() closes a wrapper (`Tight`), that no worker holds a session whose
wrapper has given it up, and that a transaction of SQLAlchemy without a unit is one
under autocommit (`Trusted`). From it follow the action properties `DeadNotPooled`
(a rollback that returns leaves a live session, or one in autocommit mode, whose
check-in then raises) and `InvalidationJustified` (a commit() that finds a live
session lost always had a unit, whose verdict becomes unknown).

`ResultCursorProofs` proves, for results of any number and length, batches of any
size and any mix of fetch calls, `TypeOK`, `NothingDropped`, `OnlyThisResult` and
the refinement of `RowStream`, a failed execute that leaves the driver's result
included. `IInv` adds that a call collects rows only while it
runs, that fetchone has collected none, and that the reader does not read past the
result (`Shapes`). The lemmas on sequences say that runs of rows that meet are one
run (`RunsMeet`) and that what is taken from the buffer and what is left of it are
the buffer (`Cut`). The refinement holds after an exception as well, when rows are
missing: `Rising` says that what is buffered comes after what the call holds, and
that after what was delivered, and `Finished` that a result ends when it has been.

`ForeignKeysProofs` proves, for any tables, foreign keys, shapes and choices of
actions, `TypeOK`, `UnchangedNotReported`, `ChangeReported`, `RefusedOnlyOnCycle`
and `CreatedAsDeclared`. Decoding inverts the coding of two actions in one integer,
and the correction removes just what MonetDB adds: RESTRICT, and that only where
the model is silent. A running create() is described
by what it still has to do (`Running`), and each foreign key by who will add it
(`AllTracked`): CREATE TABLE, the hook, or the end of create(). A key is refused
only when both of the last two add it, which needs a cycle; `CycleGrows` says that
a cycle among some of the tables is one among all.

`CatalogReflectionProofs` proves `TypeOK`, `LookupsAgree` and `AnsweredInFull` for
any names, tables and numbers of calls and DDL statements. That the methods agree
is a fact about the queries as long as the catalog is the one they were answered
from; what makes it an invariant is `CacheCurrent`: while no DDL has come since the
Inspector was made or cleared (`fresh`), each entry of its cache is what its query
would return now, whichever entry point stored it. That an answer is about what was
asked, after DDL as well, needs `CacheSound`, that an entry under the key of a
request holds tables of that request only, and the same of the request being
answered (`Sound`).

`KeyReflectionProofs` proves `ReflectedAsDefined` (with `TypeOK`),
`ReferencesResolve` and `EmittedDDLAccepted` for any tables, names and sequences of
columns, and any number of definitions. None is inductive, as they say what is
read from a catalog and not what is in it. `Linked` does: each definition has its
one key, each key its definition, the index of each key and of each defined index
is there and no other is, no two definitions share a name that the server wants
to be unique, and a key that a foreign key refers to is in the catalog. `Stored`,
`Without` and `Dropped` (what the server makes of CREATE, DROP INDEX and DROP TABLE)
keep that link, and what is reflected of linked catalogs is exactly what was
defined, so that `Recreate` restores what it dropped. The columns come out in order
because the rows of a key are numbered without gaps: a strictly increasing map of
1..n into itself is the identity (`IncreasingIsIdentity`).

Its last part is about `SequenceReflection`, which it extends beside
`KeyReflection`: `SequenceTypeOK` and `ReflectedAsDeclared` for any schemas, names
and columns. The invariant adds that a column's default names a sequence that
exists and is generated just for identities (`Named`), and that no two identities
share one (`Owned`).

`ArrowTransferProofs` proves `TypeOK`, `TransactionOwned`, `ConstraintsKept` and
`LoadedWhereCreated` for any number of schemas and loads. The last two follow from the
operators: what `Rejected` lets through to the driver for a Table appends to a table
that exists, or that was just created; and whichever path a load takes, it names the
place that the DDL and the statements name.

`ParameterSchemaCacheProofs` proves `TypeOK`, `BatchHoldsValues` and
`RememberedJustly` for any threads, expansions, columns, types and values: a batch
was built from the thread's own values whatever the cache had (`Sending`), and
what a thread is about to remember has been accepted (`Accepted`).

`TypedColumnProofs` proves first, without a state, that `column_to_pylist` is
`to_pylist` for every type, length and value (`ConversionExact`), so that a value
converts alike in whatever batch it comes (`BatchesAgree`). Then `TypeOK`,
`MixedNumbersAccepted` and `ReadAsWritten` for any declared types, foreign rows,
zones, values and numbers of rows, in executemany of one or two rows as the
specification has it (`Inserting` is proved for any number). The invariant says that the
processors in use fit the column (`Linked`: kept by `Stored` for what is created
and by `Resolved` for what is reflected), that the running result is one the driver
gives for it (`Described`), that the server has what was meant, and that what was
read are the first rows, each as `ValueShown` says (`FirstShown`). Rounding moves a
number by half a unit of the return scale at most (`RoundedNear`). `CopyHoldsColumn`
has an invariant of its own, `CopyInv`: the column's row in sys.columns is one the
server stores (`Plausible`) and, if it was declared, one the type compiler can ask
for (`AsDeclared`), and the copy is stored from the rendering of what
`resolve_type` made of that row. Rows that no server stores would refute it, such
as a DATE with digits or more than seven digits of time; `DigitsAssumption` says
so of the foreign rows, and that SQLAlchemy's declared types of TIME have a
precision of six or none.

The assumptions are the named ASSUMEs on constants (distinct tokens, a pool size
in Nat, the shapes of declared types); TLC evaluates them in the runs.

Only model-checked: liveness, `Returned` and `CallsReturn`, and the three findings,
whose counterexamples are found by TLC. Liveness under fairness and ENABLED are
beyond the prover in use, as is induction over data; no module uses RECURSIVE.

## Not modelled

SQL rendering of expressions, identifiers and reserved words: functions of one
expression tree or one name, which keep no state. JSON paths and PydanticJSON:
functions of documents. Comments, view definitions and the text of CHECK
constraints in reflection: copied from the catalog. Alembic's type rendering and
default comparison: functions of strings. Provisioning, suite requirements and
`packaging/`: not part of the running system. Savepoints and two-phase commit:
SQLAlchemy's defaults, which the dialect does not touch. Of pyarrow, NumPy, the
driver and the server only what the code relies on is modelled, marked external in
`PROJECT.json`.

## Plan

Order of work: what loses data first. Done: sessions and pool, cursor, schema
cache, Arrow transfer, foreign keys, sequences and columns, table and key
reflection, each model-checked and with proofs.

Left: savepoints within a unit of work, if the wrapper comes to take part in them;
the text of defaults and CHECK constraints, if reflection comes to rewrite it.

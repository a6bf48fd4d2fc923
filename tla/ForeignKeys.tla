----------------------------- MODULE ForeignKeys -----------------------------
(***************************************************************************)
(* Foreign keys from the application's metadata to the server and back:    *)
(*                                                                         *)
(*   - CREATE TABLE and ALTER TABLE ... ADD, split between the compiler    *)
(*     (create_table_constraints), the after_create hook of ddl.py and     *)
(*     SQLAlchemy's own ordering of create_all();                          *)
(*   - the delete and update actions the server keeps in sys.keys.action,  *)
(*     reflected by get_multi_foreign_keys;                                *)
(*   - Alembic's comparison of both sides, after                           *)
(*     MonetDBImpl.correct_for_autogen_foreignkeys.                        *)
(*                                                                         *)
(* A foreign key stands for its name and its columns, of which each has    *)
(* its own.                                                                *)
(***************************************************************************)
EXTENDS Integers, FiniteSets

CONSTANTS Table, ForeignKey,
          Shape,    \* the foreign keys the metadata may declare
          Choice,   \* the pairs of actions it may give them
          None      \* an action left out; no key

Phrase == {"NO ACTION", "CASCADE", "RESTRICT", "SET NULL", "SET DEFAULT"}

Options == [ondelete : Phrase \cup {None}, onupdate : Phrase \cup {None}]

ASSUME MetadataAssumption ==
    /\ Shape \subseteq [from : Table, to : Table, useAlter : BOOLEAN]
    /\ Choice \subseteq Options
    /\ None \notin Phrase \cup Nat

VARIABLES shape,    \* table.foreign_key_constraints: what does not change ...
          options,  \* ... and the actions, which a developer edits
          tables,   \* the tables of the server
          keys,     \* sys.keys: the action column of each foreign key
          create,   \* a running create(), or None
          refused   \* the foreign key that the last create() failed on, or None

vars == <<shape, options, tables, keys, create, refused>>

KeysOf(t) == {f \in ForeignKey : shape[f].from = t}

SelfReferential(f) == shape[f].from = shape[f].to

self_referential_foreign_keys(t) ==
    {f \in KeysOf(t) : SelfReferential(f) /\ ~shape[f].useAlter}

-----------------------------------------------------------------------------
(* The action column: two bytes.  MonetDB takes an action left out for      *)
(* RESTRICT.                                                                *)

FK_ACTIONS == [code \in 0 .. 4 |->
    CASE code = 0 -> "NO ACTION"
      [] code = 1 -> "CASCADE"
      [] code = 2 -> "RESTRICT"
      [] code = 3 -> "SET NULL"
      [] code = 4 -> "SET DEFAULT"]

CodeOf(action) ==
    IF action = None THEN 2
    ELSE CHOOSE code \in DOMAIN FK_ACTIONS : FK_ACTIONS[code] = action

\* The clauses of define_constraint_cascades, as the server keeps them.
ActionColumn(option) == CodeOf(option.ondelete) + 256 * CodeOf(option.onupdate)

Phrased(code) ==
    IF code \in DOMAIN FK_ACTIONS /\ FK_ACTIONS[code] # "NO ACTION"
    THEN FK_ACTIONS[code] ELSE None

\* Mutant of ReflectedOptions: both actions read from the low byte.
ReflectedFromLowByte(action) ==
    [ondelete |-> Phrased(action % 256), onupdate |-> Phrased(action % 256)]

ReflectedOptions(action) ==
    [ondelete |-> Phrased(action % 256), onupdate |-> Phrased((action \div 256) % 256)]

-----------------------------------------------------------------------------
(* Alembic.                                                                 *)

\* Mutant of Corrected: RESTRICT yields to a NO ACTION in the model, too.
CorrectedForNoAction(reflected, declared) ==
    IF declared \in {None, "NO ACTION"} /\ reflected = "RESTRICT" THEN None ELSE reflected

Corrected(reflected, declared) ==
    IF declared = None /\ reflected = "RESTRICT" THEN None ELSE reflected

\* Alembic's signature does not tell NO ACTION from no action given.
InSignature(action) == IF action = "NO ACTION" THEN None ELSE action

Reported(f) ==
    LET reflected == ReflectedOptions(keys[f])
        declared == options[f]
    IN  \/ InSignature(Corrected(reflected.ondelete, declared.ondelete))
             # InSignature(declared.ondelete)
        \/ InSignature(Corrected(reflected.onupdate, declared.onupdate))
             # InSignature(declared.onupdate)

-----------------------------------------------------------------------------
TypeOK ==
    /\ shape \in [ForeignKey -> Shape]
    /\ options \in [ForeignKey -> Choice]
    /\ tables \subseteq Table
    /\ keys \in [ForeignKey -> {ActionColumn(c) : c \in Choice} \cup {None}]
    /\ create \in [all : BOOLEAN,                    \* create_all()
                   collection : SUBSET Table,        \* what it creates
                   todo : SUBSET Table,              \* tables not yet created
                   hook : SUBSET ForeignKey,         \* after_create has to add
                   alters : SUBSET ForeignKey] \cup {None}  \* add at the end
    /\ refused \in [key : ForeignKey, all : BOOLEAN] \cup {None}

Init ==
    /\ shape \in [ForeignKey -> Shape]
    /\ options \in [ForeignKey -> Choice]
    /\ tables = {}
    /\ keys = [f \in ForeignKey |-> None]
    /\ create = None
    /\ refused = None

-----------------------------------------------------------------------------
(* sort_tables_and_constraints of SQLAlchemy: a table waits for those it    *)
(* refers to inline; the tables of a cycle have all their foreign keys      *)
(* added at the end, and so has a foreign key with use_alter.               *)

DependsOn(t, C) ==
    {u \in C \ {t} : \E f \in KeysOf(t) : shape[f].to = u /\ ~shape[f].useAlter}

OnCycle(t, C) ==
    \E u \in DependsOn(t, C) : \A S \in SUBSET C :
        (u \in S /\ \A v \in S : DependsOn(v, C) \subseteq S) => t \in S

AddedAtEnd(C) ==
    {f \in ForeignKey :
        shape[f].from \in C /\ (shape[f].useAlter \/ OnCycle(shape[f].from, C))}

Start(all, C, alters) ==
    /\ create = None /\ C # {}
    /\ create' = [all |-> all, collection |-> C, todo |-> C,
                  hook |-> {}, alters |-> alters]
    /\ refused' = None
    /\ UNCHANGED <<shape, options, tables, keys>>

\* MetaData.create_all(), of the tables that are missing.
CreateAll == Start(TRUE, Table \ tables, AddedAtEnd(Table \ tables))

\* Table.create().
CreateOne(t) == t \notin tables /\ Start(FALSE, {t}, {})

\* What SQLAlchemy asks a CREATE TABLE for.
Requested(t) == {f \in KeysOf(t) : f \notin create.alters /\ ~shape[f].useAlter}

\* Mutant of Inlined: nothing is left out.
InlinedUnfiltered(t) == Requested(t)

\* What create_table_constraints leaves in it.
Inlined(t) == Requested(t) \ self_referential_foreign_keys(t)

\* The server refuses a statement: create() raises and everything it has done
\* is rolled back.
Refuse(f) ==
    /\ create' = None
    /\ refused' = [key |-> f, all |-> create.all]
    /\ tables' = tables \ create.collection
    /\ keys' = [g \in ForeignKey |->
                   IF shape[g].from \in create.collection THEN None ELSE keys[g]]
    /\ UNCHANGED <<shape, options>>

\* CREATE TABLE, then the after_create hook.  The server refuses a reference to
\* a table that does not exist yet, the table itself included.
CreateTable(t) ==
    /\ create # None /\ create.hook = {}
    /\ t \in create.todo
    /\ \A f \in Requested(t) : shape[f].to \notin create.todo \ {t}
    /\ \/ \E f \in Inlined(t) : shape[f].to \notin tables /\ Refuse(f)
       \/ /\ \A f \in Inlined(t) : shape[f].to \in tables
          /\ tables' = tables \cup {t}
          /\ keys' = [f \in ForeignKey |->
                         IF f \in Inlined(t) THEN ActionColumn(options[f]) ELSE keys[f]]
          /\ create' = [create EXCEPT !.todo = @ \ {t},
                                      !.hook = self_referential_foreign_keys(t)]
          /\ UNCHANGED <<shape, options, refused>>

\* Mutant of Add: ALTER TABLE ... ADD leaves the actions out.
AddWithoutActions(f) ==
    keys' = [keys EXCEPT ![f] = ActionColumn([ondelete |-> None, onupdate |-> None])]

Add(f) == keys' = [keys EXCEPT ![f] = ActionColumn(options[f])]

\* ALTER TABLE ... ADD: the server refuses a key that is there.
AlterTableAdd(f, rest) ==
    \/ keys[f] # None /\ Refuse(f)
    \/ /\ keys[f] = None /\ Add(f)
       /\ create' = rest
       /\ UNCHANGED <<shape, options, tables, refused>>

\* A step of _add_self_referential_foreign_keys.
AddSelfReferential(f) ==
    /\ create # None /\ f \in create.hook
    /\ AlterTableAdd(f, [create EXCEPT !.hook = @ \ {f}])

\* What create_all() keeps for the end.
AddAtEnd(f) ==
    /\ create # None /\ create.hook = {} /\ create.todo = {}
    /\ f \in create.alters
    /\ AlterTableAdd(f, [create EXCEPT !.alters = @ \ {f}])

Created ==
    /\ create # None /\ create.hook = {} /\ create.todo = {} /\ create.alters = {}
    /\ create' = None
    /\ UNCHANGED <<shape, options, tables, keys, refused>>

-----------------------------------------------------------------------------
(* The life of the schema afterwards.                                       *)

\* The server keeps a table that others refer to.
DropTable(t) ==
    /\ create = None
    /\ t \in tables
    /\ \A f \in ForeignKey : keys[f] # None /\ shape[f].to = t => shape[f].from = t
    /\ tables' = tables \ {t}
    /\ keys' = [f \in ForeignKey |-> IF f \in KeysOf(t) THEN None ELSE keys[f]]
    /\ UNCHANGED <<shape, options, create, refused>>

\* A developer changes the actions in the metadata.
Edit(f, choice) ==
    /\ create = None
    /\ options' = [options EXCEPT ![f] = choice]
    /\ UNCHANGED <<shape, tables, keys, create, refused>>

\* alembic revision --autogenerate and upgrade: what is reported is dropped and
\* added again.
Migrate(f) ==
    /\ create = None
    /\ keys[f] # None /\ Reported(f)
    /\ Add(f)
    /\ UNCHANGED <<shape, options, tables, create, refused>>

Next ==
    \/ CreateAll
    \/ Created
    \/ \E t \in Table : CreateOne(t) \/ CreateTable(t) \/ DropTable(t)
    \/ \E f \in ForeignKey :
          \/ AddSelfReferential(f)
          \/ AddAtEnd(f)
          \/ Migrate(f)
          \/ \E choice \in Choice : Edit(f, choice)

Spec == Init /\ [][Next]_vars

-----------------------------------------------------------------------------
(* What holds.                                                              *)

\* When create() returns, every foreign key of the tables it made is on the
\* server with the actions declared for it, whichever of the compiler, the hook
\* and create_all() was to add it.  Only Table.create() leaves out those that
\* are marked use_alter, as SQLAlchemy documents.
CreatedAsDeclared ==
    [][Created => \A f \in ForeignKey :
           /\ shape[f].from \in create.collection
           /\ (shape[f].useAlter => create.all)
           => keys[f] = ActionColumn(options[f])]_vars

\* create_all() is never refused a statement, except for a self-referential
\* foreign key of a table on a cycle of tables (see AddedOnce); Table.create() is
\* refused one only if the table refers to another that is missing.
RefusedOnlyOnCycle ==
    refused # None =>
        LET f == refused.key
        IN  IF refused.all
            THEN SelfReferential(f) /\ ~shape[f].useAlter /\ OnCycle(shape[f].from, Table)
            ELSE ~SelfReferential(f) /\ shape[f].to \notin tables

\* Autogenerate reports nothing for a foreign key whose actions are those the
\* model declares: MonetDB's RESTRICT for an action left out is no difference.
UnchangedNotReported ==
    \A f \in ForeignKey : keys[f] = ActionColumn(options[f]) => ~Reported(f)

\* The server's action is another one than that declared.  One difference is
\* none to Alembic, and to tests/test_alembic.py:193-232: NO ACTION on the server
\* where the model is silent, although that would make a RESTRICT.
Changed(code, action) ==
    code # CodeOf(action) /\ ~(action = None /\ code = CodeOf("NO ACTION"))

\* Autogenerate reports every other foreign key on the server of which an action
\* is not the one declared: RESTRICT where the model says NO ACTION, too.
ChangeReported ==
    \A f \in ForeignKey :
        /\ keys[f] # None
        /\ \/ Changed(keys[f] % 256, options[f].ondelete)
           \/ Changed(keys[f] \div 256, options[f].onupdate)
        => Reported(f)

\* Of ddl.py: "MonetDBDDLCompiler omits these constraints from the CREATE
\* TABLE, so they are added here instead" - by the hook, and by nobody else, so
\* that no ALTER TABLE is left to add a foreign key that is there.
AddedOnce == create # None => \A f \in create.alters : keys[f] = None
=============================================================================

-------------------------- MODULE SequenceReflection --------------------------
(***************************************************************************)
(* Sequences and the columns that draw from them: what the DDL compiler    *)
(* creates, and what reflection later tells of it (get_sequence_names of   *)
(* reflection.py, get_multi_columns of multi_reflection.py).               *)
(*                                                                         *)
(* A column refers to its sequence by a text, its default.  Whether the    *)
(* sequence was declared or generated for the column is recorded only in   *)
(* the server's dependencies, and a dropped table may leave a generated    *)
(* sequence behind (suite/known_failures.py).                              *)
(*                                                                         *)
(* No name here is one of KeyReflection, whose proofs extend both.         *)
(***************************************************************************)
EXTENDS FiniteSets

CONSTANTS Schema, SequenceName, TableColumn,
          Absent   \* no such column; a column without a default

SequenceKey == Schema \X SequenceName

VARIABLES sequences,    \* sys.sequences
          tableColumns  \* sys.columns, with how each one was declared

sequenceVars == <<sequences, tableColumns>>

Sequence == [key : SequenceKey, generated : BOOLEAN]

ColumnType == [made : {"plain", "identity", "drawing"}, default : SequenceKey \cup {Absent}]

ASSUME AbsentAssumption == Absent \notin SequenceKey /\ Absent \notin ColumnType

SequenceTypeOK ==
    /\ sequences \subseteq Sequence
    /\ \A p, q \in sequences : p.key = q.key => p = q
    /\ tableColumns \in [TableColumn -> ColumnType \cup {Absent}]
    /\ \A c \in TableColumn : tableColumns[c] # Absent =>
          (tableColumns[c].made = "plain" <=> tableColumns[c].default = Absent)

SequenceInit == sequences = {} /\ tableColumns = [c \in TableColumn |-> Absent]

-----------------------------------------------------------------------------
(* DDL.                                                                     *)

Taken(key) == \E q \in sequences : q.key = key

CreateSequence(key) ==
    /\ ~Taken(key)
    /\ sequences' = sequences \cup {[key |-> key, generated |-> FALSE]}
    /\ UNCHANGED tableColumns

InUse(key) == \E c \in TableColumn : tableColumns[c] # Absent /\ tableColumns[c].default = key

\* The server refuses while a column draws from the sequence, and for orphans.
DropSequence(key) ==
    /\ ~InUse(key)
    /\ [key |-> key, generated |-> FALSE] \in sequences
    /\ sequences' = sequences \ {[key |-> key, generated |-> FALSE]}
    /\ UNCHANGED tableColumns

\* AUTO_INCREMENT or GENERATED ... AS IDENTITY: the server makes a sequence in
\* the schema of the table, under a name that is free.
CreateIdentityColumn(c, key) ==
    /\ tableColumns[c] = Absent /\ ~Taken(key)
    /\ sequences' = sequences \cup {[key |-> key, generated |-> TRUE]}
    /\ tableColumns' = [tableColumns EXCEPT ![c] = [made |-> "identity", default |-> key]]

\* Mutant of DefaultOf: the sequence of a server_default is not rendered.
NoDefault(key) == Absent

\* visit_sequence: NEXT VALUE FOR key
DefaultOf(key) == key

\* server_default=sequence.next_value()
CreateDrawingColumn(c, key) ==
    /\ tableColumns[c] = Absent
    /\ [key |-> key, generated |-> FALSE] \in sequences
    /\ tableColumns' = [tableColumns EXCEPT ![c] = [made |-> "drawing", default |-> DefaultOf(key)]]
    /\ UNCHANGED sequences

CreatePlainColumn(c) ==
    /\ tableColumns[c] = Absent
    /\ tableColumns' = [tableColumns EXCEPT ![c] = [made |-> "plain", default |-> Absent]]
    /\ UNCHANGED sequences

\* The table goes; its generated sequence goes with it, or stays an orphan.
DropColumn(c) ==
    /\ tableColumns[c] # Absent
    /\ tableColumns' = [tableColumns EXCEPT ![c] = Absent]
    /\ \/ UNCHANGED sequences
       \/ /\ tableColumns[c].made = "identity"
          /\ sequences' = {q \in sequences : q.key # tableColumns[c].default}

SequenceNext ==
    \/ \E key \in SequenceKey : CreateSequence(key) \/ DropSequence(key)
    \/ \E c \in TableColumn :
          \/ CreatePlainColumn(c) \/ DropColumn(c)
          \/ \E key \in SequenceKey : CreateIdentityColumn(c, key) \/ CreateDrawingColumn(c, key)

SequenceSpec == SequenceInit /\ [][SequenceNext]_sequenceVars

-----------------------------------------------------------------------------
(* What reflection tells.                                                   *)

\* get_sequence_names: those that no column's default names
SequenceNames(schema) == {q \in sequences : q.key[1] = schema /\ ~InUse(q.key)}

\* Mutant of SequenceFor: the schema in the default is ignored.
SequenceForName(default) == {q \in sequences : default # Absent /\ q.key[2] = default[2]}

\* _sequence_reflection: the sequence a default refers to
SequenceFor(default) == {q \in sequences : q.key = default}

\* get_multi_columns: a column is an identity when its sequence was generated,
\* and then has no default to speak of.
ReflectedColumn(c) ==
    LET identity == \E q \in SequenceFor(tableColumns[c].default) : q.generated
    IN [identity |-> identity, default |-> IF identity THEN Absent ELSE tableColumns[c].default]

-----------------------------------------------------------------------------
(* Properties.                                                              *)

\* A column is reflected as it was declared, whatever was created and dropped
\* around it: an identity as an identity without a default, any other one with
\* its own default and as no identity.  A generated sequence is listed only when
\* it is an orphan: "they really are sequences with no owner"
\* (suite/known_failures.py).
ReflectedAsDeclared ==
    /\ \A c \in TableColumn : tableColumns[c] # Absent =>
          ReflectedColumn(c) =
              [identity |-> tableColumns[c].made = "identity",
               default |-> IF tableColumns[c].made = "identity" THEN Absent
                           ELSE tableColumns[c].default]
    /\ \A s \in Schema : \A q \in SequenceNames(s) :
          q.generated => ~\E c \in TableColumn : tableColumns[c] # Absent /\ tableColumns[c].default = q.key

\* "Only sequences the user declared are listed": the declared ones are.
DeclaredListed ==
    \A q \in sequences : ~q.generated => q \in SequenceNames(q.key[1])
=============================================================================

--------------------------- MODULE ForeignKeysProofs ---------------------------
(***************************************************************************)
(* Autogenerate is exact on the actions of foreign keys, for any tables,   *)
(* foreign keys and choices of actions: decoding inverts the coding of two *)
(* actions in one integer, and what _alembic.py corrects is exactly what   *)
(* the server adds.  And create() adds every foreign key with its actions, *)
(* refused nothing but a key that the hook and the end both add.           *)
(***************************************************************************)
EXTENDS ForeignKeys, TLAPS

\* Both sides of the comparison are made of declared actions.
ActionsTyped == /\ options \in [ForeignKey -> Choice]
                /\ keys \in [ForeignKey -> {ActionColumn(c) : c \in Choice} \cup {None}]

\* What the server takes an action for, and what it is reflected as.
Meaning(action) == IF action = None THEN "RESTRICT" ELSE action

AtServer(action) == IF Meaning(action) = "NO ACTION" THEN None ELSE Meaning(action)

-----------------------------------------------------------------------------
(* The coding of actions.                                                   *)

\* The table, spelled out.
LEMMA ActionTable ==
    /\ DOMAIN FK_ACTIONS = 0 .. 4
    /\ FK_ACTIONS[0] = "NO ACTION" /\ FK_ACTIONS[1] = "CASCADE"
    /\ FK_ACTIONS[2] = "RESTRICT" /\ FK_ACTIONS[3] = "SET NULL"
    /\ FK_ACTIONS[4] = "SET DEFAULT"
  BY DEF FK_ACTIONS

\* Every action has a code, which stands for what the server takes it for.
LEMMA CodeFacts ==
    ASSUME NEW a \in Phrase \cup {None}
    PROVE  CodeOf(a) \in 0 .. 4 /\ FK_ACTIONS[CodeOf(a)] = Meaning(a)
  <1>1. CASE a = None
    <2>1. CodeOf(a) = 2 /\ Meaning(a) = "RESTRICT"
      BY <1>1, Zenon DEF CodeOf, Meaning
    <2>2. 2 \in 0 .. 4
      OBVIOUS
    <2> QED
      BY <2>1, <2>2, ActionTable, Zenon
  <1>2. CASE a # None
    <2>1. \E code \in DOMAIN FK_ACTIONS : FK_ACTIONS[code] = a
      <3>1. /\ 0 \in 0 .. 4 /\ 1 \in 0 .. 4 /\ 2 \in 0 .. 4
            /\ 3 \in 0 .. 4 /\ 4 \in 0 .. 4
        OBVIOUS
      <3>2. \/ a = "NO ACTION" \/ a = "CASCADE" \/ a = "RESTRICT"
            \/ a = "SET NULL" \/ a = "SET DEFAULT"
        BY <1>2, Zenon DEF Phrase
      <3> QED
        BY <3>1, <3>2, ActionTable, Zenon
    <2>2. CodeOf(a) = CHOOSE code \in DOMAIN FK_ACTIONS : FK_ACTIONS[code] = a
      BY <1>2, Zenon DEF CodeOf
    <2>3. CodeOf(a) \in DOMAIN FK_ACTIONS /\ FK_ACTIONS[CodeOf(a)] = a
      BY <2>1, <2>2, Zenon
    <2>4. Meaning(a) = a
      BY <1>2, Zenon DEF Meaning
    <2> QED
      BY <2>3, <2>4, ActionTable
  <1> QED
    BY <1>1, <1>2

\* Two codes are found again in the one integer that holds them.
LEMMA Bytes ==
    ASSUME NEW d \in 0 .. 4, NEW u \in 0 .. 4
    PROVE  /\ (d + 256 * u) % 256 = d
           /\ (d + 256 * u) \div 256 = u
           /\ u % 256 = u
  OBVIOUS

\* get_multi_foreign_keys reads what define_constraint_cascades wrote.
LEMMA Decoded ==
    ASSUME NEW c \in Options
    PROVE  /\ Phrased(ActionColumn(c) % 256) = AtServer(c.ondelete)
           /\ Phrased((ActionColumn(c) \div 256) % 256) = AtServer(c.onupdate)
           /\ ActionColumn(c) % 256 = CodeOf(c.ondelete)
           /\ ActionColumn(c) \div 256 = CodeOf(c.onupdate)
  <1>1. c.ondelete \in Phrase \cup {None} /\ c.onupdate \in Phrase \cup {None}
    BY DEF Options
  <1> DEFINE d == CodeOf(c.ondelete)
             u == CodeOf(c.onupdate)
             k == ActionColumn(c)
  <1>2. d \in 0 .. 4 /\ FK_ACTIONS[d] = Meaning(c.ondelete)
    BY <1>1, CodeFacts
  <1>3. u \in 0 .. 4 /\ FK_ACTIONS[u] = Meaning(c.onupdate)
    BY <1>1, CodeFacts
  <1>4. k = d + 256 * u
    BY DEF ActionColumn
  <1> HIDE DEF d, u, k
  <1>5. k % 256 = d /\ k \div 256 = u /\ (k \div 256) % 256 = u
    BY <1>2, <1>3, <1>4, Bytes
  <1>6. Phrased(d) = AtServer(c.ondelete)
    BY <1>2, ActionTable DEF Phrased, AtServer
  <1>7. Phrased(u) = AtServer(c.onupdate)
    BY <1>3, ActionTable DEF Phrased, AtServer
  <1> QED
    BY <1>5, <1>6, <1>7 DEF d, u, k

-----------------------------------------------------------------------------
(* The comparison.                                                          *)

\* An action compared with itself, by way of the server, is no difference.
LEMMA SameIsSame ==
    ASSUME NEW a \in Phrase \cup {None}
    PROVE  InSignature(Corrected(AtServer(a), a)) = InSignature(a)
  BY MetadataAssumption DEF InSignature, Corrected, AtServer, Meaning, Phrase

\* Two actions that differ are a difference, but for the one that is none.
LEMMA DifferentIsDifferent ==
    ASSUME NEW a \in Phrase \cup {None}, NEW b \in Phrase \cup {None},
           Changed(CodeOf(a), b)
    PROVE  InSignature(Corrected(AtServer(a), b)) # InSignature(b)
  <1>1. Meaning(a) # Meaning(b)
    <2>1. /\ CodeOf(a) \in 0 .. 4 /\ FK_ACTIONS[CodeOf(a)] = Meaning(a)
          /\ CodeOf(b) \in 0 .. 4 /\ FK_ACTIONS[CodeOf(b)] = Meaning(b)
      BY CodeFacts
    <2>2. \A i, j \in 0 .. 4 : FK_ACTIONS[i] = FK_ACTIONS[j] => i = j
      <3>1. \A i \in 0 .. 4 : i = 0 \/ i = 1 \/ i = 2 \/ i = 3 \/ i = 4
        OBVIOUS
      <3> QED
        BY <3>1, ActionTable, Zenon
    <2>3. CodeOf(a) # CodeOf(b)
      BY Zenon DEF Changed
    <2> QED
      BY <2>1, <2>2, <2>3, Zenon
  <1>2. ~(b = None /\ a = "NO ACTION")
    BY Zenon DEF Changed
  <1> QED
    BY <1>1, <1>2, MetadataAssumption DEF InSignature, Corrected, AtServer, Meaning, Phrase

-----------------------------------------------------------------------------
(* The state.                                                               *)

LEMMA InitTyped == Init => ActionsTyped
  BY DEF Init, ActionsTyped

\* Every step leaves declared actions, or what was coded from some.
LEMMA NextTyped == ActionsTyped /\ [Next]_vars => ActionsTyped'
  <1> SUFFICES ASSUME ActionsTyped, [Next]_vars
               PROVE  ActionsTyped'
    OBVIOUS
  <1> USE DEF ActionsTyped
  <1>1. ASSUME NEW f \in ForeignKey, Refuse(f)
        PROVE  ActionsTyped'
    BY <1>1 DEF Refuse
  <1>2. ASSUME NEW f \in ForeignKey, Add(f), UNCHANGED options
        PROVE  ActionsTyped'
    BY <1>2 DEF Add
  <1>3. ASSUME NEW f \in ForeignKey, NEW rest, AlterTableAdd(f, rest)
        PROVE  ActionsTyped'
    BY <1>1, <1>2, <1>3 DEF AlterTableAdd
  <1>4. ASSUME NEW all, NEW C, NEW alters, Start(all, C, alters)
        PROVE  ActionsTyped'
    BY <1>4 DEF Start
  <1>5. CASE CreateAll
    BY <1>4, <1>5 DEF CreateAll
  <1>6. CASE Created
    BY <1>6 DEF Created
  <1>7. ASSUME NEW t \in Table, CreateOne(t)
        PROVE  ActionsTyped'
    BY <1>4, <1>7 DEF CreateOne
  <1>8. ASSUME NEW t \in Table, CreateTable(t)
        PROVE  ActionsTyped'
    <2>1. CASE \E f \in Inlined(t) : Refuse(f)
      <3>1. Inlined(t) \subseteq ForeignKey
        BY DEF Inlined, Requested, KeysOf
      <3> QED
        BY <2>1, <3>1, <1>1
    <2>2. CASE /\ keys' = [f \in ForeignKey |->
                              IF f \in Inlined(t) THEN ActionColumn(options[f]) ELSE keys[f]]
               /\ UNCHANGED options
      BY <2>2
    <2> QED
      BY <1>8, <2>1, <2>2 DEF CreateTable
  <1>9. ASSUME NEW t \in Table, DropTable(t)
        PROVE  ActionsTyped'
    BY <1>9 DEF DropTable
  <1>10. ASSUME NEW f \in ForeignKey, AddSelfReferential(f)
         PROVE  ActionsTyped'
    BY <1>3, <1>10 DEF AddSelfReferential
  <1>11. ASSUME NEW f \in ForeignKey, AddAtEnd(f)
         PROVE  ActionsTyped'
    BY <1>3, <1>11 DEF AddAtEnd
  <1>12. ASSUME NEW f \in ForeignKey, Migrate(f)
         PROVE  ActionsTyped'
    BY <1>2, <1>12 DEF Migrate
  <1>13. ASSUME NEW f \in ForeignKey, NEW choice \in Choice, Edit(f, choice)
         PROVE  ActionsTyped'
    BY <1>13 DEF Edit
  <1>14. CASE UNCHANGED vars
    BY <1>14 DEF vars
  <1> QED
    BY <1>5, <1>6, <1>7, <1>8, <1>9, <1>10, <1>11, <1>12, <1>13, <1>14 DEF Next

\* The actions on the server and in the metadata are declared ones (part of the
\* type invariant of ForeignKeys).
LEMMA AlwaysTyped == Spec => []ActionsTyped
  BY InitTyped, NextTyped, PTL DEF Spec

\* Autogenerate reports no foreign key that has the actions the model declares
\* (correct_for_autogen_foreignkeys).
THEOREM NoFalseAlarm == Spec => []UnchangedNotReported
  <1>1. ActionsTyped => UnchangedNotReported
    <2> SUFFICES ASSUME ActionsTyped, NEW f \in ForeignKey,
                        keys[f] = ActionColumn(options[f])
                 PROVE  ~Reported(f)
      BY DEF UnchangedNotReported
    <2>1. options[f] \in Options
      BY MetadataAssumption DEF ActionsTyped
    <2>2. options[f].ondelete \in Phrase \cup {None} /\ options[f].onupdate \in Phrase \cup {None}
      BY <2>1 DEF Options
    <2>3. /\ ReflectedOptions(keys[f]).ondelete = AtServer(options[f].ondelete)
          /\ ReflectedOptions(keys[f]).onupdate = AtServer(options[f].onupdate)
      BY <2>1, Decoded DEF ReflectedOptions
    <2> QED
      BY <2>2, <2>3, SameIsSame, Zenon DEF Reported
  <1> QED
    BY <1>1, AlwaysTyped, PTL

\* Autogenerate reports every foreign key with another action than the model
\* declares, RESTRICT for NO ACTION included; all but a NO ACTION on the server
\* where the model is silent (correct_for_autogen_foreignkeys).
THEOREM NoMissedChange == Spec => []ChangeReported
  <1>1. ActionsTyped => ChangeReported
    <2> SUFFICES ASSUME ActionsTyped, NEW f \in ForeignKey, keys[f] # None,
                        \/ Changed(keys[f] % 256, options[f].ondelete)
                        \/ Changed(keys[f] \div 256, options[f].onupdate)
                 PROVE  Reported(f)
      BY Zenon DEF ChangeReported
    <2>1. PICK c \in Choice : keys[f] = ActionColumn(c)
      BY DEF ActionsTyped
    <2> DEFINE o == options[f]
    <2>2. c \in Options /\ o \in Options
      BY MetadataAssumption DEF ActionsTyped
    <2>3. /\ c.ondelete \in Phrase \cup {None} /\ c.onupdate \in Phrase \cup {None}
          /\ o.ondelete \in Phrase \cup {None} /\ o.onupdate \in Phrase \cup {None}
      BY <2>2 DEF Options
    <2>4. /\ ReflectedOptions(keys[f]).ondelete = AtServer(c.ondelete)
          /\ ReflectedOptions(keys[f]).onupdate = AtServer(c.onupdate)
      BY <2>1, <2>2, Decoded DEF ReflectedOptions
    <2>5. keys[f] % 256 = CodeOf(c.ondelete) /\ keys[f] \div 256 = CodeOf(c.onupdate)
      BY <2>1, <2>2, Decoded
    <2>6. CASE Changed(CodeOf(c.ondelete), o.ondelete)
      BY <2>3, <2>4, <2>6, DifferentIsDifferent, Zenon DEF Reported
    <2>7. CASE Changed(CodeOf(c.onupdate), o.onupdate)
      BY <2>3, <2>4, <2>7, DifferentIsDifferent, Zenon DEF Reported
    <2> QED
      BY <2>5, <2>6, <2>7, Zenon
  <1> QED
    BY <1>1, AlwaysTyped, PTL

-----------------------------------------------------------------------------
(* What create() does.  A foreign key is added by the compiler, by the hook *)
(* or at the end, and the invariant says at every moment who still has to.  *)

Creation == [all : BOOLEAN, collection : SUBSET Table, todo : SUBSET Table,
             hook : SUBSET ForeignKey, alters : SUBSET ForeignKey]

\* The server has no foreign key without its table.
Placed == \A f \in ForeignKey : keys[f] # None => shape[f].from \in tables

\* A running create(): which tables there are, and what it has put off.
Running ==
    create # None =>
        /\ refused = None
        /\ create.todo \cap tables = {}
        /\ create.todo \subseteq create.collection
        /\ create.collection \ create.todo \subseteq tables
        /\ create.all => Table \ create.collection \subseteq tables
        /\ ~create.all => create.alters = {}
        /\ create.alters \subseteq AddedAtEnd(create.collection)

\* Foreign key f during create(): the hook adds what is not there; the end adds
\* what is not there, unless the hook has done so; one that is not there is still
\* to come.
Tracked(f) ==
    /\ f \in create.hook => /\ SelfReferential(f) /\ ~shape[f].useAlter
                            /\ keys[f] = None
                            /\ shape[f].from \in create.collection \ create.todo
    /\ f \in create.alters /\ keys[f] # None => SelfReferential(f) /\ ~shape[f].useAlter
    /\ shape[f].from \in create.todo /\ shape[f].useAlter /\ create.all
            => f \in create.alters
    /\ shape[f].from \in create.collection \ create.todo =>
            \/ keys[f] = ActionColumn(options[f])
            \/ f \in create.hook
            \/ f \in create.alters
            \/ shape[f].useAlter /\ ~create.all

AllTracked == create # None => \A f \in ForeignKey : Tracked(f)

IInv == TypeOK /\ Placed /\ Running /\ AllTracked /\ RefusedOnlyOnCycle

\* What the types say of one foreign key and of a running create().
LEMMA Typed ==
    ASSUME TypeOK
    PROVE  /\ create # None => create \in Creation
           /\ \A f \in ForeignKey : /\ shape[f].from \in Table /\ shape[f].to \in Table
                                    /\ shape[f].useAlter \in BOOLEAN
                                    /\ options[f] \in Choice
                                    /\ ActionColumn(options[f]) \in
                                           {ActionColumn(c) : c \in Choice} \cup {None}
  <1>1. create # None => create \in Creation
    BY DEF TypeOK, Creation
  <1>2. ASSUME NEW f \in ForeignKey
        PROVE  shape[f] \in [from : Table, to : Table, useAlter : BOOLEAN]
    BY MetadataAssumption DEF TypeOK
  <1>3. ASSUME NEW f \in ForeignKey PROVE options[f] \in Choice
    BY DEF TypeOK
  <1> HIDE DEF TypeOK
  <1>4. ASSUME NEW f \in ForeignKey
        PROVE  /\ shape[f].from \in Table /\ shape[f].to \in Table
               /\ shape[f].useAlter \in BOOLEAN
    BY <1>2
  <1>5. ASSUME NEW f \in ForeignKey
        PROVE  ActionColumn(options[f]) \in {ActionColumn(c) : c \in Choice} \cup {None}
    BY <1>3
  <1> QED
    BY <1>1, <1>3, <1>4, <1>5

\* A cycle among some tables is a cycle among all.
LEMMA CycleGrows ==
    ASSUME NEW C \in SUBSET Table, NEW t, OnCycle(t, C)
    PROVE  OnCycle(t, Table)
  <1>1. PICK u \in DependsOn(t, C) : \A S \in SUBSET C :
            (u \in S /\ \A v \in S : DependsOn(v, C) \subseteq S) => t \in S
    BY DEF OnCycle
  <1>2. \A v : DependsOn(v, C) = DependsOn(v, Table) \cap C
    BY DEF DependsOn
  <1>3. ASSUME NEW S \in SUBSET Table, u \in S, \A v \in S : DependsOn(v, Table) \subseteq S
        PROVE  t \in S
    <2>1. S \cap C \in SUBSET C /\ u \in S \cap C
      BY <1>1, <1>2, <1>3
    <2>2. \A v \in S \cap C : DependsOn(v, C) \subseteq S \cap C
      BY <1>2, <1>3
    <2>3. t \in S \cap C
      BY <1>1, <2>1, <2>2
    <2> QED
      BY <2>3
  <1>4. u \in DependsOn(t, Table)
    BY <1>1, <1>2
  <1> QED
    BY <1>3, <1>4 DEF OnCycle

-----------------------------------------------------------------------------
LEMMA InitIInv == Init => IInv
  <1> SUFFICES ASSUME Init PROVE IInv
    OBVIOUS
  <1>1. TypeOK
    BY DEF Init, TypeOK
  <1>2. Placed /\ Running /\ AllTracked /\ RefusedOnlyOnCycle
    BY DEF Init, Placed, Running, AllTracked, RefusedOnlyOnCycle
  <1> QED
    BY <1>1, <1>2 DEF IInv

\* A create() begins with tables that are not there, and so without their keys.
LEMMA StartKeeps ==
    ASSUME IInv, NEW all \in BOOLEAN, NEW C \in SUBSET (Table \ tables), NEW alters,
           alters \subseteq AddedAtEnd(C), Start(all, C, alters),
           all => C = Table \ tables /\ alters = AddedAtEnd(C),
           ~all => alters = {}
    PROVE  IInv'
  <1>1. /\ create' = [all |-> all, collection |-> C, todo |-> C,
                      hook |-> {}, alters |-> alters]
        /\ refused' = None
        /\ UNCHANGED <<shape, options, tables, keys>>
    BY DEF Start
  <1>2. alters \subseteq ForeignKey /\ C \subseteq Table /\ C \cap tables = {}
    BY DEF AddedAtEnd
  <1>3. TypeOK /\ Placed
    BY DEF IInv
  <1>4. create' \in Creation
    BY <1>1, <1>2 DEF Creation
  <1>5. TypeOK'
    BY <1>1, <1>3, <1>4 DEF TypeOK, Creation
  <1>6. Placed'
    BY <1>1, <1>3 DEF Placed
  <1>7. AddedAtEnd(C)' = AddedAtEnd(C)
    BY <1>1 DEF AddedAtEnd, OnCycle, DependsOn, KeysOf
  <1>8. /\ create'.all = all /\ create'.collection = C /\ create'.todo = C
        /\ create'.hook = {} /\ create'.alters = alters
    BY <1>1
  <1>9. Running'
    BY <1>1, <1>2, <1>7, <1>8 DEF Running
  <1>10. AllTracked'
    <2> SUFFICES ASSUME NEW f \in ForeignKey PROVE Tracked(f)'
      BY DEF AllTracked
    <2>1. shape[f].from \in C => keys[f] = None
      BY <1>2, <1>3 DEF Placed
    <2>2. f \in alters => shape[f].from \in C
      BY DEF AddedAtEnd
    <2>3. shape[f].from \in C /\ shape[f].useAlter /\ all => f \in alters
      BY DEF AddedAtEnd
    <2> QED
      BY <1>1, <1>8, <2>1, <2>2, <2>3 DEF Tracked, SelfReferential
  <1>11. RefusedOnlyOnCycle'
    BY <1>1 DEF RefusedOnlyOnCycle
  <1> QED
    BY <1>5, <1>6, <1>9, <1>10, <1>11 DEF IInv

\* What a refusal leaves, if the foreign key may be refused.
LEMMA RefuseKeeps ==
    ASSUME IInv, create # None, NEW f \in ForeignKey, Refuse(f),
           IF create.all
           THEN SelfReferential(f) /\ ~shape[f].useAlter /\ OnCycle(shape[f].from, Table)
           ELSE ~SelfReferential(f) /\ shape[f].to \notin tables
    PROVE  IInv'
  <1>1. /\ create' = None
        /\ refused' = [key |-> f, all |-> create.all]
        /\ tables' = tables \ create.collection
        /\ keys' = [g \in ForeignKey |->
                       IF shape[g].from \in create.collection THEN None ELSE keys[g]]
        /\ shape' = shape /\ options' = options
    BY DEF Refuse
  <1>2. TypeOK /\ Placed
    BY DEF IInv
  <1>3. create.all \in BOOLEAN
    BY <1>2, Typed DEF Creation
  <1>4. TypeOK'
    <2>1. keys' \in [ForeignKey -> {ActionColumn(c) : c \in Choice} \cup {None}]
      BY <1>1, <1>2 DEF TypeOK
    <2>2. refused' \in [key : ForeignKey, all : BOOLEAN]
      BY <1>1, <1>3
    <2> QED
      BY <1>1, <1>2, <2>1, <2>2 DEF TypeOK
  <1>5. Placed'
    BY <1>1, <1>2 DEF Placed
  <1>6. Running' /\ AllTracked'
    BY <1>1 DEF Running, AllTracked
  <1>7. RefusedOnlyOnCycle'
    <2>1. OnCycle(shape[f].from, Table)' = OnCycle(shape[f].from, Table)
      BY <1>1 DEF OnCycle, DependsOn, KeysOf
    <2>2. refused'.key = f /\ refused'.all = create.all
      BY <1>1
    <2>3. SelfReferential(f)' = SelfReferential(f)
      BY <1>1 DEF SelfReferential
    <2>4. shape[f].to \notin tables => shape[f].to \notin tables'
      BY <1>1
    <2> QED
      BY <1>1, <2>1, <2>2, <2>3, <2>4 DEF RefusedOnlyOnCycle
  <1> QED
    BY <1>4, <1>5, <1>6, <1>7 DEF IInv

\* CREATE TABLE puts in the keys that neither the hook nor the end will add, and
\* every table it refers to is there.
LEMMA CreateTableKeeps ==
    ASSUME IInv, NEW t \in Table, CreateTable(t)
    PROVE  IInv'
  <1>1. TypeOK /\ Placed /\ Running /\ AllTracked
    BY DEF IInv
  <1>2. create # None /\ create.hook = {} /\ t \in create.todo /\ create \in Creation
    BY <1>1, Typed DEF CreateTable
  <1>3. /\ create.all \in BOOLEAN /\ create.collection \subseteq Table
        /\ create.todo \subseteq Table /\ create.alters \subseteq ForeignKey
    BY <1>2 DEF Creation
  <1>4. /\ refused = None
        /\ create.todo \cap tables = {}
        /\ create.todo \subseteq create.collection
        /\ create.collection \ create.todo \subseteq tables
        /\ create.all => Table \ create.collection \subseteq tables
        /\ ~create.all => create.alters = {}
        /\ create.alters \subseteq AddedAtEnd(create.collection)
    BY <1>1, <1>2 DEF Running
  <1>5. \A f \in ForeignKey : Tracked(f)
    BY <1>1, <1>2 DEF AllTracked
  <1>6. \A f \in Inlined(t) : /\ f \in ForeignKey /\ shape[f].from = t
                              /\ f \notin create.alters
                              /\ ~shape[f].useAlter /\ ~SelfReferential(f)
    BY DEF Inlined, Requested, KeysOf, self_referential_foreign_keys
  <1>7. ASSUME NEW f \in Inlined(t), shape[f].to \notin tables, Refuse(f)
        PROVE  IInv'
    <2>1. f \in ForeignKey /\ ~SelfReferential(f) /\ shape[f].from = t
      BY <1>6
    <2>2. shape[f].to \in Table /\ shape[f].to # t
      BY <1>1, <2>1, Typed DEF SelfReferential
    <2>3. shape[f].to \notin create.todo
      BY <2>2 DEF CreateTable, Inlined
    <2>4. ~create.all
      BY <1>3, <1>4, <1>7, <2>2, <2>3
    <2> QED
      BY <1>2, <1>7, <2>1, <2>4, RefuseKeeps
  <1>8. ASSUME tables' = tables \cup {t},
               keys' = [f \in ForeignKey |->
                           IF f \in Inlined(t) THEN ActionColumn(options[f]) ELSE keys[f]],
               create' = [create EXCEPT !.todo = @ \ {t},
                                        !.hook = self_referential_foreign_keys(t)],
               UNCHANGED <<shape, options, refused>>
        PROVE  IInv'
    <2>1. /\ create'.all = create.all /\ create'.collection = create.collection
          /\ create'.todo = create.todo \ {t}
          /\ create'.hook = self_referential_foreign_keys(t)
          /\ create'.alters = create.alters
          /\ create' \in Creation
      <3>1. self_referential_foreign_keys(t) \subseteq ForeignKey
        BY DEF self_referential_foreign_keys, KeysOf
      <3> QED
        BY <1>2, <1>8, <3>1 DEF Creation
    <2>2. \A f \in ForeignKey :
              keys'[f] = IF f \in Inlined(t) THEN ActionColumn(options[f]) ELSE keys[f]
      BY <1>8
    <2>3. TypeOK'
      <3>1. keys' \in [ForeignKey -> {ActionColumn(c) : c \in Choice} \cup {None}]
        <4>1. \A f \in ForeignKey : keys[f] \in {ActionColumn(c) : c \in Choice} \cup {None}
          BY <1>1 DEF TypeOK
        <4>2. \A f \in ForeignKey :
                  ActionColumn(options[f]) \in {ActionColumn(c) : c \in Choice} \cup {None}
          BY <1>1, Typed
        <4> QED
          BY <1>8, <4>1, <4>2
      <3>2. create' \in Creation
        BY <2>1
      <3> QED
        BY <1>1, <1>8, <3>1, <3>2 DEF TypeOK, Creation
    <2>4. Placed'
      BY <1>1, <1>6, <1>8, <2>2 DEF Placed
    <2>5. AddedAtEnd(create.collection)' = AddedAtEnd(create.collection)
      BY <1>8, <2>1 DEF AddedAtEnd, OnCycle, DependsOn, KeysOf
    <2>6. Running'
      BY <1>4, <1>8, <2>1, <2>5 DEF Running
    <2>7. AllTracked'
      <3> SUFFICES ASSUME NEW f \in ForeignKey PROVE Tracked(f)'
        BY DEF AllTracked
      <3>1. /\ shape'[f] = shape[f] /\ options'[f] = options[f]
            /\ SelfReferential(f)' = SelfReferential(f)
            /\ ActionColumn(options[f])' = ActionColumn(options[f])
        BY <1>8 DEF SelfReferential, ActionColumn
      <3>2. Tracked(f)
        BY <1>5
      <3>3. shape[f].from = t => keys[f] = None
        BY <1>1, <1>2, <1>4 DEF Placed
      <3>4. f \in self_referential_foreign_keys(t) <=>
                shape[f].from = t /\ SelfReferential(f) /\ ~shape[f].useAlter
        BY DEF self_referential_foreign_keys, KeysOf
      <3>5. f \in Inlined(t) <=>
                /\ shape[f].from = t /\ f \notin create.alters /\ ~shape[f].useAlter
                /\ ~SelfReferential(f)
        BY DEF Inlined, Requested, KeysOf, self_referential_foreign_keys
      <3>6. f \in create'.hook =>
                /\ SelfReferential(f)' /\ ~shape'[f].useAlter /\ keys'[f] = None
                /\ shape'[f].from \in create'.collection \ create'.todo
        BY <1>2, <1>4, <2>1, <2>2, <3>1, <3>3, <3>4, <3>5
      <3>7. f \in create'.alters /\ keys'[f] # None => SelfReferential(f)' /\ ~shape'[f].useAlter
        BY <2>1, <2>2, <3>1, <3>2, <3>5 DEF Tracked
      <3>8. shape'[f].from \in create'.todo /\ shape'[f].useAlter /\ create'.all
                => f \in create'.alters
        BY <2>1, <3>1, <3>2 DEF Tracked
      <3>9. shape'[f].from \in create'.collection \ create'.todo =>
                \/ keys'[f] = ActionColumn(options[f])'
                \/ f \in create'.hook
                \/ f \in create'.alters
                \/ shape'[f].useAlter /\ ~create'.all
        <4>1. CASE shape[f].from = t
          BY <1>2, <2>1, <2>2, <3>1, <3>2, <3>4, <3>5, <4>1 DEF Tracked
        <4>2. CASE shape[f].from # t
          BY <1>2, <2>1, <2>2, <3>1, <3>2, <3>5, <4>2 DEF Tracked
        <4> QED
          BY <4>1, <4>2
      <3> QED
        BY <3>6, <3>7, <3>8, <3>9 DEF Tracked
    <2>8. RefusedOnlyOnCycle'
      BY <1>4, <1>8 DEF RefusedOnlyOnCycle
    <2> QED
      BY <2>3, <2>4, <2>6, <2>7, <2>8 DEF IInv
  <1> QED
    BY <1>7, <1>8 DEF CreateTable

\* ALTER TABLE ... ADD of a key that is not there, by the hook or at the end.
LEMMA AddKeeps ==
    ASSUME IInv, create # None, NEW f \in ForeignKey,
           shape[f].from \in tables,
           Add(f), UNCHANGED <<shape, options, tables, refused>>,
           NEW hook \in SUBSET create.hook, NEW alters \in SUBSET create.alters,
           create.hook \ hook \subseteq {f}, create.alters \ alters \subseteq {f},
           f \notin hook,
           f \in alters => SelfReferential(f) /\ ~shape[f].useAlter,
           create.alters # alters => create.todo = {},
           create' = [create EXCEPT !.hook = hook, !.alters = alters]
    PROVE  IInv'
  <1>1. TypeOK /\ Placed /\ Running /\ AllTracked /\ create \in Creation
    BY Typed DEF IInv
  <1>2. /\ create'.all = create.all /\ create'.collection = create.collection
        /\ create'.todo = create.todo /\ create'.hook = hook /\ create'.alters = alters
        /\ create' \in Creation
    BY <1>1 DEF Creation
  <1>3. \A g \in ForeignKey : keys'[g] = IF g = f THEN ActionColumn(options[f]) ELSE keys[g]
    BY <1>1 DEF Add, TypeOK
  <1>4. TypeOK'
    <2>1. keys' \in [ForeignKey -> {ActionColumn(c) : c \in Choice} \cup {None}]
      <3>1. ActionColumn(options[f]) \in {ActionColumn(c) : c \in Choice} \cup {None}
        BY <1>1, Typed
      <3>2. keys \in [ForeignKey -> {ActionColumn(c) : c \in Choice} \cup {None}]
        BY <1>1 DEF TypeOK
      <3> QED
        BY <3>1, <3>2 DEF Add
    <2> QED
      BY <1>1, <1>2, <2>1 DEF TypeOK, Creation
  <1>5. Placed'
    BY <1>1, <1>3 DEF Placed
  <1>6. AddedAtEnd(create.collection)' = AddedAtEnd(create.collection)
    BY <1>2 DEF AddedAtEnd, OnCycle, DependsOn, KeysOf
  <1>7. Running'
    BY <1>1, <1>2, <1>6 DEF Running
  <1>8. AllTracked'
    <2> SUFFICES ASSUME NEW g \in ForeignKey PROVE Tracked(g)'
      BY DEF AllTracked
    <2>1. /\ shape'[g] = shape[g] /\ options'[g] = options[g]
          /\ SelfReferential(g)' = SelfReferential(g)
          /\ ActionColumn(options[g])' = ActionColumn(options[g])
      BY DEF SelfReferential, ActionColumn
    <2>2. Tracked(g)
      BY <1>1 DEF AllTracked
    <2>3. keys'[g] = IF g = f THEN ActionColumn(options[f]) ELSE keys[g]
      BY <1>3
    <2>4. CASE g = f
      <3>1. keys'[f] = ActionColumn(options[f]) /\ f \notin create'.hook
        BY <1>2, <2>3, <2>4
      <3>2. f \in create'.alters => SelfReferential(f)' /\ ~shape'[f].useAlter
        BY <1>2, <2>1, <2>4
      <3>3. shape'[f].from \in create'.todo => create.alters = alters \/ create.todo = {}
        OBVIOUS
      <3>4. shape'[f].from \in create'.todo /\ shape'[f].useAlter /\ create'.all
                => f \in create'.alters
        BY <1>2, <2>1, <2>2, <2>4, <3>3 DEF Tracked
      <3> QED
        BY <2>1, <2>4, <3>1, <3>2, <3>4 DEF Tracked
    <2>5. CASE g # f
      <3>1. /\ keys'[g] = keys[g]
            /\ g \in create'.hook <=> g \in create.hook
            /\ g \in create'.alters <=> g \in create.alters
        BY <1>2, <2>3, <2>5
      <3> QED
        BY <1>2, <2>1, <2>2, <3>1 DEF Tracked
    <2> QED
      BY <2>4, <2>5
  <1>9. RefusedOnlyOnCycle'
    BY <1>1 DEF Running, RefusedOnlyOnCycle
  <1> QED
    BY <1>4, <1>5, <1>7, <1>8, <1>9 DEF IInv

\* The hook: what it adds is not there yet.
LEMMA AddSelfReferentialKeeps ==
    ASSUME IInv, NEW f \in ForeignKey, AddSelfReferential(f)
    PROVE  IInv'
  <1>1. create # None /\ f \in create.hook
    BY DEF AddSelfReferential
  <1>2. Running /\ AllTracked /\ create \in Creation
    BY <1>1, Typed DEF IInv
  <1>3. Tracked(f)
    BY <1>1, <1>2 DEF AllTracked
  <1>4. /\ SelfReferential(f) /\ ~shape[f].useAlter /\ keys[f] = None
        /\ shape[f].from \in tables
    BY <1>1, <1>2, <1>3 DEF Tracked, Running
  <1>5. /\ Add(f) /\ UNCHANGED <<shape, options, tables, refused>>
        /\ create' = [create EXCEPT !.hook = @ \ {f}]
    BY <1>4 DEF AddSelfReferential, AlterTableAdd
  <1>6. create' = [create EXCEPT !.hook = create.hook \ {f}, !.alters = create.alters]
    BY <1>2, <1>5 DEF Creation
  <1>7. /\ create.hook \ {f} \in SUBSET create.hook
        /\ create.hook \ (create.hook \ {f}) \subseteq {f}
        /\ create.alters \in SUBSET create.alters
        /\ create.alters \ create.alters \subseteq {f}
        /\ f \notin create.hook \ {f}
    OBVIOUS
  <1> QED
    BY <1>1, <1>4, <1>5, <1>6, <1>7, AddKeeps

\* The end: what is there already was added by the hook, on a table of a cycle.
LEMMA AddAtEndKeeps ==
    ASSUME IInv, NEW f \in ForeignKey, AddAtEnd(f)
    PROVE  IInv'
  <1>1. create # None /\ create.hook = {} /\ create.todo = {} /\ f \in create.alters
    BY DEF AddAtEnd
  <1>2. Running /\ AllTracked /\ create \in Creation
    BY <1>1, Typed DEF IInv
  <1>3. Tracked(f)
    BY <1>1, <1>2 DEF AllTracked
  <1>4. f \in AddedAtEnd(create.collection) /\ create.all /\ create.collection \subseteq tables
    BY <1>1, <1>2 DEF Running
  <1>5. shape[f].from \in tables
    BY <1>4 DEF AddedAtEnd
  <1>6. CASE keys[f] # None /\ Refuse(f)
    <2>1. SelfReferential(f) /\ ~shape[f].useAlter
      BY <1>1, <1>3, <1>6 DEF Tracked
    <2>2. OnCycle(shape[f].from, create.collection)
      BY <1>4, <2>1 DEF AddedAtEnd
    <2>3. create.collection \in SUBSET Table
      BY <1>2 DEF Creation
    <2>4. OnCycle(shape[f].from, Table)
      BY <2>2, <2>3, CycleGrows
    <2> QED
      BY <1>1, <1>4, <1>6, <2>1, <2>4, RefuseKeeps
  <1>7. CASE /\ Add(f) /\ UNCHANGED <<shape, options, tables, refused>>
             /\ create' = [create EXCEPT !.alters = @ \ {f}]
    <2> DEFINE hook == create.hook
               alters == create.alters \ {f}
    <2>1. create' = [create EXCEPT !.hook = hook, !.alters = alters]
      BY <1>2, <1>7 DEF Creation
    <2>2. hook \in SUBSET create.hook /\ alters \in SUBSET create.alters
      OBVIOUS
    <2>3. create.hook \ hook \subseteq {f} /\ create.alters \ alters \subseteq {f}
      OBVIOUS
    <2>4. f \notin hook /\ f \notin alters
      BY <1>1
    <2>5. create.alters # alters => create.todo = {}
      BY <1>1
    <2>6. Add(f) /\ UNCHANGED <<shape, options, tables, refused>>
      BY <1>7
    <2> HIDE DEF hook, alters
    <2> QED
      BY <1>1, <1>5, <2>1, <2>2, <2>3, <2>4, <2>5, <2>6, AddKeeps
  <1> QED
    BY <1>6, <1>7 DEF AddAtEnd, AlterTableAdd

\* Between creations only keys of tables that are there change.
LEMMA RestKeeps ==
    ASSUME IInv,
           \/ Created
           \/ \E t \in Table : DropTable(t)
           \/ \E f \in ForeignKey : Migrate(f) \/ \E choice \in Choice : Edit(f, choice)
    PROVE  IInv'
  <1>1. TypeOK /\ Placed /\ RefusedOnlyOnCycle
    BY DEF IInv
  <1> SUFFICES TypeOK' /\ Placed' /\ RefusedOnlyOnCycle' /\ create' = None
    BY DEF IInv, Running, AllTracked
  <1>3. shape' = shape /\ refused' = refused /\ create' = None /\ tables' \subseteq tables
    BY DEF Created, DropTable, Migrate, Edit
  <1>4. RefusedOnlyOnCycle'
    <2>2. SUFFICES ASSUME refused # None PROVE RefusedOnlyOnCycle'
      BY <1>3 DEF RefusedOnlyOnCycle
    <2>3. OnCycle(shape[refused.key].from, Table)' = OnCycle(shape[refused.key].from, Table)
      BY <1>3 DEF OnCycle, DependsOn, KeysOf
    <2> QED
      BY <1>1, <1>3, <2>2, <2>3 DEF RefusedOnlyOnCycle, SelfReferential
  <1>5. CASE Created
    BY <1>1, <1>3, <1>4, <1>5 DEF Created, TypeOK, Placed
  <1>6. ASSUME NEW t \in Table, DropTable(t)
        PROVE  TypeOK' /\ Placed'
    <2>1. /\ tables' = tables \ {t} /\ options' = options
          /\ keys' = [f \in ForeignKey |-> IF f \in KeysOf(t) THEN None ELSE keys[f]]
      BY <1>6 DEF DropTable
    <2>2. TypeOK'
      <3>1. keys' \in [ForeignKey -> {ActionColumn(c) : c \in Choice} \cup {None}]
        BY <1>1, <2>1 DEF TypeOK
      <3> QED
        BY <1>1, <1>3, <2>1, <3>1 DEF TypeOK
    <2>3. Placed'
      BY <1>1, <1>3, <2>1 DEF Placed, KeysOf
    <2> QED
      BY <2>2, <2>3
  <1>7. ASSUME NEW f \in ForeignKey, Migrate(f)
        PROVE  TypeOK' /\ Placed'
    <2>1. /\ tables' = tables /\ options' = options /\ keys[f] # None
          /\ keys' = [keys EXCEPT ![f] = ActionColumn(options[f])]
      BY <1>7 DEF Migrate, Add
    <2>2. ActionColumn(options[f]) \in {ActionColumn(c) : c \in Choice} \cup {None}
      BY <1>1, Typed
    <2>3. TypeOK'
      <3>1. keys' \in [ForeignKey -> {ActionColumn(c) : c \in Choice} \cup {None}]
        BY <1>1, <2>1, <2>2 DEF TypeOK
      <3> QED
        BY <1>1, <1>3, <2>1, <3>1 DEF TypeOK
    <2>4. Placed'
      BY <1>1, <1>3, <2>1 DEF Placed, TypeOK
    <2> QED
      BY <2>3, <2>4
  <1>8. ASSUME NEW f \in ForeignKey, NEW choice \in Choice, Edit(f, choice)
        PROVE  TypeOK' /\ Placed'
    BY <1>1, <1>3, <1>8 DEF Edit, TypeOK, Placed
  <1> QED
    BY <1>3, <1>4, <1>5, <1>6, <1>7, <1>8

LEMMA NextIInv == IInv /\ [Next]_vars => IInv'
  <1> SUFFICES ASSUME IInv, [Next]_vars PROVE IInv'
    OBVIOUS
  <1>1. CASE UNCHANGED vars
    <2>1. /\ shape' = shape /\ options' = options /\ tables' = tables
          /\ keys' = keys /\ create' = create /\ refused' = refused
      BY <1>1 DEF vars
    <2>2. TypeOK' = TypeOK /\ Placed' = Placed
      BY <2>1 DEF TypeOK, Placed
    <2>3. \A f : Tracked(f)' = Tracked(f)
      BY <2>1 DEF Tracked, SelfReferential
    <2>4. AddedAtEnd(create.collection)' = AddedAtEnd(create.collection)
      BY <2>1 DEF AddedAtEnd, OnCycle, DependsOn, KeysOf
    <2>5. OnCycle(shape[refused.key].from, Table)' = OnCycle(shape[refused.key].from, Table)
      BY <2>1 DEF OnCycle, DependsOn, KeysOf
    <2>6. SelfReferential(refused.key)' = SelfReferential(refused.key)
      BY <2>1 DEF SelfReferential
    <2>7. Running'
      BY <2>1, <2>4 DEF IInv, Running
    <2>8. AllTracked'
      BY <2>1, <2>3 DEF IInv, AllTracked
    <2>9. RefusedOnlyOnCycle'
      BY <2>1, <2>5, <2>6 DEF IInv, RefusedOnlyOnCycle
    <2> QED
      BY <2>2, <2>7, <2>8, <2>9 DEF IInv
  <1>2. CASE CreateAll
    <2>1. AddedAtEnd(Table \ tables) \subseteq AddedAtEnd(Table \ tables)
      OBVIOUS
    <2> QED
      BY <1>2, <2>1, StartKeeps DEF CreateAll
  <1>3. ASSUME NEW t \in Table, CreateOne(t) PROVE IInv'
    <2>1. {t} \in SUBSET (Table \ tables) /\ {} \subseteq AddedAtEnd({t})
      BY <1>3 DEF CreateOne
    <2> QED
      BY <1>3, <2>1, StartKeeps DEF CreateOne
  <1>4. ASSUME NEW t \in Table, CreateTable(t) PROVE IInv'
    BY <1>4, CreateTableKeeps
  <1>5. ASSUME NEW f \in ForeignKey, AddSelfReferential(f) PROVE IInv'
    BY <1>5, AddSelfReferentialKeeps
  <1>6. ASSUME NEW f \in ForeignKey, AddAtEnd(f) PROVE IInv'
    BY <1>6, AddAtEndKeeps
  <1>7. CASE \/ Created
             \/ \E t \in Table : DropTable(t)
             \/ \E f \in ForeignKey : Migrate(f) \/ \E choice \in Choice : Edit(f, choice)
    BY <1>7, RestKeeps
  <1> QED
    BY <1>1, <1>2, <1>3, <1>4, <1>5, <1>6, <1>7, Zenon DEF Next

LEMMA Invariance == Spec => []IInv
  BY InitIInv, NextIInv, PTL DEF Spec

\* Tables, keys, the running create() and the last refusal are well typed.
THEOREM TypeCorrect == Spec => []TypeOK
  <1>1. IInv => TypeOK
    BY DEF IInv
  <1> QED
    BY <1>1, Invariance, PTL

\* create_all() is refused nothing but a self-referential foreign key on a cycle,
\* which the hook and the end both add (ddl.py).
THEOREM RefusalsExplained == Spec => []RefusedOnlyOnCycle
  <1>1. IInv => RefusedOnlyOnCycle
    BY DEF IInv
  <1> QED
    BY <1>1, Invariance, PTL

\* Whichever way a foreign key was to go, it is there when create() returns.
THEOREM AllCreated == Spec => CreatedAsDeclared
  <1>1. IInv /\ [Next]_vars =>
            [Created => \A f \in ForeignKey :
                 /\ shape[f].from \in create.collection
                 /\ (shape[f].useAlter => create.all)
                 => keys[f] = ActionColumn(options[f])]_vars
    <2> SUFFICES ASSUME IInv, Created, NEW f \in ForeignKey,
                        shape[f].from \in create.collection,
                        shape[f].useAlter => create.all
                 PROVE  keys[f] = ActionColumn(options[f])
      OBVIOUS
    <2>1. create # None /\ create.hook = {} /\ create.todo = {} /\ create.alters = {}
      BY DEF Created
    <2>2. Tracked(f)
      BY <2>1 DEF IInv, AllTracked
    <2> QED
      BY <2>1, <2>2 DEF Tracked
  <1> QED
    BY <1>1, Invariance, PTL DEF Spec, CreatedAsDeclared
=============================================================================

------------------------- MODULE ArrowTransferProofs -------------------------
(***************************************************************************)
(* Everything the helpers do is SQLAlchemy's to commit or to roll back, a  *)
(* load through a Table keeps its constraints, and a Table is one place:   *)
(* for any schemas and translate maps and any number of loads.             *)
(***************************************************************************)
EXTENDS ArrowTransfer, TLAPS

Typed(v) == /\ v \in [Place -> Content]
            /\ \A p \in Place : v[p].made = "none" => v[p].rows = {}

\* What is rolled back to is a proper state of the tables, and under autocommit
\* no transaction is left incomplete or aborted.
IInv == /\ TypeOK
        /\ TransactionOwned
        /\ Typed(base)
        /\ autocommit => health = "ok"

\* What is known of an outcome of a statement: a table's state and a health.
Sound(o) == /\ Typed(o.v)
            /\ o.health \in {"ok", "incomplete", "aborted"}
            /\ autocommit => o.health = "ok"

-----------------------------------------------------------------------------
(* Loads.                                                                   *)

\* The state of one table replaced.
LEMMA Replaced ==
    ASSUME NEW v, Typed(v), NEW p \in Place, NEW c \in Content, c.made # "none"
    PROVE  Typed([v EXCEPT ![p] = c])
  <1> DEFINE w == [v EXCEPT ![p] = c]
  <1>1. w \in [Place -> Content] /\ w[p] = c /\ \A q \in Place \ {p} : w[q] = v[q]
    BY DEF Typed
  <1> HIDE DEF w
  <1>2. Typed(w)
    BY <1>1 DEF Typed
  <1> QED
    BY <1>2 DEF w

LEMMA Loads ==
    ASSUME IInv, NEW v, Typed(v), loads < MaxLoads,
           NEW p \in Place, NEW mode, NEW o \in Loaded(v, p, mode)
    PROVE  Sound(o)
  <1> DEFINE exists == v[p].made # "none"
             table == IF exists /\ mode # "replace" THEN v[p]
                      ELSE [made |-> "inferred", rows |-> {}]
             filled(windows) == [table EXCEPT !.rows = @ \cup ({loads + 1} \X windows)]
             With(windows) == [v EXCEPT ![p] = filled(windows)]
  <1>1. table \in Content /\ table.made # "none"
    BY DEF Content, Typed
  <1>2. loads + 1 \in 1 .. MaxLoads /\ AfterRefusal \in {"ok", "aborted"}
        /\ (autocommit => AfterRefusal = "ok")
    BY TransferAssumption DEF IInv, TypeOK, AfterRefusal
  <1>3. \/ o = [v |-> v, health |-> AfterRefusal]
        \/ o = [v |-> v, health |-> "ok"]
        \/ o = [v |-> With(Window), health |-> "ok"]
        \/ ~autocommit /\ o = [v |-> With({1}), health |-> "incomplete"]
    BY DEF Loaded
  <1> HIDE DEF table
  <1>4. ASSUME NEW windows \in SUBSET Window
        PROVE  filled(windows) \in Content /\ filled(windows).made # "none"
    BY <1>1, <1>2 DEF Content, Row
  <1>5. \A windows \in SUBSET Window : Typed(With(windows))
    BY <1>4, Replaced
  <1> HIDE DEF filled, With
  <1>6. Typed(With(Window)) /\ Typed(With({1}))
    BY <1>5 DEF Window
  <1>7. CASE o = [v |-> v, health |-> AfterRefusal] \/ o = [v |-> v, health |-> "ok"]
    BY <1>2, <1>7 DEF Sound
  <1>8. CASE o = [v |-> With(Window), health |-> "ok"]
    BY <1>6, <1>8 DEF Sound
  <1>9. CASE ~autocommit /\ o = [v |-> With({1}), health |-> "incomplete"]
    BY <1>6, <1>9 DEF Sound
  <1> QED
    BY <1>3, <1>7, <1>8, <1>9

\* A statement that ends soundly keeps the invariant.
LEMMA Ending ==
    ASSUME IInv, NEW o, Sound(o), Ends(o), Begin, loads' \in 0 .. MaxLoads,
           UNCHANGED <<map, autocommit, reader, answer>>
    PROVE  IInv'
  <1>1. view' = o.v /\ base' = (IF autocommit THEN o.v ELSE base)
        /\ health' = (IF o.health = "ok" THEN health ELSE o.health) /\ begun' = TRUE
    BY DEF Ends, Settled, Begin
  <1>2. TypeOK'
    BY <1>1 DEF IInv, TypeOK, Sound, Typed
  <1>3. Typed(base)'
    BY <1>1 DEF IInv, Sound, Typed
  <1> QED
    BY <1>1, <1>2, <1>3 DEF IInv, TransactionOwned, Sound

\* Every name is of a place, and table.create() puts an empty table there.
LEMMA Places ==
    ASSUME IInv, NEW s \in Schema \cup {Default}
    PROVE  /\ Translated(s) \in Place
           /\ \A p \in Place : Meant(p) \subseteq Place
           /\ s \in Place
  BY TransferAssumption DEF IInv, TypeOK, Translated, Meant, Place

LEMMA Created ==
    ASSUME IInv, NEW s \in Schema \cup {Default}
    PROVE  Typed([view EXCEPT ![Translated(s)] = [made |-> "declared", rows |-> {}]])
  <1> DEFINE c == [made |-> "declared", rows |-> {}]
  <1>1. c \in Content /\ c.made # "none" /\ Typed(view)
    BY DEF IInv, TypeOK, Typed, Content
  <1> HIDE DEF c
  <1>2. Translated(s) \in Place
    BY Places DEF IInv
  <1>3. Typed([view EXCEPT ![Translated(s)] = c])
    BY <1>1, <1>2, Replaced
  <1> QED
    BY <1>3 DEF c

-----------------------------------------------------------------------------
(* The steps.                                                               *)

LEMMA Initially == Init => IInv
  <1> SUFFICES ASSUME Init PROVE IInv
    OBVIOUS
  <1>1. \A p \in Place : base[p] = Missing /\ view[p] = Missing
    BY DEF Init
  <1>2. Missing \in Content /\ Missing.made = "none" /\ Missing.rows = {}
    BY DEF Missing, Content
  <1>4. Typed(base)
    BY <1>1, <1>2 DEF Init, Typed
  <1>5. base \in [Place -> Content] /\ view \in [Place -> Content] /\ base = view
    BY <1>2 DEF Init
  <1>6. loads \in 0 .. MaxLoads
    BY TransferAssumption DEF Init
  <1>7. TypeOK
    BY <1>1, <1>2, <1>5, <1>6 DEF Init, TypeOK
  <1> QED
    BY <1>7, <1>4 DEF Init, IInv, TransactionOwned

LEMMA Finishing == ASSUME IInv, Commit \/ Rollback PROVE IInv'
  <1>1. /\ UNCHANGED <<map, autocommit, loads, reader, answer>>
        /\ begun' = FALSE /\ health' = "ok" /\ view' = base'
        /\ base' = base \/ (base' = view /\ health = "ok")
    BY DEF Commit, Rollback
  <1>2. Typed(base')
    BY <1>1 DEF IInv, TypeOK, Typed
  <1>3. TypeOK'
    <2>1. reader = None
      BY DEF Commit, Rollback
    <2> QED
      BY <1>1, <1>2, <2>1 DEF IInv, TypeOK, Typed
  <1>4. TransactionOwned' /\ Typed(base)'
    BY <1>1, <1>2 DEF TransactionOwned, Typed
  <1> QED
    BY <1>1, <1>3, <1>4 DEF IInv

LEMMA Streaming == ASSUME IInv, FinishReader \/ CloseReader PROVE IInv'
  <1>1. UNCHANGED <<map, autocommit, begun, base, view, health, loads>>
        /\ reader' = None /\ answer' \in [place : Place, rows : SUBSET Row] \cup {None}
    BY DEF FinishReader, CloseReader, IInv, TypeOK, Content
  <1> QED
    BY <1>1 DEF IInv, TypeOK, TransactionOwned, Typed

LEMMA Reading ==
    ASSUME IInv, NEW fromTable \in BOOLEAN, NEW s \in Schema \cup {Default},
           NEW explicit \in BOOLEAN, NEW streamed \in BOOLEAN,
           Read(fromTable, s, explicit, streamed)
    PROVE  IInv'
  <1>1. UNCHANGED <<map, autocommit, base, view, loads>> /\ begun' = TRUE
    BY DEF Read, Begin
  <1>2. AfterRefusal \in {"ok", "aborted"} /\ (autocommit => AfterRefusal = "ok")
    BY DEF AfterRefusal
  <1>3. (IF fromTable THEN Compiled(s) ELSE s) \in Place
    BY Places DEF Compiled
  <1>4. Meant(IF fromTable THEN Compiled(s) ELSE s) \subseteq Place
    BY <1>3, Places
  <1>5. /\ health' \in {health, AfterRefusal}
        /\ reader' \in Place \cup {None}
        /\ answer' \in [place : Place, rows : SUBSET Row] \cup {None}
    <2>1. CASE (fromTable /\ explicit) \/ health = "aborted"
      BY <2>1 DEF Read, IInv, TypeOK
    <2>2. CASE ~((fromTable /\ explicit) \/ health = "aborted")
      <3>1. PICK p \in Meant(IF fromTable THEN Compiled(s) ELSE s) :
               IF view[p].made = "none"
               THEN health' = AfterRefusal /\ UNCHANGED <<reader, answer>>
               ELSE /\ reader' = IF streamed THEN p ELSE None
                    /\ answer' = IF streamed THEN answer ELSE [place |-> p, rows |-> view[p].rows]
                    /\ UNCHANGED health
        BY <2>2 DEF Read
      <3>2. p \in Place /\ view[p] \in Content
        BY <1>4, <3>1 DEF IInv, TypeOK
      <3>3. CASE view[p].made = "none"
        BY <3>1, <3>3 DEF AfterRefusal, IInv, TypeOK
      <3>4. CASE view[p].made # "none"
        BY <3>1, <3>2, <3>4 DEF Content, IInv, TypeOK
      <3> QED
        BY <3>3, <3>4
    <2> QED
      BY <2>1, <2>2
  <1>6. TypeOK'
    BY <1>1, <1>2, <1>5 DEF IInv, TypeOK
  <1>7. Typed(base)' /\ TransactionOwned'
    BY <1>1 DEF IInv, Typed, TransactionOwned
  <1>8. autocommit' => health' = "ok"
    BY <1>1, <1>2, <1>5 DEF IInv
  <1> QED
    BY <1>6, <1>7, <1>8 DEF IInv

LEMMA Ingesting == ASSUME IInv, NEW a \in Arguments, Ingest(a) PROVE IInv'
  <1>1. UNCHANGED <<map, autocommit, reader, answer>> /\ Begin /\ begun' = TRUE
    BY DEF Ingest, Begin
  <1>2. a.s \in Schema \cup {Default} /\ loads \in 0 .. MaxLoads
    BY DEF Arguments, IInv, TypeOK
  <1>3. Typed(view)
    BY DEF IInv, TypeOK, Typed
  <1>4. Typed(Prepared(a))
    BY <1>2, <1>3, Created DEF Prepared
  <1>5. CASE Rejected(a) \/ health = "aborted"
    <2>1. UNCHANGED <<base, view, health, loads>>
      BY <1>5 DEF Ingest
    <2> QED
      BY <1>1, <2>1 DEF IInv, TypeOK, TransactionOwned, Typed
  <1>6. CASE Ends([v |-> view, health |-> AfterRefusal]) /\ UNCHANGED loads
    <2>1. Sound([v |-> view, health |-> AfterRefusal])
      BY <1>3 DEF Sound, AfterRefusal
    <2> QED
      BY <1>1, <1>2, <1>6, <2>1, Ending
  <1>7. CASE Ends([v |-> Prepared(a), health |-> "ok"]) /\ UNCHANGED loads
    <2>1. Sound([v |-> Prepared(a), health |-> "ok"])
      BY <1>4 DEF Sound
    <2> QED
      BY <1>1, <1>2, <1>7, <2>1, Ending
  <1>8. CASE /\ loads < MaxLoads
             /\ \E p \in Targets(a) : \E o \in Loaded(Prepared(a), p, a.mode) : Ends(o)
             /\ loads' = loads + 1
    <2>0. PICK p \in Targets(a) : \E o \in Loaded(Prepared(a), p, a.mode) : Ends(o)
      BY <1>8
    <2>1. PICK o \in Loaded(Prepared(a), p, a.mode) : Ends(o)
      BY <2>0
    <2>2. p \in Place
      <3>1. SchemaName(a) \in Place
        BY <1>2, Places DEF SchemaName
      <3> QED
        BY <1>2, <2>0, <3>1, Places DEF Targets, Place
    <2>3. Sound(o)
      BY <1>4, <1>8, <2>1, <2>2, Loads
    <2>4. loads' \in 0 .. MaxLoads
      BY <1>2, <1>8, TransferAssumption
    <2> QED
      BY <1>1, <2>1, <2>3, <2>4, Ending
  <1> QED
    BY <1>5, <1>6, <1>7, <1>8 DEF Ingest

LEMMA Creating ==
    ASSUME IInv, NEW s \in Schema \cup {Default}, CreateTable(s)
    PROVE  IInv'
  <1> DEFINE v == [view EXCEPT ![Translated(s)] = [made |-> "declared", rows |-> {}]]
             o == [v |-> v, health |-> "ok"]
  <1>1. Sound(o)
    BY Created DEF Sound
  <1>2. Ends(o) /\ Begin /\ loads' \in 0 .. MaxLoads
        /\ UNCHANGED <<map, autocommit, reader, answer>>
    BY DEF CreateTable, Ends, IInv, TypeOK
  <1> QED
    BY <1>1, <1>2, Ending

LEMMA Invariance == Spec => []IInv
  <1>1. IInv /\ [Next]_vars => IInv'
    <2> SUFFICES ASSUME IInv, [Next]_vars PROVE IInv'
      OBVIOUS
    <2>1. CASE UNCHANGED vars
      BY <2>1 DEF vars, IInv, TypeOK, TransactionOwned, Typed
    <2>2. CASE Next
      BY <2>2, Finishing, Streaming, Ingesting, Creating, Reading
         DEF Next, FetchArrowTable, OpenReader
    <2> QED
      BY <2>1, <2>2
  <1> QED
    BY <1>1, Initially, PTL DEF Spec

-----------------------------------------------------------------------------
\* Tables, readers and answers stay well typed, an open reader is in a transaction
\* that SQLAlchemy knows of, and under autocommit the session sees what is
\* committed.
THEOREM TypeCorrect == Spec => []TypeOK
  <1>1. IInv => TypeOK
    BY DEF IInv
  <1> QED
    BY <1>1, Invariance, PTL

\* raw_adbc_connection: the driver does nothing outside SQLAlchemy's transaction.
THEOREM OwnedBySQLAlchemy == Spec => []TransactionOwned
  <1>1. IInv => TransactionOwned
    BY DEF IInv
  <1> QED
    BY <1>1, Invariance, PTL

-----------------------------------------------------------------------------
(* Constraints.                                                             *)

\* A load through a Table appends, to a table that is there or was made for it.
LEMMA TableAppends ==
    ASSUME IInv, NEW a \in Arguments, a.table, Ingest(a), ~Rejected(a), health # "aborted",
           ~(a.create /\ view[Translated(a.s)].made # "none"), NEW p \in Place
    PROVE  /\ view'[p].made = Prepared(a)[p].made
           /\ view'[p] = Prepared(a)[p] \/ Prepared(a)[p].made # "none"
  <1> DEFINE v == Prepared(a)
  <1>1. Typed(v) /\ v \in [Place -> Content]
    <2>1. a.s \in Schema \cup {Default}
      BY DEF Arguments
    <2> QED
      BY <2>1, Created DEF Prepared, IInv, TypeOK, Typed
  <1>2. CASE Ends([v |-> v, health |-> "ok"])
    <2> HIDE DEF v
    <2>1. view' = v
      BY <1>2 DEF Ends, Settled
    <2> QED
      BY <2>1 DEF v
  <1>3. CASE \E q \in Targets(a) : \E o \in Loaded(v, q, a.mode) : Ends(o)
    <2>1. a.mode = "append"
      BY DEF Rejected
    <2>2. PICK q \in Targets(a) : \E o \in Loaded(v, q, a.mode) : Ends(o)
      BY <1>3
    <2>3. PICK o \in Loaded(v, q, "append") : Ends(o)
      BY <2>1, <2>2
    <2> HIDE DEF v
    <2> DEFINE With(windows) ==
            [v EXCEPT ![q] = [v[q] EXCEPT !.rows = @ \cup ({loads + 1} \X windows)]]
    <2>4. view' = o.v
      BY <2>3 DEF Ends, Settled
    <2>5. \/ o.v = v
          \/ v[q].made # "none" /\ (o.v = With(Window) \/ o.v = With({1}))
      <3>1. \/ o = [v |-> v, health |-> AfterRefusal]
            \/ /\ v[q].made # "none"
               /\ \/ o = [v |-> v, health |-> "ok"]
                  \/ o = [v |-> With(Window), health |-> "ok"]
                  \/ o = [v |-> With({1}), health |-> "incomplete"]
        BY <2>3 DEF Loaded
      <3> HIDE DEF With
      <3> QED
        BY <3>1
    <2>6. ASSUME NEW windows, v[q].made # "none", o.v = With(windows)
          PROVE  /\ o.v[p].made = v[p].made
                 /\ o.v[p] = v[p] \/ v[p].made # "none"
      BY <1>1, <2>6 DEF Content
    <2> HIDE DEF With
    <2> QED
      BY <2>4, <2>5, <2>6 DEF v
  <1> QED
    BY <1>2, <1>3 DEF Ingest

LEMMA TableLoaded ==
    ASSUME IInv, NEW a \in Arguments, a.table, Ingest(a), NEW p \in Place, view'[p] # view[p]
    PROVE  view'[p].made = IF view[p].made = "none" THEN "declared" ELSE view[p].made
  <1> DEFINE exists == a.create /\ view[Translated(a.s)].made # "none"
  <1>1. ~(Rejected(a) \/ health = "aborted")
    BY DEF Ingest
  <1>2. ~exists
    <2> SUFFICES ASSUME exists PROVE view' = view
      OBVIOUS
    <2>1. Ends([v |-> view, health |-> AfterRefusal])
      BY <1>1 DEF Ingest
    <2> QED
      BY <2>1 DEF Ends, Settled
  <1>3. /\ view'[p].made = Prepared(a)[p].made
        /\ view'[p] = Prepared(a)[p] \/ Prepared(a)[p].made # "none"
    BY <1>1, <1>2, TableAppends
  <1>4. \/ Prepared(a)[p] = view[p]
        \/ view[p].made = "none" /\ Prepared(a)[p].made = "declared"
    <2>1. view \in [Place -> Content]
      BY DEF IInv, TypeOK
    <2>2. CASE a.create
      <3>1. Prepared(a) = [view EXCEPT ![Translated(a.s)] = [made |-> "declared", rows |-> {}]]
        BY <2>2 DEF Prepared
      <3>2. view[Translated(a.s)].made = "none"
        BY <1>2, <2>2
      <3> QED
        BY <2>1, <3>1, <3>2
    <2>3. CASE ~a.create
      BY <2>3 DEF Prepared
    <2> QED
      BY <2>2, <2>3
  <1> QED
    BY <1>3, <1>4

\* No load through a Table makes or replaces it with a table inferred from the
\* data, whatever the mode, the schema, create and temporary (ingest_arrow).
THEOREM TablesKeepConstraints == Spec => ConstraintsKept
  <1>1. IInv /\ [Next]_vars =>
          [\A p \in Place :
              /\ view'[p] # view[p]
              /\ view'[p].made # IF view[p].made = "none" THEN "declared" ELSE view[p].made
              => \A a \in Arguments : a.table => ~Ingest(a)]_vars
    BY TableLoaded
  <1> QED
    BY <1>1, Invariance, PTL DEF Spec, ConstraintsKept

-----------------------------------------------------------------------------
(* One place for a Table.                                                   *)

\* Where no temporary table has the name, create=True changes one table: the one
\* that table.create() makes.
LEMMA CreatedAndLoaded ==
    ASSUME IInv, view[Tmp].made = "none", NEW a \in Arguments, Ingest(a), a.create,
           NEW p \in Place, p # Translated(a.s)
    PROVE  view'[p] = view[p]
  <1> DEFINE t == Translated(a.s)
             c == [made |-> "declared", rows |-> {}]
  <1>1. t \in Place /\ Typed(view) /\ view \in [Place -> Content] /\ Typed(Prepared(a))
    <2>1. a.s \in Schema \cup {Default}
      BY DEF Arguments
    <2> QED
      BY <2>1, Places, Created DEF Prepared, IInv, TypeOK, Typed
  <1>2. Prepared(a)[p] = view[p]
    BY <1>1 DEF Prepared
  <1>3. CASE Rejected(a) \/ health = "aborted"
    BY <1>3 DEF Ingest
  <1>4. CASE Ends([v |-> view, health |-> AfterRefusal])
    BY <1>4 DEF Ends, Settled
  <1>5. CASE Ends([v |-> Prepared(a), health |-> "ok"])
    BY <1>2, <1>5 DEF Ends, Settled
  <1>6. CASE /\ ~Rejected(a)
             /\ \E q \in Targets(a) : \E o \in Loaded(Prepared(a), q, a.mode) : Ends(o)
    <2>1. PICK q \in Targets(a) : \E o \in Loaded(Prepared(a), q, a.mode) : Ends(o)
      BY <1>6
    <2>2. a.table /\ ~a.temporary
      BY <1>6 DEF Rejected
    <2>3. q = t
      BY <2>1, <2>2 DEF Targets, SchemaName, Meant
    <2>4. PICK o \in Loaded(Prepared(a), t, a.mode) : Ends(o)
      BY <2>1, <2>3
    <2>5. view' = o.v
      BY <2>4 DEF Ends, Settled
    <2>6. \E d : o.v \in {Prepared(a), [Prepared(a) EXCEPT ![t] = d]}
      <3> DEFINE v == Prepared(a)
                 exists == v[t].made # "none"
                 table == IF exists /\ a.mode # "replace" THEN v[t]
                          ELSE [made |-> "inferred", rows |-> {}]
                 With(windows) ==
                     [v EXCEPT ![t] = [table EXCEPT !.rows = @ \cup ({loads + 1} \X windows)]]
      <3>1. \/ o.v = v \/ o.v = With(Window) \/ o.v = With({1})
        <4>1. \/ o = [v |-> v, health |-> AfterRefusal]
              \/ o = [v |-> v, health |-> "ok"]
              \/ o = [v |-> With(Window), health |-> "ok"]
              \/ o = [v |-> With({1}), health |-> "incomplete"]
          BY <2>4 DEF Loaded
        <4> HIDE DEF With
        <4> QED
          BY <4>1
      <3> QED
        BY <3>1
    <2>7. o.v[p] = Prepared(a)[p]
      BY <1>1, <2>6 DEF Typed
    <2> QED
      BY <1>2, <2>5, <2>7
  <1> QED
    BY <1>3, <1>4, <1>5, <1>6 DEF Ingest

\* A Table that is read is the place its translated name means.
LEMMA ReadInPlace ==
    ASSUME view[Tmp].made = "none", NEW s \in Schema \cup {Default},
           answer' # answer, FetchArrowTable(TRUE, s, FALSE)
    PROVE  answer'.rows = view[Translated(s)].rows
  <1>1. PICK p \in Meant(Translated(s)) :
           answer' = [place |-> p, rows |-> view[p].rows]
    BY DEF FetchArrowTable, Read, Compiled
  <1>2. p = Translated(s)
    BY <1>1 DEF Meant
  <1> QED
    BY <1>1, <1>2

\* The DDL, the driver's load and the statements that read a Table mean one place,
\* whatever the translation: ingest_arrow, compile_arrow_statement.
THEOREM OnePlace == Spec => LoadedWhereCreated
  <1>1. IInv /\ [Next]_vars =>
          [view[Tmp].made = "none" =>
              /\ \A p \in Place : view'[p] # view[p] =>
                    \A a \in Arguments : a.create /\ p # Translated(a.s) => ~Ingest(a)
              /\ \A s \in Schema \cup {Default} :
                    answer' # answer /\ FetchArrowTable(TRUE, s, FALSE) =>
                        answer'.rows = view[Translated(s)].rows]_vars
    BY CreatedAndLoaded, ReadInPlace
  <1> QED
    BY <1>1, Invariance, PTL DEF Spec, LoadedWhereCreated
=============================================================================

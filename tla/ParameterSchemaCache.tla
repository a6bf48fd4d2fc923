------------------------ MODULE ParameterSchemaCache ------------------------
(***************************************************************************)
(* The Arrow schemas that bind parameters are sent under: do_execute and   *)
(* do_executemany of dialect.py, the ..._with_parameter_schema methods and *)
(* parameter_record_batch of base.py.                                      *)
(*                                                                         *)
(* One dialect, and so one cache, serves every thread of an engine.  The   *)
(* lock covers the lookup and the update, not what lies between: a batch   *)
(* is built, the statement prepared and executed on the thread's own       *)
(* session while other threads look the same statement up and remember     *)
(* schemas for it.                                                         *)
(***************************************************************************)
CONSTANTS Thread,
          Compiled,   \* compiled statements (the weak keys of the cache)
          Statement,  \* the texts one of them expands to
          Column, Kind, Type,
          Holds,      \* Holds[t]: the kinds of values an Arrow type represents
          Inferred,   \* Inferred[k]: the type pyarrow gives values of kind k
          Wide,       \* the kinds with an integer beyond int64
          Huge,       \* decimal128(38, 0) marked monetdb.hugeint
          Exact,      \* the schema the server prepares every statement to
          MayNotTell, \* whether the driver may tell no schema for a statement
          NoType,     \* pyarrow cannot infer a type (mixed values)
          None,       \* no schema, no batch, no statement
          Raises      \* the batch cannot be built

Schema == [Column -> Type]

\* One execution's parameters, by column; None: not rows of one width.
Values == [Column -> Kind] \cup {None}

ASSUME TypesAssumption == /\ Holds \in [Type -> SUBSET Kind]
                          /\ Inferred \in [Kind -> Type \cup {NoType}]
                          /\ Wide \subseteq Kind /\ Huge \in Type
                          /\ Exact \in Schema /\ MayNotTell \in BOOLEAN
ASSUME TokenAssumption == /\ NoType \notin Type
                          /\ {None, Raises} \cap Schema = {} /\ None # Raises
                          /\ None \notin [Column -> Kind]

\* What pyarrow infers represents the values; hugeint represents every wide one.
ASSUME InferenceAssumption ==
    /\ \A k \in Kind \ Wide : Inferred[k] # NoType => k \in Holds[Inferred[k]]
    /\ Wide \subseteq Holds[Huge]

VARIABLES cache,    \* MonetDBDialect._parameter_schemas
          thread,   \* what each thread is executing
          accepted  \* the threads whose batch the server has accepted

vars == <<cache, thread, accepted>>

Keys == Compiled \X Statement

ThreadType == [at : {"idle", "build", "prepare", "execute", "remember"},
               key : Keys \cup {None}, values : Values, schema : Schema \cup {None},
               batch : Schema \cup {None}]

TypeOK == /\ cache \in [Keys -> Schema \cup {None}]
          /\ thread \in [Thread -> ThreadType]
          /\ accepted \subseteq Thread

Idle == [at |-> "idle", key |-> None, values |-> None, schema |-> None,
         batch |-> None]

Init == /\ cache = [k \in Keys |-> None]
        /\ thread = [t \in Thread |-> Idle]
        /\ accepted = {}

-----------------------------------------------------------------------------
(* parameter_record_batch: the schema of the batch built from values under  *)
(* schema.                                                                  *)

Represents(schema, values) == \A c \in Column : values[c] \in Holds[schema[c]]

\* Mutant of InferredBatch: a column of unknown type is sent all the same.
InferredBatchUnchecked(values) == [c \in Column |-> Inferred[values[c]]]

InferredBatch(values) ==
    IF \E c \in Column : Inferred[values[c]] = NoType THEN Raises
    ELSE [c \in Column |-> Inferred[values[c]]]

\* A wide column is sent as hugeint; a column that is not keeps the type that
\* schema gives it, and there is no falling back when it does not fit.
WideBatch(values, schema) ==
    LET typed == [c \in Column |->
                    IF values[c] \in Wide THEN Huge
                    ELSE IF schema = None THEN Inferred[values[c]]
                    ELSE schema[c]]
    IN IF \A c \in Column : typed[c] # NoType /\ values[c] \in Holds[typed[c]]
       THEN typed ELSE Raises

\* Mutant of BatchSchema: the schema is taken to hold whatever comes.
BatchSchemaUnchecked(values, schema) ==
    IF values = None THEN None
    ELSE IF \E c \in Column : values[c] \in Wide THEN WideBatch(values, schema)
    ELSE IF schema = None THEN InferredBatch(values)
    ELSE schema

BatchSchema(values, schema) ==
    IF values = None THEN None
    ELSE IF \E c \in Column : values[c] \in Wide THEN WideBatch(values, schema)
    ELSE IF schema = None \/ ~Represents(schema, values) THEN InferredBatch(values)
    ELSE schema

-----------------------------------------------------------------------------
(* One execution of a compiled statement.                                   *)

Return(t) == /\ thread' = [thread EXCEPT ![t] = Idle]
             /\ accepted' = accepted \ {t}

Proceed(t, at) == thread' = [thread EXCEPT ![t].at = at]

\* _parameter_schema, under the lock
Lookup(t, k, values) ==
    /\ thread[t].at = "idle"
    /\ thread' = [thread EXCEPT ![t] = [at |-> "build", key |-> k, values |-> values,
                                        schema |-> cache[k], batch |-> None]]
    /\ UNCHANGED <<cache, accepted>>

\* The batch is built, by inference when the cache had no schema; parameters
\* that make no batch are executed as they are, and nothing is remembered.
Build(t) ==
    /\ thread[t].at = "build"
    /\ LET b == BatchSchema(thread[t].values, thread[t].schema)
       IN IF b \in {None, Raises} THEN Return(t)
          ELSE /\ thread' = [thread EXCEPT ![t].batch = b,
                               ![t].at = IF thread[t].schema = None
                                         THEN "prepare" ELSE "execute"]
               /\ UNCHANGED accepted
    /\ UNCHANGED cache

\* adbc_prepare raises, or tells no schema, or tells the exact one, for which
\* the batch is built again.
Prepare(t) ==
    /\ thread[t].at = "prepare"
    /\ LET b == BatchSchema(thread[t].values, Exact)
       IN \/ Return(t)
          \/ MayNotTell /\ Proceed(t, "execute") /\ UNCHANGED accepted
          \/ /\ b # Raises
             /\ thread' = [thread EXCEPT ![t].batch = b, ![t].at = "execute"]
             /\ UNCHANGED accepted
    /\ UNCHANGED cache

Rejected(t) == Return(t)

\* The server accepts the batch, or the call raises and nothing is remembered.
Execute(t) ==
    /\ thread[t].at = "execute"
    /\ \/ IF thread[t].batch = thread[t].schema
          THEN Return(t)
          ELSE Proceed(t, "remember") /\ accepted' = accepted \cup {t}
       \/ Rejected(t)
    /\ UNCHANGED cache

\* Mutant of Remembered: the compiled statement gets a new dictionary.
RememberedAlone(k, s) == [j \in Keys |-> IF j = k THEN s
                                         ELSE IF j[1] = k[1] THEN None
                                         ELSE cache[j]]

Remembered(k, s) == [cache EXCEPT ![k] = s]

\* _remember_parameter_schema, under the lock; the last one to come wins.
Remember(t) ==
    /\ thread[t].at = "remember"
    /\ cache' = Remembered(thread[t].key, thread[t].batch)
    /\ Return(t)

Using(c) == \E t \in Thread, s \in Statement : thread[t].key = <<c, s>>

\* Nobody refers to a compiled statement any more: its entries go with it.
Collected(c) ==
    /\ ~Using(c)
    /\ cache' = [k \in Keys |-> IF k[1] = c THEN None ELSE cache[k]]
    /\ UNCHANGED <<thread, accepted>>

Next == \/ \E t \in Thread : \/ \E k \in Keys, v \in Values : Lookup(t, k, v)
                             \/ Build(t) \/ Prepare(t) \/ Execute(t) \/ Remember(t)
        \/ \E c \in Compiled : Collected(c)

Spec == Init /\ [][Next]_vars

-----------------------------------------------------------------------------
(* Properties.                                                              *)

\* A batch that is sent represents its values, whichever schema another thread
\* or an earlier execution with other values has left in the cache.
BatchHoldsValues ==
    \A t \in Thread : thread[t].at = "execute" => Represents(thread[t].batch, thread[t].values)

\* Only a schema that the server has accepted for a statement is remembered for
\* it: a statement that failed does not decide how the next one is sent.
\* What one thread remembered is not dropped by another: entries go only with
\* their compiled statement, which nobody is executing then.
RememberedJustly ==
    [][\A k \in Keys :
          /\ cache'[k] \notin {cache[k], None} =>
                \E t \in accepted : thread[t].key = k /\ thread[t].batch = cache'[k]
          /\ cache[k] # None /\ cache'[k] = None =>
                ~Using(k[1]) /\ \A s \in Statement : cache'[<<k[1], s>>] = None]_vars

=============================================================================

---------------------- MODULE ParameterSchemaCacheProofs ----------------------
(***************************************************************************)
(* However the threads of an engine share the cache: what is sent holds    *)
(* its values, and what is remembered was accepted.                        *)
(***************************************************************************)
EXTENDS ParameterSchemaCache, TLAPS

\* A thread that has built a batch keeps values and batch together, and one that
\* is about to remember its batch is one whose batch was accepted.
Sending ==
    \A t \in Thread : thread[t].at \in {"prepare", "execute", "remember"} =>
        /\ thread[t].values # None /\ thread[t].batch \in Schema
        /\ Represents(thread[t].batch, thread[t].values)

Accepted == \A t \in Thread : thread[t].at = "remember" => t \in accepted

IInv == TypeOK /\ Sending /\ Accepted

-----------------------------------------------------------------------------
(* parameter_record_batch.                                                  *)

LEMMA InferredFits ==
    ASSUME NEW values \in [Column -> Kind], \A c \in Column : values[c] \notin Wide,
           InferredBatch(values) # Raises
    PROVE  InferredBatch(values) \in Schema /\ Represents(InferredBatch(values), values)
  <1>1. /\ \A c \in Column : Inferred[values[c]] # NoType
        /\ InferredBatch(values) = [c \in Column |-> Inferred[values[c]]]
    BY DEF InferredBatch
  <1>2. \A c \in Column : values[c] \in Kind \ Wide /\ Inferred[values[c]] \in Type
    BY <1>1, TypesAssumption
  <1>3. \A c \in Column : values[c] \in Holds[Inferred[values[c]]]
    BY <1>1, <1>2, InferenceAssumption
  <1> QED
    BY <1>1, <1>2, <1>3 DEF Schema, Represents

LEMMA WideFits ==
    ASSUME NEW values \in [Column -> Kind], NEW schema \in Schema \cup {None},
           WideBatch(values, schema) # Raises
    PROVE  /\ WideBatch(values, schema) \in Schema
           /\ Represents(WideBatch(values, schema), values)
  <1> DEFINE type(c) == IF values[c] \in Wide THEN Huge
                        ELSE IF schema = None THEN Inferred[values[c]] ELSE schema[c]
             typed == [c \in Column |-> type(c)]
  <1>1. /\ WideBatch(values, schema) = typed
        /\ \A c \in Column : typed[c] # NoType /\ values[c] \in Holds[typed[c]]
    BY DEF WideBatch
  <1>2. \A c \in Column : type(c) # NoType => type(c) \in Type
    BY TypesAssumption DEF Schema
  <1>3. typed \in Schema
    BY <1>1, <1>2 DEF Schema
  <1> QED
    BY <1>1, <1>3 DEF Represents

LEMMA BatchFits ==
    ASSUME NEW values \in Values, NEW schema \in Schema \cup {None},
           BatchSchema(values, schema) # Raises, values # None
    PROVE  /\ BatchSchema(values, schema) \in Schema
           /\ Represents(BatchSchema(values, schema), values)
  <1>1. values \in [Column -> Kind]
    BY DEF Values
  <1>2. CASE \E c \in Column : values[c] \in Wide
    <2>1. BatchSchema(values, schema) = WideBatch(values, schema)
      BY <1>2 DEF BatchSchema
    <2> QED
      BY <1>1, <2>1, WideFits
  <1>3. CASE \A c \in Column : values[c] \notin Wide
    <2>1. CASE schema = None \/ ~Represents(schema, values)
      <3>1. BatchSchema(values, schema) = InferredBatch(values)
        BY <1>3, <2>1 DEF BatchSchema
      <3> QED
        BY <1>1, <1>3, <3>1, InferredFits
    <2>2. CASE schema # None /\ Represents(schema, values)
      BY <1>3, <2>2 DEF BatchSchema
    <2> QED
      BY <2>1, <2>2
  <1> QED
    BY <1>2, <1>3

-----------------------------------------------------------------------------
(* The steps.                                                               *)

\* What a thread's step must leave for the invariant to hold.
LEMMA ThreadStep ==
    ASSUME IInv, NEW t \in Thread, NEW r \in ThreadType,
           thread' = [thread EXCEPT ![t] = r],
           cache' \in [Keys -> Schema \cup {None}],
           accepted' \subseteq Thread, accepted \ {t} \subseteq accepted',
           r.at \in {"prepare", "execute", "remember"} =>
               r.values # None /\ r.batch \in Schema /\ Represents(r.batch, r.values),
           r.at = "remember" => t \in accepted'
    PROVE  IInv'
  <1>1. thread'[t] = r /\ \A u \in Thread \ {t} : thread'[u] = thread[u]
    BY DEF IInv, TypeOK
  <1>2. TypeOK'
    BY <1>1 DEF IInv, TypeOK
  <1>3. Sending'
    <2> SUFFICES ASSUME NEW u \in Thread, thread'[u].at \in {"prepare", "execute", "remember"}
                 PROVE  /\ thread'[u].values # None /\ thread'[u].batch \in Schema
                        /\ Represents(thread'[u].batch, thread'[u].values)
      BY DEF Sending, Represents
    <2>1. CASE u = t
      BY <1>1, <2>1 DEF Represents
    <2>2. CASE u # t
      BY <1>1, <2>2 DEF IInv, Sending, Represents
    <2> QED
      BY <2>1, <2>2
  <1>4. Accepted'
    BY <1>1 DEF IInv, Accepted
  <1> QED
    BY <1>2, <1>3, <1>4 DEF IInv

LEMMA IdleFields == Idle \in ThreadType /\ Idle.at = "idle"
  BY DEF Idle, ThreadType, Values

LEMMA Returning ==
    ASSUME IInv, NEW t \in Thread, Return(t), cache' \in [Keys -> Schema \cup {None}]
    PROVE  IInv'
  <1>1. thread' = [thread EXCEPT ![t] = Idle] /\ accepted' = accepted \ {t}
    BY DEF Return
  <1>2. accepted' \subseteq Thread
    BY <1>1 DEF IInv, TypeOK
  <1> QED
    BY <1>1, <1>2, IdleFields, ThreadStep

LEMMA LookingUp ==
    ASSUME IInv, NEW t \in Thread, NEW k \in Keys, NEW v \in Values, Lookup(t, k, v)
    PROVE  IInv'
  <1> DEFINE r == [at |-> "build", key |-> k, values |-> v, schema |-> cache[k], batch |-> None]
  <1>1. r \in ThreadType /\ r.at = "build"
    BY DEF ThreadType, IInv, TypeOK
  <1>2. thread' = [thread EXCEPT ![t] = r] /\ cache' = cache /\ accepted' = accepted
    BY DEF Lookup
  <1>3. cache' \in [Keys -> Schema \cup {None}] /\ accepted' \subseteq Thread
    BY <1>2 DEF IInv, TypeOK
  <1> HIDE DEF r
  <1> QED
    BY <1>1, <1>2, <1>3, ThreadStep

\* A thread that has a batch goes on with it.
LEMMA Proceeding ==
    ASSUME IInv, NEW t \in Thread, NEW b \in Schema, NEW at \in {"prepare", "execute", "remember"},
           thread' = [thread EXCEPT ![t] = [thread[t] EXCEPT !.batch = b, !.at = at]],
           thread[t].values # None, Represents(b, thread[t].values), UNCHANGED cache,
           accepted' = accepted \/ accepted' = accepted \cup {t},
           at = "remember" => t \in accepted'
    PROVE  IInv'
  <1> DEFINE r == [thread[t] EXCEPT !.batch = b, !.at = at]
  <1>1. /\ r \in ThreadType /\ r.at = at /\ r.batch = b
        /\ r.values = thread[t].values
    BY DEF ThreadType, IInv, TypeOK
  <1>2. cache' \in [Keys -> Schema \cup {None}] /\ accepted' \subseteq Thread
    BY DEF IInv, TypeOK
  <1> HIDE DEF r
  <1>3. thread' = [thread EXCEPT ![t] = r]
    BY DEF r
  <1> QED
    BY <1>1, <1>2, <1>3, ThreadStep

LEMMA Building == ASSUME IInv, NEW t \in Thread, Build(t) PROVE IInv'
  <1> DEFINE b == BatchSchema(thread[t].values, thread[t].schema)
             at == IF thread[t].schema = None THEN "prepare" ELSE "execute"
  <1>1. thread[t].values \in Values /\ thread[t].schema \in Schema \cup {None}
        /\ cache' = cache /\ cache' \in [Keys -> Schema \cup {None}] /\ thread[t] \in ThreadType
    BY DEF Build, IInv, TypeOK, ThreadType
  <1>2. CASE b \in {None, Raises}
    BY <1>1, <1>2, Returning DEF Build
  <1>3. CASE b \notin {None, Raises}
    <2>1. thread[t].values # None
      BY <1>3 DEF BatchSchema
    <2>2. b \in Schema /\ Represents(b, thread[t].values)
      BY <1>1, <1>3, <2>1, BatchFits
    <2>3. thread' = [thread EXCEPT ![t].batch = b, ![t].at = at] /\ accepted' = accepted
      BY <1>3 DEF Build
    <2>4. thread' = [thread EXCEPT ![t] = [thread[t] EXCEPT !.batch = b, !.at = at]]
      BY <2>3 DEF IInv, TypeOK
    <2>5. at \in {"prepare", "execute", "remember"} /\ at # "remember"
      OBVIOUS
    <2> HIDE DEF b, at
    <2> QED
      BY <1>1, <2>1, <2>2, <2>3, <2>4, <2>5, Proceeding
  <1> QED
    BY <1>2, <1>3

\* Proceed leaves the batch as it is.
LEMMA ProceedShape ==
    ASSUME IInv, NEW t \in Thread, NEW at, Proceed(t, at)
    PROVE  thread' = [thread EXCEPT ![t] = [thread[t] EXCEPT !.batch = thread[t].batch, !.at = at]]
  <1>1. thread' = [thread EXCEPT ![t] = [thread[t] EXCEPT !.at = at]] /\ thread[t] \in ThreadType
    BY DEF Proceed, IInv, TypeOK
  <1>2. [thread[t] EXCEPT !.batch = thread[t].batch, !.at = at] = [thread[t] EXCEPT !.at = at]
    BY <1>1 DEF ThreadType
  <1> QED
    BY <1>1, <1>2

LEMMA Preparing == ASSUME IInv, NEW t \in Thread, Prepare(t) PROVE IInv'
  <1> DEFINE b == BatchSchema(thread[t].values, Exact)
  <1>1. /\ thread[t].values \in Values /\ cache' = cache /\ thread[t].values # None
        /\ cache' \in [Keys -> Schema \cup {None}]
        /\ thread[t].batch \in Schema /\ Represents(thread[t].batch, thread[t].values)
    BY DEF Prepare, IInv, TypeOK, ThreadType, Sending
  <1>2. CASE Return(t)
    BY <1>1, <1>2, Returning
  <1>3. CASE Proceed(t, "execute") /\ accepted' = accepted
    <2>1. thread' = [thread EXCEPT ![t] =
                       [thread[t] EXCEPT !.batch = thread[t].batch, !.at = "execute"]]
      BY <1>3, ProceedShape
    <2> QED
      BY <1>1, <1>3, <2>1, Proceeding
  <1>4. CASE /\ b # Raises /\ accepted' = accepted
             /\ thread' = [thread EXCEPT ![t].batch = b, ![t].at = "execute"]
    <2>1. b \in Schema /\ Represents(b, thread[t].values)
      BY <1>1, <1>4, BatchFits, TypesAssumption
    <2>2. thread' = [thread EXCEPT ![t] = [thread[t] EXCEPT !.batch = b, !.at = "execute"]]
      BY <1>4 DEF IInv, TypeOK
    <2> HIDE DEF b
    <2> QED
      BY <1>1, <1>4, <2>1, <2>2, Proceeding
  <1> QED
    BY <1>2, <1>3, <1>4 DEF Prepare

LEMMA Executing == ASSUME IInv, NEW t \in Thread, Execute(t) PROVE IInv'
  <1>1. /\ cache' = cache /\ thread[t].values # None
        /\ cache' \in [Keys -> Schema \cup {None}]
        /\ thread[t].batch \in Schema /\ Represents(thread[t].batch, thread[t].values)
    BY DEF Execute, IInv, TypeOK, Sending
  <1>2. CASE Return(t)
    BY <1>1, <1>2, Returning
  <1>3. CASE Proceed(t, "remember") /\ accepted' = accepted \cup {t}
    <2>1. thread' = [thread EXCEPT ![t] =
                       [thread[t] EXCEPT !.batch = thread[t].batch, !.at = "remember"]]
      BY <1>3, ProceedShape
    <2> QED
      BY <1>1, <1>3, <2>1, Proceeding
  <1> QED
    BY <1>2, <1>3 DEF Execute, Rejected

LEMMA Remembering == ASSUME IInv, NEW t \in Thread, Remember(t) PROVE IInv'
  <1>1. cache' = [cache EXCEPT ![thread[t].key] = thread[t].batch] /\ Return(t)
    BY DEF Remember, Remembered
  <1>2. thread[t].batch \in Schema \cup {None}
    BY DEF IInv, TypeOK, ThreadType
  <1>3. cache' \in [Keys -> Schema \cup {None}]
    BY <1>1, <1>2 DEF IInv, TypeOK
  <1> QED
    BY <1>1, <1>3, Returning

LEMMA Collecting == ASSUME IInv, NEW c \in Compiled, Collected(c) PROVE IInv'
  <1>1. cache' \in [Keys -> Schema \cup {None}] /\ UNCHANGED <<thread, accepted>>
    BY DEF Collected, IInv, TypeOK
  <1> QED
    BY <1>1 DEF IInv, TypeOK, Sending, Accepted, Represents

LEMMA Initially == Init => IInv
  <1> SUFFICES ASSUME Init PROVE IInv
    OBVIOUS
  <1>1. \A t \in Thread : thread[t] = Idle
    BY DEF Init
  <1>2. TypeOK
    BY IdleFields DEF Init, TypeOK
  <1> QED
    BY <1>1, <1>2, IdleFields DEF IInv, Sending, Accepted

LEMMA Inductive == IInv /\ [Next]_vars => IInv'
  <1> SUFFICES ASSUME IInv, [Next]_vars PROVE IInv'
    OBVIOUS
  <1>1. CASE UNCHANGED vars
    BY <1>1 DEF vars, IInv, TypeOK, Sending, Accepted, Represents
  <1>2. CASE Next
    BY <1>2, LookingUp, Building, Preparing, Executing, Remembering, Collecting DEF Next
  <1> QED
    BY <1>1, <1>2

LEMMA Invariance == Spec => []IInv
  BY Initially, Inductive, PTL DEF Spec

-----------------------------------------------------------------------------
\* The cache and what the threads hold of it stay well typed.
THEOREM TypeCorrect == Spec => []TypeOK
  <1>1. IInv => TypeOK
    BY DEF IInv
  <1> QED
    BY <1>1, Invariance, PTL

\* No batch is executed under a schema that cannot hold its values, whichever
\* thread cached it and for whichever values.
THEOREM BatchesHoldValues == Spec => []BatchHoldsValues
  <1>1. IInv => BatchHoldsValues
    BY DEF IInv, Sending, BatchHoldsValues
  <1> QED
    BY <1>1, Invariance, PTL

-----------------------------------------------------------------------------
(* What is remembered.                                                      *)

\* A step of a thread that does not remember, and Collected, only lose entries.
LEMMA RememberJustly ==
    ASSUME IInv, NEW t \in Thread, Remember(t), NEW k \in Keys
    PROVE  /\ cache'[k] \notin {cache[k], None} =>
                \E u \in accepted : thread[u].key = k /\ thread[u].batch = cache'[k]
           /\ ~(cache[k] # None /\ cache'[k] = None)
  <1>1. cache' = [cache EXCEPT ![thread[t].key] = thread[t].batch]
        /\ t \in accepted /\ thread[t].batch \in Schema /\ thread[t].batch # None
    BY TokenAssumption DEF Remember, Remembered, IInv, Sending, Accepted
  <1>2. cache'[k] = IF k = thread[t].key THEN thread[t].batch ELSE cache[k]
    BY <1>1 DEF IInv, TypeOK
  <1> QED
    BY <1>1, <1>2

LEMMA CollectJustly ==
    ASSUME IInv, NEW c \in Compiled, Collected(c), NEW k \in Keys
    PROVE  /\ cache'[k] \in {cache[k], None}
           /\ cache[k] # None /\ cache'[k] = None =>
                ~Using(k[1]) /\ \A s \in Statement : cache'[<<k[1], s>>] = None
  <1>1. ~Using(c) /\ cache' = [j \in Keys |-> IF j[1] = c THEN None ELSE cache[j]]
    BY DEF Collected
  <1>2. \A j \in Keys : cache'[j] = IF j[1] = c THEN None ELSE cache[j]
    BY <1>1
  <1>3. \A s \in Statement : <<c, s>> \in Keys /\ <<c, s>>[1] = c
    BY DEF Keys
  <1> QED
    BY <1>1, <1>2, <1>3

\* Only accepted schemas are remembered, and none is lost while its compiled
\* statement is in use: _remember_parameter_schema under the lock.
THEOREM OnlyAcceptedRemembered == Spec => RememberedJustly
  <1>1. IInv /\ [Next]_vars =>
          [\A k \in Keys :
              /\ cache'[k] \notin {cache[k], None} =>
                    \E t \in accepted : thread[t].key = k /\ thread[t].batch = cache'[k]
              /\ cache[k] # None /\ cache'[k] = None =>
                    ~Using(k[1]) /\ \A s \in Statement : cache'[<<k[1], s>>] = None]_vars
    <2> SUFFICES ASSUME IInv, Next, NEW k \in Keys
                 PROVE  /\ cache'[k] \notin {cache[k], None} =>
                              \E t \in accepted : thread[t].key = k /\ thread[t].batch = cache'[k]
                        /\ cache[k] # None /\ cache'[k] = None =>
                              ~Using(k[1]) /\ \A s \in Statement : cache'[<<k[1], s>>] = None
      OBVIOUS
    <2>1. CASE cache' = cache
      BY <2>1
    <2>2. ASSUME NEW t \in Thread, Remember(t)
          PROVE  /\ cache'[k] \notin {cache[k], None} =>
                       \E u \in accepted : thread[u].key = k /\ thread[u].batch = cache'[k]
                 /\ ~(cache[k] # None /\ cache'[k] = None)
      BY <2>2, RememberJustly
    <2>3. ASSUME NEW c \in Compiled, Collected(c)
          PROVE  /\ cache'[k] \in {cache[k], None}
                 /\ cache[k] # None /\ cache'[k] = None =>
                       ~Using(k[1]) /\ \A s \in Statement : cache'[<<k[1], s>>] = None
      BY <2>3, CollectJustly
    <2>4. \/ cache' = cache
          \/ \E t \in Thread : Remember(t)
          \/ \E c \in Compiled : Collected(c)
      BY DEF Next, Lookup, Build, Prepare, Execute
    <2> QED
      BY <2>1, <2>2, <2>3, <2>4
  <1> QED
    BY <1>1, Invariance, PTL DEF Spec, RememberedJustly
=============================================================================

---------------------------- MODULE SessionPool ----------------------------
(***************************************************************************)
(* Workers (threads of an application) that use SQLAlchemy connections     *)
(* over a QueuePool of MonetDB sessions.                                   *)
(*                                                                         *)
(* What the repository contributes is the wrapper and the dialect hooks of *)
(* MonetDBConnection, called here at the points where SQLAlchemy calls     *)
(* them, and the Arrow helpers (Ingest), whose errors SQLAlchemy never     *)
(* sees.  The pool and the transaction states of SQLAlchemy's Connection   *)
(* are external: they are modelled from how the dialect is called.         *)
(*                                                                         *)
(* A worker's call is one action: a session belongs to one worker at a     *)
(* time, so nothing can act on it during the call, except a failure of its *)
(* transport, which the operators of MonetDBConnection allow at the one    *)
(* point where it matters (inside commit) and TransportFails anywhere else.*)
(***************************************************************************)
EXTENDS MonetDBConnection, Naturals, FiniteSets

CONSTANTS Worker,
          Session,     \* the slots of the pool: pool_size + max_overflow
          PoolSize,    \* pool_size: the slots kept when idle
          PrePing,     \* pool_pre_ping
          NoSession, NoUnit

ASSUME NoSessionAssumption == NoSession \notin Session
ASSUME NoUnitAssumption == NoUnit \notin Unit
ASSUME PoolAssumption == PoolSize \in Nat /\ PrePing \in BOOLEAN

VARIABLES sess,    \* [Session -> Conn]: the session in each slot of the pool
          idle,    \* the slots in the queue of the pool
          lost,    \* slots whose check-in raised: in use by nobody, for ever
          stale,   \* slots whose session the pool was told not to trust
          conn,    \* the SQLAlchemy Connection of each worker
          verdict, \* what the application was told about each unit
          wrote,   \* the units with a write that succeeded
          db       \* the units that are durable

vars == <<sess, idle, lost, stale, conn, verdict, wrote, db>>

\* phase     in: no connection; out: in use; closing: close() raised, and the
\*           connection is only waiting to be closed again or collected
\* at        the slot, or NoSession once SQLAlchemy invalidated it
\* sa        the RootTransaction: none, active, or inactive (commit failed)
\* unit      the unit of work of the transaction
\* isolated  AUTOCOMMIT was requested: the level is restored at check-in
ConnType == [phase : {"in", "out", "closing"}, at : Session \cup {NoSession},
             sa : {"none", "active", "inactive"}, unit : Unit \cup {NoUnit},
             isolated : BOOLEAN]

Away == [phase |-> "in", at |-> NoSession, sa |-> "none", unit |-> NoUnit,
         isolated |-> FALSE]

Verdict == {"unused", "running", "committed", "rolledback", "failed",
            "unknown", "unsettled"}

TypeOK == /\ sess \in [Session -> Conn]
          /\ idle \subseteq Session
          /\ lost \subseteq Session
          /\ stale \subseteq Session
          /\ conn \in [Worker -> ConnType]
          /\ verdict \in [Unit -> Verdict]
          /\ wrote \subseteq Unit
          /\ db \subseteq Unit

Held == {conn[w].at : w \in Worker} \ {NoSession}
Free == Session \ (idle \cup lost \cup Held)

Init == /\ sess = [s \in Session |-> Absent]
        /\ idle = {} /\ lost = {} /\ stale = {}
        /\ conn = [w \in Worker |-> Away]
        /\ verdict = [u \in Unit |-> "unused"]
        /\ wrote = {} /\ db = {}

-----------------------------------------------------------------------------
(* Effects shared by the actions.                                          *)

\* The worker's unit gets its verdict.
Settle(w, v) ==
    verdict' = IF conn[w].unit = NoUnit THEN verdict
               ELSE [verdict EXCEPT ![conn[w].unit] = v]

\* The slot goes back to the queue, or is closed when the queue is full.
PutBack(s, c) ==
    IF Cardinality(idle) < PoolSize
    THEN idle' = idle \cup {s} /\ sess' = [sess EXCEPT ![s] = c]
    ELSE /\ UNCHANGED idle
         /\ \E k \in Close(c) : sess' = [sess EXCEPT ![s] = k.c]

\* pool._invalidate: every session opened so far is suspect, unless this one
\* is from before an earlier failure that already said so.
Distrust(s) == IF s \in stale THEN stale ELSE Session

\* SQLAlchemy's reaction to an error on a session that the dialect calls
\* disconnected: the session is closed and its slot returns without one.
Disconnect(s, c) ==
    /\ \E k \in Close(c) : PutBack(s, k.c)
    /\ stale' = Distrust(s)

\* An exception of the session reaches SQLAlchemy's error handler: the session
\* is kept, or given up.  next is the worker's connection when it is kept.
HandleError(w, o, next) ==
    IF IsDisconnect(o.err, o.c)
    THEN /\ Disconnect(conn[w].at, o.c)
         /\ conn' = [conn EXCEPT ![w] = [next EXCEPT !.at = NoSession]]
    ELSE /\ sess' = [sess EXCEPT ![conn[w].at] = o.c]
         /\ conn' = [conn EXCEPT ![w] = next]
         /\ UNCHANGED <<idle, stale>>

\* Check-in: the isolation level is restored and the slot returned.  When the
\* restoration raises, close() raises and the slot never comes back.
CheckIn(w, c) ==
    LET s == conn[w].at
        Restored == IF conn[w].isolated THEN SetIsolationLevel(c, "SERIALIZABLE")
                                        ELSE {Outcome(c, "ok", {})}
    IN /\ UNCHANGED stale
       /\ \E f \in Restored :
            /\ db' = db \cup f.saved
            /\ \/ /\ f.err = "ok"
                  /\ PutBack(s, f.c)
                  /\ conn' = [conn EXCEPT ![w] = Away]
                  /\ UNCHANGED lost
               \/ /\ f.err # "ok"
                  /\ sess' = [sess EXCEPT ![s] = f.c]
                  /\ lost' = lost \cup {s}
                  /\ conn' = [conn EXCEPT ![w] =
                                [Away EXCEPT !.phase = "closing"]]
                  /\ UNCHANGED idle

-----------------------------------------------------------------------------
(* Checking out.                                                           *)

Occupy(w, s) == conn' = [conn EXCEPT ![w] = [Away EXCEPT !.phase = "out", !.at = s]]

\* No idle slot: the pool grows.
CheckoutNew(w, s) ==
    /\ conn[w].phase = "in" /\ idle = {} /\ s \in Free
    /\ Occupy(w, s)
    /\ sess' = [sess EXCEPT ![s] = Fresh]
    /\ stale' = stale \ {s}
    /\ UNCHANGED <<idle, lost, verdict, wrote, db>>

TakeIdle(w, s) ==
    /\ conn[w].phase = "in" /\ s \in idle
    /\ idle' = idle \ {s}
    /\ Occupy(w, s)
    /\ UNCHANGED <<lost, verdict, wrote, db>>

Recycled(s) == Closed(sess[s]) \/ s \in stale

\* An idle slot without a session, or with a suspect one, is connected anew.
CheckoutRecycled(w, s) ==
    /\ TakeIdle(w, s)
    /\ Recycled(s)
    /\ sess' = [sess EXCEPT ![s] = Fresh]
    /\ stale' = stale \ {s}

CheckoutIdle(w, s) ==
    /\ TakeIdle(w, s)
    /\ ~Recycled(s)
    /\ \/ ~PrePing /\ UNCHANGED <<sess, stale>>
       \/ /\ PrePing
          /\ \E p \in DoPing(sess[s]) :
               \/ /\ p.err = "ok"
                  /\ sess' = [sess EXCEPT ![s] = p.c]
                  /\ UNCHANGED stale
               \/ /\ p.err # "ok" /\ IsDisconnect(p.err, p.c)
                  /\ sess' = [sess EXCEPT ![s] = Fresh]
                  /\ stale' = Distrust(s) \ {s}

-----------------------------------------------------------------------------
(* Working.                                                                *)

InUse(w) == conn[w].phase = "out" /\ conn[w].at # NoSession

\* execution_options(isolation_level="AUTOCOMMIT"): refused by SQLAlchemy
\* inside a transaction; an exception of the session reaches the caller as is.
RequestAutocommit(w) ==
    /\ InUse(w) /\ conn[w].sa # "active" /\ ~conn[w].isolated
    /\ \E o \in SetIsolationLevel(sess[conn[w].at], "AUTOCOMMIT") :
         /\ sess' = [sess EXCEPT ![conn[w].at] = o.c]
         /\ db' = db \cup o.saved
         /\ conn' = [conn EXCEPT ![w].isolated = (o.err = "ok")]
    /\ UNCHANGED <<idle, lost, stale, verdict, wrote>>

\* The unit a statement belongs to: a transaction's first one begins a unit;
\* a write under autocommit belongs to none.
UnitsFor(w) ==
    IF conn[w].unit # NoUnit THEN {conn[w].unit}
    ELSE IF Autocommit(sess[conn[w].at]) THEN {NoUnit}
    ELSE {u \in Unit : verdict[u] = "unused"}

\* SQLAlchemy begins its transaction (autobegin, or raw_adbc_connection's
\* begin()); while the last one failed to commit, begin() raises instead.
Begun(w, u) ==
    /\ InUse(w) /\ conn[w].sa # "inactive"
    /\ verdict' = IF u = NoUnit THEN verdict ELSE [verdict EXCEPT ![u] = "running"]

Active(w, u) == [conn[w] EXCEPT !.sa = "active", !.unit = u]

Written(u, o) ==
    wrote' = IF u # NoUnit /\ o.err = "ok" THEN wrote \cup {u} ELSE wrote

\* A statement executed by SQLAlchemy.
Execute(w, u) ==
    /\ Begun(w, u) /\ u \in UnitsFor(w)
    /\ \E o \in RawExecute(sess[conn[w].at], {u} \ {NoUnit}) :
         /\ Written(u, o)
         /\ HandleError(w, o, Active(w, u))
    /\ UNCHANGED <<lost, db>>

\* ingest_arrow (and the other Arrow helpers) run on the driver's connection:
\* a failure poisons the transaction or finds the session dead, and SQLAlchemy
\* hears of neither.
Ingest(w, u) ==
    /\ Begun(w, u) /\ u \in UnitsFor(w)
    /\ \E o \in RawExecute(sess[conn[w].at], {u} \ {NoUnit}) :
         /\ Written(u, o)
         /\ sess' = [sess EXCEPT ![conn[w].at] = o.c]
    /\ conn' = [conn EXCEPT ![w] = Active(w, u)]
    /\ UNCHANGED <<idle, lost, stale, db>>

\* START TRANSACTION as a statement, under autocommit.
StartTransaction(w, u) ==
    /\ Begun(w, u) /\ conn[w].unit = NoUnit /\ verdict[u] = "unused"
    /\ Autocommit(sess[conn[w].at])
    /\ \E o \in RawBegin(sess[conn[w].at]) : HandleError(w, o, Active(w, u))
    /\ UNCHANGED <<lost, wrote, db>>

-----------------------------------------------------------------------------
(* Ending the transaction and the connection.                              *)

Ended(w, sa) == [conn[w] EXCEPT !.sa = sa, !.unit = NoUnit]

\* Connection.commit().  Unless do_commit returns, the transaction stays,
\* inactive: SQLAlchemy will not touch the session again on its behalf.
CommitUnit(w) ==
    /\ InUse(w) /\ conn[w].sa = "active"
    /\ \E o \in Commit(sess[conn[w].at]) :
         /\ db' = db \cup o.saved
         /\ \/ /\ o.err = "ok"
               /\ Settle(w, "committed")
               /\ sess' = [sess EXCEPT ![conn[w].at] = o.c]
               /\ conn' = [conn EXCEPT ![w] = Ended(w, "none")]
               /\ UNCHANGED <<idle, stale>>
            \/ /\ o.err \in {"state25", "conflict"}
               /\ Settle(w, "failed")
               /\ HandleError(w, o, Ended(w, "inactive"))
            \/ /\ o.err \in {"terminal", "io"}
               /\ Settle(w, "unknown")
               /\ HandleError(w, o, Ended(w, "inactive"))
    /\ UNCHANGED <<lost, wrote>>

\* do_rollback on behalf of the active transaction.  next is the worker's
\* connection should the rollback raise.
RollbackRaises(w, o, next) ==
    /\ o.err # "ok"
    /\ Settle(w, IF o.err = "refused" THEN "unsettled" ELSE "rolledback")
    /\ HandleError(w, o, next)

\* Connection.rollback()
RollbackUnit(w) ==
    /\ InUse(w)
    /\ \/ /\ conn[w].sa = "active"
          /\ \E o \in Rollback(sess[conn[w].at]) :
               \/ /\ o.err = "ok"
                  /\ Settle(w, "rolledback")
                  /\ sess' = [sess EXCEPT ![conn[w].at] = o.c]
                  /\ conn' = [conn EXCEPT ![w] = Ended(w, "none")]
                  /\ UNCHANGED <<idle, stale>>
               \/ RollbackRaises(w, o, Ended(w, "none"))
       \/ /\ conn[w].sa = "inactive"
          /\ conn' = [conn EXCEPT ![w].sa = "none"]
          /\ UNCHANGED <<sess, idle, stale, verdict>>
    /\ UNCHANGED <<lost, wrote, db>>

\* The pool's own reset of a session that comes back without a transaction of
\* SQLAlchemy's to end; a session that cannot be reset is closed.
ResetAndCheckIn(w) ==
    \E o \in Rollback(sess[conn[w].at]) :
       \/ /\ o.err = "ok"
          /\ CheckIn(w, o.c)
       \/ /\ o.err # "ok"
          /\ \E k \in Close(o.c) : PutBack(conn[w].at, k.c)
          /\ conn' = [conn EXCEPT ![w] = Away]
          /\ UNCHANGED <<lost, stale, db>>

\* Connection.close()
CloseConnection(w) ==
    /\ conn[w].phase # "in"
    /\ \/ /\ conn[w].at = NoSession
          /\ Settle(w, "rolledback")
          /\ conn' = [conn EXCEPT ![w] = Away]
          /\ UNCHANGED <<sess, idle, lost, stale, db>>
       \/ /\ conn[w].at # NoSession /\ conn[w].sa = "active"
          /\ \E o \in Rollback(sess[conn[w].at]) :
               \/ /\ o.err = "ok"
                  /\ Settle(w, "rolledback")
                  /\ CheckIn(w, o.c)
               \/ /\ RollbackRaises(w, o, [Ended(w, "none") EXCEPT !.phase = "closing"])
                  /\ UNCHANGED <<lost, db>>
       \/ /\ conn[w].at # NoSession /\ conn[w].sa = "inactive"
          /\ CheckIn(w, sess[conn[w].at])
          /\ UNCHANGED verdict
       \/ /\ conn[w].at # NoSession /\ conn[w].sa = "none"
          /\ ResetAndCheckIn(w)
          /\ UNCHANGED verdict
    /\ UNCHANGED wrote

\* The Connection is collected without having been closed: the pool resets the
\* session whatever SQLAlchemy's transaction was.
Collected(w) ==
    /\ conn[w].phase # "in" /\ conn[w].at # NoSession
    /\ Settle(w, "rolledback")
    /\ ResetAndCheckIn(w)
    /\ UNCHANGED wrote

\* The transport of a session fails; nobody notices until it is used.
TransportFails(s) ==
    /\ sess[s].st = "live"
    /\ sess' = [sess EXCEPT ![s] = Lose(@)]
    /\ UNCHANGED <<idle, lost, stale, conn, verdict, wrote, db>>

-----------------------------------------------------------------------------
Checkout(w) == \E s \in Session : \/ CheckoutNew(w, s)
                                  \/ CheckoutRecycled(w, s)
                                  \/ CheckoutIdle(w, s)

Work(w) == \/ RequestAutocommit(w)
           \/ \E u \in Unit \cup {NoUnit} : Execute(w, u) \/ Ingest(w, u)
           \/ \E u \in Unit : StartTransaction(w, u)
           \/ CommitUnit(w) \/ RollbackUnit(w)

Next == \/ \E w \in Worker : \/ Checkout(w) \/ Work(w)
                             \/ CloseConnection(w) \/ Collected(w)
        \/ \E s \in Session : TransportFails(s)

Spec == Init /\ [][Next]_vars

\* An application that closes what it opens: with-blocks, or collection.
FairSpec == Spec /\ \A w \in Worker : WF_vars(CloseConnection(w))

-----------------------------------------------------------------------------
(* Properties.                                                             *)

\* A wrapper that calls itself closed has let go of the server's session, whether
\* its user closed it, the cleanup of a commit did, or rollback() found it dead:
\* nobody will close it again.
NothingLeaked == TypeOK /\ \A s \in Session : Closed(sess[s]) => sess[s].st # "live"

\* A session waiting in the pool carries nothing over to its next user: if it
\* is usable at all, it has no transaction, no uncommitted work, and manual
\* commit, whatever its last user did (wrapper rollback, commit cleanup,
\* isolation level restored at check-in).
IdleClean ==
    \A s \in idle : sess[s].st = "live" =>
        sess[s].txn = "none" /\ sess[s].work = {} /\ ~sess[s].auto

\* Work the application was told is undone, or whose commit it was told
\* failed, is never durable: no later commit on the same session, by this
\* worker or the next one, carries it along.
NoResurrection ==
    \A u \in db : verdict[u] \in {"committed", "unknown", "unsettled"}

\* A unit reported as committed is durable.  The hard case is the wrapper's
\* commit() that does nothing because autocommit looks on.
Durability ==
    \A u \in wrote : verdict[u] = "committed" => u \in db

\* After a failed commit SQLAlchemy returns the session to the pool without a
\* reset, so the dialect must leave no transaction behind (README: "the pool
\* and SQLAlchemy then agree that no transaction remains").
FailedCommitEndsTransaction ==
    \A w \in Worker : conn[w].at # NoSession /\ conn[w].sa = "inactive" =>
        sess[conn[w].at].txn = "none" /\ sess[conn[w].at].work = {}

\* Uncommitted work on a session is its holder's own running unit, apart from
\* a unit whose rollback the server refused: two workers never write into one
\* transaction.
OwnWorkOnly ==
    \A s \in Session : \A u \in sess[s].work :
        \/ verdict[u] = "unsettled"
        \/ \E w \in Worker : conn[w].at = s /\ conn[w].unit = u /\ verdict[u] = "running"

\* A slot is lost to the pool only when a session in autocommit mode died and
\* restoring its isolation level at check-in was the first to notice.
LostOnlyToDeadAutocommit ==
    \A s \in lost : sess[s].st = "dead" /\ sess[s].auto

\* A session found dead by whoever returns it does not go back to the queue.
\* The exception is a session that died after its commit failed: SQLAlchemy
\* returns that one without touching it.  With pool_pre_ping, what the pool
\* hands out is alive, holds nobody's work and is in manual commit mode.
DeadNotPooled ==
    [][/\ \A s \in idle' \ idle : sess'[s].st = "dead" =>
             \E w \in Worker : conn[w].at = s /\ conn[w].sa = "inactive"
       /\ \A w \in Worker : PrePing /\ conn[w].phase = "in" /\ conn'[w].phase = "out" =>
             LET c == sess'[conn'[w].at]
             IN c.st = "live" /\ c.work = {} /\ ~c.auto /\ c.txn # "poisoned"]_vars

\* A session is taken from a worker only for a reason: it was dead, or died
\* during commit(), or was poisoned and could not be rolled back.  A commit
\* conflict (40001) never costs a healthy session.
GivenUp(w) == /\ conn[w].phase = "out" /\ conn[w].at # NoSession
              /\ conn'[w].phase = "out" /\ conn'[w].at = NoSession

InvalidationJustified ==
    [][\A w \in Worker : GivenUp(w) =>
          \/ sess[conn[w].at].st = "dead"
          \/ sess[conn[w].at].txn = "poisoned"
          \/ \E u \in Unit : verdict'[u] = "unknown" /\ verdict[u] # "unknown"]_vars

\* Whatever fails, a connection that is being closed does get closed.
Returned == \A w \in Worker : (conn[w].phase # "in") ~> (conn[w].phase = "in")

UOW == INSTANCE UnitOfWork WITH Unit <- Unit, verdict <- verdict, wrote <- wrote, db <- db

\* The sessions, the pool and the wrapper implement the abstract contract.
Implements == UOW!Spec
=============================================================================

------------------------- MODULE MonetDBConnection -------------------------
(***************************************************************************)
(* One physical MonetDB session and the DB-API wrapper around it           *)
(* (connection.py, and the hooks of dialect.py that act on one session).   *)
(*                                                                         *)
(* The module has no variables: an operation maps a session to the set of  *)
(* its outcomes, so that SessionPool can put the session of any worker     *)
(* through it.  The Raw... operators are the ADBC driver and the server,   *)
(* which are not part of the repository: they are what the wrapper's       *)
(* error handling and the integration tests take them to do.               *)
(***************************************************************************)

CONSTANT Unit    \* units of work: what one SQLAlchemy transaction writes

(***************************************************************************)
(* st      live, dead (transport lost or terminal protocol error) or       *)
(*         released (raw_connection.close() was called)                    *)
(* auto    the driver's autocommit mode                                    *)
(* txn     the transaction as the driver last saw it; poisoned: a failed   *)
(*         statement or ingest has made its commit impossible (25xxx)      *)
(* work    the uncommitted units the server holds for this session         *)
(* closed, defunct   MonetDBConnection._closed and ._defunct               *)
(***************************************************************************)
Conn == [st : {"live", "dead", "released"}, auto : BOOLEAN,
         txn : {"none", "open", "poisoned"}, work : SUBSET Unit,
         closed : BOOLEAN, defunct : BOOLEAN]

\* MonetDBDialect.connect: a new session in manual mode behind a new wrapper.
Fresh == [st |-> "live", auto |-> FALSE, txn |-> "none", work |-> {},
          closed |-> FALSE, defunct |-> FALSE]

\* A slot of the pool that holds no session.
Absent == [Fresh EXCEPT !.st = "released", !.closed = TRUE, !.defunct = TRUE]

\* ok, or how the exception looks to the wrapper and to is_disconnect:
\* terminal (the terminal detail), io (status IO), state25 (INVALID_STATE with
\* SQLSTATE 25xxx), conflict (40001), stmt and refused (any other error).
Errors == {"ok", "terminal", "io", "state25", "conflict", "stmt", "refused"}

Outcomes == [c : Conn, err : Errors, saved : SUBSET Unit]

\* saved: the units the server made durable during the call
Outcome(c, e, s) == [c |-> c, err |-> e, saved |-> s]

Lose(c)   == [c EXCEPT !.st = "dead", !.work = {}]
EndTxn(c) == [c EXCEPT !.txn = "none", !.work = {}]

-----------------------------------------------------------------------------
(* The driver and the server.                                              *)

RawFail(c) == {Outcome(c, e, {}) : e \in {"terminal", "io"}}

\* A commit that loses the transport may or may not have been applied.
RawCommit(c) ==
    IF c.st # "live" THEN RawFail(c)
    ELSE IF c.txn = "poisoned" THEN {Outcome(c, "state25", {})}
    ELSE {Outcome(EndTxn(c), "ok", c.work)}
         \cup {Outcome(EndTxn(c), "conflict", {}) : u \in c.work}
         \cup {Outcome(Lose(c), e, s) : e \in {"terminal", "io"},
                                        s \in {{}, c.work}}

RawRollback(c) ==
    IF c.st # "live" THEN RawFail(c)
    ELSE {Outcome(EndTxn(c), "ok", {}), Outcome(c, "refused", {})}

\* The session is released whatever close() reports.
RawClose(c) ==
    {Outcome([c EXCEPT !.st = "released", !.work = {}], e, {}) :
        e \in {"ok", "terminal", "io", "refused"}}

\* Changing the mode ends the transaction in progress by committing it.
RawSetAutocommit(c, value) ==
    {[o EXCEPT !.c.auto = IF o.err = "ok" THEN value ELSE @] : o \in RawCommit(c)}

\* A statement or an ingest that writes us.  In autocommit mode without a
\* transaction the write is durable at once and is not tracked; otherwise it
\* joins (or opens) the transaction.  A failure is undone or poisons the
\* transaction (a failed direct ingest leaves one that still accepts statements).
RawExecute(c, us) ==
    IF c.st # "live" THEN RawFail(c)
    ELSE IF c.txn = "poisoned"
         THEN {Outcome(c, "state25", {}), Outcome([c EXCEPT !.work = @ \cup us], "ok", {})}
    ELSE IF c.auto /\ c.txn = "none"
         THEN {Outcome(c, "ok", {}), Outcome(c, "stmt", {})}
         ELSE {Outcome([c EXCEPT !.txn = "open", !.work = @ \cup us], "ok", {}),
               Outcome([c EXCEPT !.txn = "open"], "stmt", {}),
               Outcome([c EXCEPT !.txn = "poisoned"], "stmt", {})}

\* A START TRANSACTION sent as a statement to a session in autocommit mode.
RawBegin(c) ==
    IF c.st # "live" THEN RawFail(c)
    ELSE {Outcome([c EXCEPT !.txn = "open"], "ok", {})}

-----------------------------------------------------------------------------
(* MonetDBConnection.                                                      *)

\* The autocommit property asks the driver, which answers for the state the
\* server reported last: an explicit transaction suspends autocommit.
Autocommit(c) == c.auto /\ c.txn = "none"

Closed(c) == c.closed \/ c.defunct

IsTerminal(e) == e = "terminal"

Close(c) ==
    IF c.closed THEN {Outcome(c, "ok", {})}
    ELSE {Outcome([o.c EXCEPT !.closed = TRUE, !.defunct = TRUE],
                  IF IsTerminal(o.err) THEN "ok" ELSE o.err, {}) : o \in RawClose(c)}

\* Mutants of CommitCleanup: the transaction is left as it is; the session whose
\* rollback failed is not closed; it is only marked closed.
NoCleanup(c) == {Outcome(c, "state25", {})}
CleanupWithoutClose(c) == {Outcome(r.c, "state25", {}) : r \in RawRollback(c)}
CleanupMarksClosed(c) ==
    {Outcome([r.c EXCEPT !.closed = r.err # "ok"], "state25", {}) : r \in RawRollback(c)}

\* After a 25xxx refusal the wrapper rolls back, and closes the session when
\* that fails too; the refusal is what the caller sees in every case.
CommitCleanup(c) ==
    {Outcome(r.c, "state25", {}) : r \in {r \in RawRollback(c) : r.err = "ok"}}
    \cup UNION {{Outcome(k.c, "state25", {}) : k \in Close(r.c)} :
                    r \in {r \in RawRollback(c) : r.err # "ok"}}

\* Mutant of Commit: asks for the mode, not for the state of the server.
CommitByMode(c) ==
    IF c.auto THEN {Outcome(c, "ok", {})}
    ELSE {o \in RawCommit(c) : o.err # "state25"}
         \cup UNION {CommitCleanup(o.c) : o \in {o \in RawCommit(c) : o.err = "state25"}}

Commit(c) ==
    IF Autocommit(c) THEN {Outcome(c, "ok", {})}
    ELSE {o \in RawCommit(c) : o.err # "state25"}
         \cup UNION {CommitCleanup(o.c) : o \in {o \in RawCommit(c) : o.err = "state25"}}

\* Mutants of Rollback: asks for the mode; swallows a refusal; swallows the
\* errors of a dead session; waits for a dead session to answer.
RollbackByMode(c) ==
    IF Closed(c) \/ c.auto THEN {Outcome(c, "ok", {})}
    ELSE {[o EXCEPT !.c.defunct = @ \/ IsTerminal(o.err)] : o \in RawRollback(c)}
RollbackIgnoresRefusal(c) ==
    IF Closed(c) \/ Autocommit(c) THEN {Outcome(c, "ok", {})}
    ELSE {[o EXCEPT !.err = IF @ = "refused" THEN "ok" ELSE @] : o \in RawRollback(c)}
RollbackIgnoresTerminal(c) ==
    IF Closed(c) \/ Autocommit(c) THEN {Outcome(c, "ok", {})}
    ELSE {[o EXCEPT !.err = IF IsTerminal(@) THEN "ok" ELSE @] : o \in RawRollback(c)}
RollbackWaits(c) ==
    IF Closed(c) \/ Autocommit(c) THEN {Outcome(c, "ok", {})}
    ELSE {o \in RawRollback(c) : c.st = "live"}

Rollback(c) ==
    IF Closed(c) \/ Autocommit(c) THEN {Outcome(c, "ok", {})}
    ELSE {[o EXCEPT !.c.defunct = @ \/ IsTerminal(o.err)] : o \in RawRollback(c)}

SetAutocommit(c, value) ==
    IF Autocommit(c) = value THEN {Outcome(c, "ok", {})}
    ELSE RawSetAutocommit(c, value)

-----------------------------------------------------------------------------
(* MonetDBDialect: the hooks that act on one session.                      *)

\* Mutant: the default level is set by a statement, which MonetDB rejects.
SetSerializableByStatement(c, level) ==
    IF level = "AUTOCOMMIT" THEN SetAutocommit(c, TRUE)
    ELSE {Outcome(c, "refused", {})}

SetIsolationLevel(c, level) == SetAutocommit(c, level = "AUTOCOMMIT")

\* SELECT 1; in manual mode it opens a transaction that nobody asked for.
DoPing(c) ==
    IF c.st # "live" THEN RawFail(c)
    ELSE {Outcome([c EXCEPT !.txn = IF c.auto THEN @ ELSE "open"], "ok", {})}

\* Mutant of IsDisconnect: every error of commit() is taken for a lost session.
ConflictDisconnects(e, c) == e = "conflict" \/ e = "io" \/ IsTerminal(e) \/ Closed(c)

\* Whether SQLAlchemy gives the session up on error e.
IsDisconnect(e, c) == e = "io" \/ IsTerminal(e) \/ Closed(c)
=============================================================================

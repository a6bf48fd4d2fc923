------------------------- MODULE SessionPoolProofs -------------------------
(***************************************************************************)
(* The safety invariants of SessionPool, for any number of workers, slots  *)
(* and units of work.                                                      *)
(*                                                                         *)
(* IdleClean and NoResurrection are not inductive: that a session comes    *)
(* back clean depends on who held it (Ownership), on the isolation level   *)
(* being restored whenever it was changed (IsolationTracked), and on the   *)
(* state in which a failed commit leaves the session.  IInv collects what  *)
(* is needed.  The first part is about one session: what each operation of *)
(* MonetDBConnection guarantees whatever the driver does.                  *)
(***************************************************************************)
EXTENDS SessionPool, TLAPS

-----------------------------------------------------------------------------
(* One session: the contracts of the operations of MonetDBConnection.     *)

\* A session that is not usable, or has no transaction, holds no work.
SessionOK(c) == /\ c.st # "live" \/ c.txn = "none" => c.work = {}
                /\ Closed(c) => c.st # "live"

\* A session fit for the queue: given up, or without a transaction if it is
\* usable, and in manual commit mode.
Clean(c) == Closed(c) \/ (~c.auto /\ (c.st = "live" => c.txn = "none" /\ c.work = {}))


\* The facts about Outcome that keep its definition out of the proofs below.
LEMMA OutcomeFields ==
    ASSUME NEW c, NEW e, NEW s
    PROVE  Outcome(c, e, s).c = c /\ Outcome(c, e, s).err = e /\ Outcome(c, e, s).saved = s
  BY DEF Outcome

\* close(): whatever the driver reports, the session is gone.
LEMMA CloseContract ==
    ASSUME NEW c \in Conn, SessionOK(c), NEW k \in Close(c)
    PROVE  /\ k.c \in Conn /\ SessionOK(k.c) /\ Closed(k.c)
           /\ k.c.st # "live" /\ k.c.auto = c.auto
  <1>1. CASE c.closed
    BY <1>1, OutcomeFields DEF Conn, SessionOK, Closed, Close
  <1>2. CASE ~c.closed
    <2>1. PICK o \in RawClose(c) :
            k = Outcome([o.c EXCEPT !.closed = TRUE, !.defunct = TRUE],
                        IF IsTerminal(o.err) THEN "ok" ELSE o.err, {})
      BY <1>2 DEF Close
    <2>2. o.c = [c EXCEPT !.st = "released", !.work = {}]
      BY <2>1, OutcomeFields DEF RawClose
    <2>3. k.c = [o.c EXCEPT !.closed = TRUE, !.defunct = TRUE]
      BY <2>1, OutcomeFields
    <2>4. k.c = [c EXCEPT !.st = "released", !.work = {}, !.closed = TRUE, !.defunct = TRUE]
      BY <2>2, <2>3 DEF Conn
    <2> QED
      BY <2>4 DEF Conn, SessionOK, Closed
  <1> QED
    BY <1>1, <1>2

\* rollback(): when it returns, no transaction remains; when it raises an
\* error that is not refused, the session is gone.
LEMMA RollbackContract ==
    ASSUME NEW c \in Conn, SessionOK(c), NEW o \in Rollback(c)
    PROVE  /\ o.c \in Conn /\ SessionOK(o.c)
           /\ o.c.auto = c.auto /\ o.c.work \subseteq c.work
           /\ o.err \in {"ok", "terminal", "io", "refused"}
           /\ o.err = "ok" => o.c.work = {} /\ (Closed(o.c) \/ o.c.txn = "none")
           /\ o.err \in {"terminal", "io"} => o.c.st # "live"
  <1>1. CASE Closed(c) \/ Autocommit(c)
    BY <1>1 DEF Conn, SessionOK, Autocommit, Rollback, Outcome
  <1>2. CASE ~(Closed(c) \/ Autocommit(c))
    <2>1. PICK r \in RawRollback(c) :
            o = [r EXCEPT !.c.defunct = @ \/ IsTerminal(r.err)]
      BY <1>2 DEF Rollback
    <2>2. CASE c.st # "live"
      <3>1. r.c = c /\ r.err \in {"terminal", "io"} /\ r = Outcome(c, r.err, {})
        BY <2>1, <2>2 DEF RawRollback, RawFail, Outcome
      <3>2. o.c = [c EXCEPT !.defunct = @ \/ IsTerminal(r.err)] /\ o.err = r.err
        BY <2>1, <3>1 DEF Outcome
      <3>3. o.c \in Conn
        BY <3>2 DEF Conn, IsTerminal
      <3> QED
        BY <2>2, <3>1, <3>2, <3>3 DEF Conn, SessionOK
    <2>3. CASE c.st = "live" /\ r = Outcome(EndTxn(c), "ok", {})
      <3>1. o.c = [EndTxn(c) EXCEPT !.defunct = @ \/ FALSE] /\ o.err = "ok"
        BY <2>1, <2>3 DEF Outcome, IsTerminal
      <3> QED
        BY <1>2, <2>3, <3>1 DEF Conn, SessionOK, Closed, EndTxn
    <2>4. CASE c.st = "live" /\ r = Outcome(c, "refused", {})
      <3>1. o.c = [c EXCEPT !.defunct = @ \/ FALSE] /\ o.err = "refused"
        BY <2>1, <2>4 DEF Outcome, IsTerminal
      <3> QED
        BY <1>2, <2>4, <3>1 DEF Conn, SessionOK, Closed
    <2> QED
      BY <2>1, <2>2, <2>3, <2>4 DEF RawRollback
  <1> QED
    BY <1>1, <1>2

\* What a raw commit can do, in the terms the contracts below need.
LEMMA RawCommitShape ==
    ASSUME NEW c \in Conn, SessionOK(c), NEW o \in RawCommit(c)
    PROVE  \/ c.st # "live" /\ o.c = c /\ o.err \in {"terminal", "io"} /\ o.saved = {}
           \/ c.st = "live" /\ c.txn = "poisoned" /\ o.c = c /\ o.err = "state25" /\ o.saved = {}
           \/ c.st = "live" /\ o.c = EndTxn(c) /\ o.err = "ok" /\ o.saved = c.work
           \/ c.st = "live" /\ o.c = EndTxn(c) /\ o.err = "conflict" /\ o.saved = {}
           \/ c.st = "live" /\ o.c = Lose(c) /\ o.err \in {"terminal", "io"}
                /\ o.saved \in {{}, c.work}
  <1>1. CASE c.st # "live"
    BY <1>1, OutcomeFields DEF RawCommit, RawFail
  <1>2. CASE c.st = "live" /\ c.txn = "poisoned"
    BY <1>2, OutcomeFields DEF RawCommit
  <1>3. CASE c.st = "live" /\ c.txn # "poisoned"
    <2>1. \/ o = Outcome(EndTxn(c), "ok", c.work)
          \/ o = Outcome(EndTxn(c), "conflict", {})
          \/ \E e \in {"terminal", "io"}, s \in {{}, c.work} : o = Outcome(Lose(c), e, s)
      BY <1>3 DEF RawCommit
    <2> QED
      BY <1>3, <2>1, OutcomeFields
  <1> QED
    BY <1>1, <1>2, <1>3

\* The session after its transaction ended.
LEMMA EndTxnFields ==
    ASSUME NEW c \in Conn, SessionOK(c), c.st = "live"
    PROVE  /\ EndTxn(c) \in Conn /\ SessionOK(EndTxn(c)) /\ EndTxn(c).st = "live"
           /\ EndTxn(c).auto = c.auto /\ EndTxn(c).txn = "none" /\ EndTxn(c).work = {}
           /\ ~Closed(EndTxn(c))
  BY DEF Conn, SessionOK, Closed, EndTxn

\* The session after its transport failed.
LEMMA LoseFields ==
    ASSUME NEW c \in Conn
    PROVE  /\ Lose(c) \in Conn /\ SessionOK(Lose(c)) /\ Lose(c).st = "dead"
           /\ Lose(c).auto = c.auto /\ Lose(c).txn = c.txn /\ Lose(c).work = {}
  BY DEF Conn, SessionOK, Closed, Lose

\* commit(): whether it returns or raises, the session holds no work
\* afterwards, and what became durable was the work of this session.  An
\* error that leaves the session in use has ended the transaction, too.
LEMMA CommitContract ==
    ASSUME NEW c \in Conn, SessionOK(c), NEW o \in Commit(c)
    PROVE  /\ o.c \in Conn /\ SessionOK(o.c)
           /\ o.c.auto = c.auto /\ o.c.work = {} /\ o.saved \subseteq c.work
           /\ o.err \in {"ok", "state25", "conflict", "terminal", "io"}
           /\ o.err \in {"state25", "conflict"} => o.saved = {}
           /\ o.err # "ok" /\ ~IsDisconnect(o.err, o.c) => o.c.txn = "none"
  <1>1. CASE Autocommit(c)
    <2>1. o = Outcome(c, "ok", {})
      BY <1>1 DEF Commit
    <2>2. o.c = c /\ o.err = "ok" /\ o.saved = {}
      BY <2>1, OutcomeFields
    <2>3. c.work = {}
      BY <1>1 DEF SessionOK, Autocommit
    <2> QED
      BY <2>2, <2>3
  <1>2. CASE ~Autocommit(c) /\ o \in RawCommit(c) /\ o.err # "state25"
    <2>1. CASE c.st # "live"
      BY <1>2, <2>1, RawCommitShape DEF SessionOK, IsDisconnect, IsTerminal
    <2>2. CASE c.st = "live"
      BY <1>2, <2>2, RawCommitShape, EndTxnFields, LoseFields DEF IsDisconnect, IsTerminal
    <2> QED
      BY <2>1, <2>2
  <1>3. CASE ~Autocommit(c) /\ \E q \in RawCommit(c) : q.err = "state25" /\ o \in CommitCleanup(q.c)
    <2>1. PICK q \in RawCommit(c) : q.err = "state25" /\ o \in CommitCleanup(q.c)
      BY <1>3
    <2>2. q.c = c /\ c.st = "live"
      BY <2>1, RawCommitShape
    <2>3. CASE \E r \in RawRollback(c) : r.err = "ok" /\ o = Outcome(r.c, "state25", {})
      <3>1. o = Outcome(EndTxn(c), "state25", {})
        BY <2>2, <2>3, OutcomeFields DEF RawRollback
      <3> QED
        BY <2>2, <3>1, OutcomeFields, EndTxnFields
    <2>4. CASE \E r \in RawRollback(c) : r.err # "ok" /\
                 \E k \in Close(r.c) : o = Outcome(k.c, "state25", {})
      <3>1. \E k \in Close(c) : o = Outcome(k.c, "state25", {})
        BY <2>2, <2>4, OutcomeFields DEF RawRollback
      <3>2. PICK k \in Close(c) : o = Outcome(k.c, "state25", {})
        BY <3>1
      <3>3. Closed(k.c) /\ k.c.work = {}
        BY CloseContract DEF SessionOK
      <3> QED
        BY <3>2, <3>3, CloseContract, OutcomeFields DEF IsDisconnect
    <2> QED
      BY <2>1, <2>2, <2>3, <2>4 DEF CommitCleanup
  <1> QED
    BY <1>1, <1>2, <1>3 DEF Commit

\* set_isolation_level: neither level invents work or makes durable what the
\* session did not hold; SERIALIZABLE on a session without a transaction
\* returns it clean, or raises.
LEMMA IsolationContract ==
    ASSUME NEW c \in Conn, SessionOK(c),
           NEW level \in {"AUTOCOMMIT", "SERIALIZABLE"},
           NEW o \in SetIsolationLevel(c, level)
    PROVE  /\ o.c \in Conn /\ SessionOK(o.c)
           /\ o.c.work \subseteq c.work /\ o.saved \subseteq c.work
           /\ o.err # "ok" => o.c.auto = c.auto
           /\ c.txn = "none" => o.c.txn = "none"
           /\ level = "SERIALIZABLE" /\ o.err = "ok" /\ (Closed(c) \/ c.txn = "none")
                 => Clean(o.c)
  <1> DEFINE value == level = "AUTOCOMMIT"
  <1>1. CASE Autocommit(c) = value
    <2>1. o = Outcome(c, "ok", {})
      BY <1>1 DEF SetIsolationLevel, SetAutocommit
    <2>2. level = "SERIALIZABLE" /\ (Closed(c) \/ c.txn = "none") => Clean(c)
      BY <1>1 DEF Conn, SessionOK, Clean, Autocommit
    <2> QED
      BY <2>1, <2>2, OutcomeFields
  <1>2. CASE Autocommit(c) # value
    <2>1. PICK q \in RawCommit(c) : o = [q EXCEPT !.c.auto = IF q.err = "ok" THEN value ELSE @]
      BY <1>2 DEF SetIsolationLevel, SetAutocommit, RawSetAutocommit
    <2>2. q.c \in Conn /\ SessionOK(q.c) /\ q.c.work \subseteq c.work /\ q.saved \subseteq c.work
          /\ q.c.auto = c.auto /\ (c.txn = "none" => q.c.txn = "none")
          /\ (q.err = "ok" => q.c.work = {} /\ q.c.txn = "none" /\ q.c.st = "live")
      <3>1. CASE c.st # "live"
        BY <3>1, RawCommitShape
      <3>2. CASE c.st = "live"
        BY <3>2, RawCommitShape, EndTxnFields, LoseFields
      <3> QED
        BY <3>1, <3>2
    <2>3. /\ o.c = [q.c EXCEPT !.auto = IF q.err = "ok" THEN value ELSE @]
          /\ o.err = q.err /\ o.saved = q.saved
      <3>1. q = Outcome(q.c, q.err, q.saved)
        BY DEF RawCommit, RawFail, Outcome
      <3> QED
        BY <2>1, <3>1 DEF Outcome
    <2> QED
      BY <2>2, <2>3 DEF Conn, SessionOK, Closed, Clean
  <1> QED
    BY <1>1, <1>2

\* A statement adds the given units to the session's work, or nothing.
LEMMA ExecuteContract ==
    ASSUME NEW c \in Conn, SessionOK(c), NEW us \in SUBSET Unit,
           NEW o \in RawExecute(c, us)
    PROVE  /\ o.c \in Conn /\ SessionOK(o.c) /\ o.c.auto = c.auto
           /\ o.c.work \subseteq c.work \cup us
  <1>1. CASE o.c = c
    BY <1>1
  <1>2. CASE o.c # c
    <2>1. /\ c.st = "live"
          /\ \/ o.c = [c EXCEPT !.txn = "open", !.work = @ \cup us]
             \/ o.c = [c EXCEPT !.txn = "open"]
             \/ o.c = [c EXCEPT !.txn = "poisoned"]
             \/ c.txn # "none" /\ o.c = [c EXCEPT !.work = @ \cup us]
      BY <1>2, OutcomeFields DEF RawExecute, RawFail
    <2>2. CASE o.c = [c EXCEPT !.txn = "open", !.work = @ \cup us]
      <3>1. c.work \cup us \in SUBSET Unit
        BY DEF Conn
      <3>2. o.c \in Conn /\ o.c.st = "live" /\ o.c.auto = c.auto /\ o.c.txn = "open"
            /\ o.c.work = c.work \cup us /\ (Closed(o.c) <=> Closed(c))
        BY <2>1, <2>2, <3>1 DEF Conn, Closed
      <3> QED
        BY <2>1, <3>2 DEF SessionOK
    <2>3. CASE o.c = [c EXCEPT !.txn = "open"] \/ o.c = [c EXCEPT !.txn = "poisoned"]
      BY <2>1, <2>3 DEF Conn, SessionOK, Closed
    <2>4. CASE c.txn # "none" /\ o.c = [c EXCEPT !.work = @ \cup us]
      BY <2>1, <2>4 DEF Conn, SessionOK, Closed
    <2> QED
      BY <2>1, <2>2, <2>3, <2>4
  <1> QED
    BY <1>1, <1>2

\* A ping opens a transaction at most.
LEMMA PingContract ==
    ASSUME NEW c \in Conn, SessionOK(c), NEW o \in DoPing(c)
    PROVE  /\ o.c \in Conn /\ SessionOK(o.c) /\ o.c.auto = c.auto
           /\ c.work = {} => o.c.work = {}
  <1>1. \/ o.c = c
        \/ c.st = "live" /\ o.c = [c EXCEPT !.txn = IF c.auto THEN @ ELSE "open"]
    BY OutcomeFields DEF DoPing, RawFail
  <1> QED
    BY <1>1 DEF Conn, SessionOK, Closed

\* START TRANSACTION opens a transaction without work.
LEMMA BeginContract ==
    ASSUME NEW c \in Conn, SessionOK(c), NEW o \in RawBegin(c)
    PROVE  /\ o.c \in Conn /\ SessionOK(o.c) /\ o.c.auto = c.auto
           /\ o.c.work \subseteq c.work
  <1>1. \/ o.c = c
        \/ c.st = "live" /\ o.c = [c EXCEPT !.txn = "open"]
    BY OutcomeFields DEF RawBegin, RawFail
  <1> QED
    BY <1>1 DEF Conn, SessionOK, Closed

-----------------------------------------------------------------------------
(* What becomes of a session in use, and of what was written on it.        *)

\* rollback() does not release a session.
LEMMA RollbackKeeps ==
    ASSUME NEW c \in Conn, NEW o \in Rollback(c)
    PROVE  o.c.st = c.st
  <1>1. CASE Closed(c) \/ Autocommit(c)
    BY <1>1, OutcomeFields DEF Rollback
  <1>2. CASE ~(Closed(c) \/ Autocommit(c))
    <2>1. PICK r \in RawRollback(c) : o = [r EXCEPT !.c.defunct = @ \/ IsTerminal(r.err)]
      BY <1>2 DEF Rollback
    <2>2. \E d \in {c, EndTxn(c)}, e \in {"ok", "refused", "terminal", "io"} :
             r = Outcome(d, e, {})
      BY <2>1 DEF RawRollback, RawFail
    <2>3. PICK d \in {c, EndTxn(c)} : o.c = [d EXCEPT !.defunct = @ \/ IsTerminal(r.err)]
      BY <2>1, <2>2 DEF Outcome
    <2>4. d.st = c.st /\ DOMAIN d = DOMAIN c
      BY DEF EndTxn, Conn
    <2> QED
      BY <2>3, <2>4 DEF Conn
  <1> QED
    BY <1>1, <1>2

\* commit() makes durable what the session holds, unless it says otherwise; a
\* session it closes is given up.
LEMMA CommitKeeps ==
    ASSUME NEW c \in Conn, SessionOK(c), NEW o \in Commit(c)
    PROVE  /\ c.st # "released" => o.c.st # "released" \/ Closed(o.c)
           /\ o.err = "ok" /\ ~Autocommit(c) => c.st = "live" /\ o.saved = c.work
  <1>1. CASE Autocommit(c)
    BY <1>1, OutcomeFields DEF Commit
  <1>2. CASE ~Autocommit(c) /\ o \in RawCommit(c) /\ o.err # "state25"
    <2>1. CASE c.st # "live"
      BY <1>2, <2>1, RawCommitShape
    <2>2. CASE c.st = "live"
      BY <1>2, <2>2, RawCommitShape, EndTxnFields, LoseFields
    <2> QED
      BY <2>1, <2>2
  <1>3. CASE ~Autocommit(c) /\ \E q \in RawCommit(c) : q.err = "state25" /\ o \in CommitCleanup(q.c)
    <2>1. PICK q \in RawCommit(c) : q.err = "state25" /\ o \in CommitCleanup(q.c)
      BY <1>3
    <2>2. q.c = c /\ c.st = "live"
      BY <2>1, RawCommitShape
    <2>3. CASE \E r \in RawRollback(c) : r.err = "ok" /\ o = Outcome(r.c, "state25", {})
      <3>1. o = Outcome(EndTxn(c), "state25", {})
        BY <2>2, <2>3, OutcomeFields DEF RawRollback
      <3> QED
        BY <2>2, <3>1, OutcomeFields, EndTxnFields
    <2>4. CASE \E r \in RawRollback(c) : r.err # "ok" /\
                 \E k \in Close(r.c) : o = Outcome(k.c, "state25", {})
      <3>1. \E k \in Close(c) : o = Outcome(k.c, "state25", {})
        BY <2>2, <2>4, OutcomeFields DEF RawRollback
      <3> QED
        BY <3>1, CloseContract, OutcomeFields
    <2> QED
      BY <2>1, <2>2, <2>3, <2>4 DEF CommitCleanup
  <1> QED
    BY <1>1, <1>2, <1>3 DEF Commit

\* A statement leaves what was written and the transaction; a write outside
\* autocommit is held by the transaction.
LEMMA ExecuteKeeps ==
    ASSUME NEW c \in Conn, NEW us \in SUBSET Unit, NEW o \in RawExecute(c, us)
    PROVE  /\ o.c.st = c.st /\ c.work \subseteq o.c.work /\ o.c.auto = c.auto
           /\ c.txn # "none" => o.c.txn # "none"
           /\ o.err = "ok" /\ ~Autocommit(c) => us \subseteq o.c.work
  <1>1. CASE c.st # "live"
    BY <1>1, OutcomeFields DEF RawExecute, RawFail
  <1>2. CASE c.st = "live" /\ c.txn = "poisoned"
    <2>1. \/ o = Outcome(c, "state25", {})
          \/ o = Outcome([c EXCEPT !.work = @ \cup us], "ok", {})
      BY <1>2 DEF RawExecute
    <2> QED
      BY <2>1, OutcomeFields DEF Conn
  <1>3. CASE c.st = "live" /\ c.txn # "poisoned" /\ Autocommit(c)
    <2>1. o = Outcome(c, "ok", {}) \/ o = Outcome(c, "stmt", {})
      BY <1>3 DEF RawExecute, Autocommit
    <2>2. o.c = c
      BY <2>1, OutcomeFields
    <2> QED
      BY <1>3, <2>2
  <1>4. CASE c.st = "live" /\ c.txn # "poisoned" /\ ~Autocommit(c)
    <2>1. \/ o = Outcome([c EXCEPT !.txn = "open", !.work = @ \cup us], "ok", {})
          \/ o = Outcome([c EXCEPT !.txn = "open"], "stmt", {})
          \/ o = Outcome([c EXCEPT !.txn = "poisoned"], "stmt", {})
      BY <1>4 DEF RawExecute, Autocommit
    <2>2. \/ o.c = [c EXCEPT !.txn = "open", !.work = @ \cup us]
          \/ o.err # "ok" /\ o.c = [c EXCEPT !.txn = "open"]
          \/ o.err # "ok" /\ o.c = [c EXCEPT !.txn = "poisoned"]
      BY <2>1, OutcomeFields
    <2>3. CASE o.c = [c EXCEPT !.txn = "open", !.work = @ \cup us]
      BY <1>4, <2>3 DEF Conn
    <2>4. CASE o.err # "ok" /\ o.c = [c EXCEPT !.txn = "open"]
      BY <1>4, <2>4 DEF Conn
    <2>5. CASE o.err # "ok" /\ o.c = [c EXCEPT !.txn = "poisoned"]
      BY <1>4, <2>5 DEF Conn
    <2> QED
      BY <2>2, <2>3, <2>4, <2>5
  <1> QED
    BY <1>1, <1>2, <1>3, <1>4

\* START TRANSACTION suspends autocommit, or finds the session dead.
LEMMA BeginKeeps ==
    ASSUME NEW c \in Conn, NEW o \in RawBegin(c)
    PROVE  \/ o.err \in {"terminal", "io"} /\ o.c = c
           \/ o.err = "ok" /\ o.c.txn = "open" /\ o.c.st = c.st
  BY OutcomeFields DEF RawBegin, RawFail, Conn

\* A change of the isolation level releases nothing.  Leaving AUTOCOMMIT without
\* a transaction in progress fails only on a session that is dead.
LEMMA IsolationKeeps ==
    ASSUME NEW c \in Conn, SessionOK(c), c.st # "released",
           NEW level \in {"AUTOCOMMIT", "SERIALIZABLE"},
           NEW o \in SetIsolationLevel(c, level)
    PROVE  /\ o.c.st # "released"
           /\ level = "SERIALIZABLE" /\ o.err # "ok" => o.c.st = "dead" /\ o.c.auto
  <1> DEFINE value == level = "AUTOCOMMIT"
  <1>1. CASE Autocommit(c) = value
    BY <1>1, OutcomeFields DEF SetIsolationLevel, SetAutocommit
  <1>2. CASE Autocommit(c) # value
    <2>1. PICK q \in RawCommit(c) : o = [q EXCEPT !.c.auto = IF q.err = "ok" THEN value ELSE @]
      BY <1>2 DEF SetIsolationLevel, SetAutocommit, RawSetAutocommit
    <2>2. q.c \in Conn /\ q.c.st # "released" /\ q.c.auto = c.auto
      <3>1. CASE c.st # "live"
        BY <3>1, RawCommitShape
      <3>2. CASE c.st = "live"
        BY <3>2, RawCommitShape, EndTxnFields, LoseFields
      <3> QED
        BY <3>1, <3>2
    <2>3. o.c = [q.c EXCEPT !.auto = IF q.err = "ok" THEN value ELSE @] /\ o.err = q.err
      <3>1. q = Outcome(q.c, q.err, q.saved)
        BY DEF RawCommit, RawFail, Outcome
      <3> QED
        BY <2>1, <3>1 DEF Outcome
    <2>4. o.c.st = q.c.st /\ (o.err # "ok" => o.c.auto = c.auto)
      BY <2>2, <2>3 DEF Conn
    <2>5. ASSUME level = "SERIALIZABLE", o.err # "ok" PROVE q.c.st = "dead" /\ c.auto
      <3>1. c.auto /\ c.txn = "none" /\ c.work = {} /\ q.err # "ok"
        BY <1>2, <2>3, <2>5 DEF Autocommit, SessionOK, Conn
      <3>2. CASE c.st # "live"
        BY <2>2, <3>1, <3>2, RawCommitShape DEF Conn
      <3>3. CASE c.st = "live"
        <4>1. \E e \in {"terminal", "io"}, s \in {{}, c.work} : q = Outcome(Lose(c), e, s)
          BY <3>1, <3>3, OutcomeFields DEF RawCommit
        <4> QED
          BY <3>1, <4>1, OutcomeFields, LoseFields
      <3> QED
        BY <3>2, <3>3
    <2> QED
      BY <2>2, <2>4, <2>5
  <1> QED
    BY <1>1, <1>2

-----------------------------------------------------------------------------
(* The pool: the inductive invariant.                                     *)

\* A slot is held by one worker, or idle, or lost, or free.
Ownership ==
    /\ \A w \in Worker : conn[w].phase = "in" => conn[w].at = NoSession
    /\ idle \cap lost = {}
    /\ \A w \in Worker : conn[w].at \notin idle \cup lost
    /\ \A v, w \in Worker : conn[v].at = conn[w].at /\ conn[v].at # NoSession => v = w

\* A unit that has not ended belongs to one worker, in a transaction.
UnitOwnership ==
    /\ \A w \in Worker : conn[w].unit # NoUnit =>
            conn[w].sa = "active" /\ verdict[conn[w].unit] = "running"
    /\ \A v, w \in Worker :
            conn[v].unit = conn[w].unit /\ conn[v].unit # NoUnit => v = w

WorkOwned ==
    \A s \in Session : \A u \in sess[s].work :
        \/ verdict[u] = "unsettled"
        \/ \E w \in Worker : conn[w].at = s /\ conn[w].unit = u

IsolationTracked ==
    \A w \in Worker : conn[w].at # NoSession /\ sess[conn[w].at].auto => conn[w].isolated

IInv == /\ TypeOK
        /\ \A s \in Session : SessionOK(sess[s])
        /\ \A s \in idle : Clean(sess[s])
        /\ Ownership
        /\ UnitOwnership
        /\ WorkOwned
        /\ IsolationTracked
        /\ FailedCommitEndsTransaction
        /\ NoResurrection
-----------------------------------------------------------------------------
(* What the shared effects do, in the form the actions need.               *)

\* A slot that is put back holds the session given, or a closed one.
LEMMA PutBackShape ==
    ASSUME TypeOK, NEW s \in Session, NEW c \in Conn, SessionOK(c), PutBack(s, c)
    PROVE  \E k \in Conn : /\ SessionOK(k) /\ (k = c \/ (Closed(k) /\ k.work = {}))
                           /\ sess' = [sess EXCEPT ![s] = k]
                           /\ idle' \subseteq idle \cup {s}
  <1>1. CASE Cardinality(idle) < PoolSize
    <2>1. idle' = idle \cup {s} /\ sess' = [sess EXCEPT ![s] = c]
      BY <1>1 DEF PutBack
    <2> QED
      BY <2>1
  <1>2. CASE ~(Cardinality(idle) < PoolSize)
    <2>1. PICK k \in Close(c) : sess' = [sess EXCEPT ![s] = k.c] /\ idle' = idle
      BY <1>2 DEF PutBack
    <2> QED
      BY <2>1, CloseContract DEF SessionOK
  <1> QED
    BY <1>1, <1>2

\* An error either keeps the session and the worker's hold on it, or ends both.
LEMMA HandleErrorShape ==
    ASSUME TypeOK, NEW w \in Worker, conn[w].at \in Session, NEW next,
           NEW o, o.c \in Conn, SessionOK(o.c), HandleError(w, o, next)
    PROVE  \E c \in Conn :
              /\ SessionOK(c)
              /\ sess' = [sess EXCEPT ![conn[w].at] = c]
              /\ stale' \subseteq Session
              /\ \/ /\ IsDisconnect(o.err, o.c) /\ Closed(c) /\ c.work = {}
                    /\ conn' = [conn EXCEPT ![w] = [next EXCEPT !.at = NoSession]]
                    /\ idle' \subseteq idle \cup {conn[w].at}
                 \/ /\ ~IsDisconnect(o.err, o.c) /\ c = o.c
                    /\ conn' = [conn EXCEPT ![w] = next]
                    /\ idle' = idle
  <1>1. CASE IsDisconnect(o.err, o.c)
    <2>1. /\ \E k \in Close(o.c) : PutBack(conn[w].at, k.c)
          /\ stale' = Distrust(conn[w].at)
          /\ conn' = [conn EXCEPT ![w] = [next EXCEPT !.at = NoSession]]
      BY <1>1 DEF HandleError, Disconnect
    <2>2. PICK k \in Close(o.c) : PutBack(conn[w].at, k.c)
      BY <2>1
    <2>3. k.c \in Conn /\ SessionOK(k.c) /\ Closed(k.c) /\ k.c.work = {}
      BY CloseContract DEF SessionOK
    <2>4. PICK c \in Conn : /\ SessionOK(c) /\ (c = k.c \/ (Closed(c) /\ c.work = {}))
                            /\ sess' = [sess EXCEPT ![conn[w].at] = c]
                            /\ idle' \subseteq idle \cup {conn[w].at}
      BY <2>2, <2>3, PutBackShape
    <2>5. stale' \subseteq Session
      BY <2>1 DEF Distrust, TypeOK
    <2> QED
      BY <1>1, <2>1, <2>3, <2>4, <2>5
  <1>2. CASE ~IsDisconnect(o.err, o.c)
    BY <1>2 DEF HandleError, TypeOK
  <1> QED
    BY <1>1, <1>2

\* A session without a transaction is checked in clean, or its slot is lost.
LEMMA CheckInShape ==
    ASSUME TypeOK, NEW w \in Worker, conn[w].at \in Session,
           NEW c \in Conn, SessionOK(c), c.work = {}, Closed(c) \/ c.txn = "none",
           c.auto => conn[w].isolated, CheckIn(w, c)
    PROVE  /\ \E k \in Conn :
                /\ SessionOK(k) /\ k.work = {}
                /\ sess' = [sess EXCEPT ![conn[w].at] = k]
                /\ idle' \subseteq idle \cup {conn[w].at} /\ (Clean(k) \/ idle' = idle)
           /\ lost' = lost \/ (lost' = lost \cup {conn[w].at} /\ idle' = idle)
           /\ \E n \in {Away, [Away EXCEPT !.phase = "closing"]} :
                conn' = [conn EXCEPT ![w] = n]
           /\ db' = db /\ stale' = stale
  <1> DEFINE s == conn[w].at
             Restored == IF conn[w].isolated THEN SetIsolationLevel(c, "SERIALIZABLE")
                                             ELSE {Outcome(c, "ok", {})}
  <1>1. PICK f \in Restored :
          /\ db' = db \cup f.saved
          /\ \/ /\ f.err = "ok" /\ PutBack(s, f.c)
                /\ conn' = [conn EXCEPT ![w] = Away] /\ lost' = lost
             \/ /\ sess' = [sess EXCEPT ![s] = f.c] /\ lost' = lost \cup {s}
                /\ conn' = [conn EXCEPT ![w] = [Away EXCEPT !.phase = "closing"]]
                /\ idle' = idle
    BY DEF CheckIn
  <1>2. /\ f.c \in Conn /\ SessionOK(f.c) /\ f.c.work = {} /\ f.saved = {}
        /\ f.err = "ok" => Clean(f.c)
    <2>1. CASE conn[w].isolated
      <3>1. f \in SetIsolationLevel(c, "SERIALIZABLE")
        BY <2>1
      <3> QED
        BY <3>1, IsolationContract
    <2>2. CASE ~conn[w].isolated
      <3>1. f = Outcome(c, "ok", {})
        BY <2>2
      <3>2. Clean(c)
        BY <2>2 DEF Clean
      <3> QED
        BY <3>1, <3>2, OutcomeFields
    <2> QED
      BY <2>1, <2>2
  <1>3. db' = db /\ stale' = stale
    BY <1>1, <1>2 DEF CheckIn
  <1>4. CASE f.err = "ok" /\ PutBack(s, f.c)
             /\ conn' = [conn EXCEPT ![w] = Away] /\ lost' = lost
    <2>1. PICK k \in Conn : /\ SessionOK(k) /\ (k = f.c \/ (Closed(k) /\ k.work = {}))
                            /\ sess' = [sess EXCEPT ![s] = k]
                            /\ idle' \subseteq idle \cup {s}
      BY <1>2, <1>4, PutBackShape
    <2>2. Clean(k) /\ k.work = {}
      BY <1>2, <1>4, <2>1 DEF Clean
    <2> QED
      BY <1>3, <1>4, <2>1, <2>2
  <1>5. CASE /\ sess' = [sess EXCEPT ![s] = f.c] /\ lost' = lost \cup {s}
             /\ conn' = [conn EXCEPT ![w] = [Away EXCEPT !.phase = "closing"]]
             /\ idle' = idle
    BY <1>2, <1>3, <1>5
  <1> QED
    BY <1>1, <1>4, <1>5

-----------------------------------------------------------------------------
(* A worker's step at its own session.                                     *)

\* Whatever the call was, it replaced the session c of one slot and the
\* connection n of one worker; these conditions make the step safe.
SafeStep(w, s, c, n) ==
    /\ conn[w].at = s /\ c \in Conn /\ SessionOK(c) /\ n \in ConnType
    /\ sess' = [sess EXCEPT ![s] = c]
    /\ conn' = [conn EXCEPT ![w] = n]
    /\ idle' \subseteq idle \cup {s}
    /\ s \in idle' => Clean(c)
    /\ lost' \subseteq lost \cup {s}
    /\ s \notin idle' \cap lost'
    /\ stale' \subseteq Session
    /\ n.at \in {s, NoSession}
    /\ n.at = s => s \notin idle' \cup lost'
    /\ n.phase = "in" => n.at = NoSession
    /\ n.at = s /\ c.auto => n.isolated
    /\ n.at = s /\ n.sa = "inactive" => c.txn = "none" /\ c.work = {}
    /\ verdict' \in [Unit -> Verdict]
    /\ n.unit # NoUnit => /\ n.sa = "active" /\ verdict'[n.unit] = "running"
                          /\ n.unit = conn[w].unit \/ verdict[n.unit] = "unused"
    /\ \A u \in Unit : verdict'[u] = verdict[u] \/ u = conn[w].unit \/ u = n.unit
    /\ \A u \in c.work : verdict'[u] = "unsettled" \/ (n.at = s /\ n.unit = u)
    /\ wrote' \subseteq Unit
    /\ db' \subseteq Unit
    /\ \A u \in db' : verdict'[u] \in {"committed", "unknown", "unsettled"}

\* A step that meets these conditions preserves the invariant.
LEMMA StepAt ==
    ASSUME IInv, NEW w \in Worker, NEW s \in Session, NEW c, NEW n, SafeStep(w, s, c, n)
    PROVE  IInv'
  <1> USE NoSessionAssumption, NoUnitAssumption DEF SafeStep
  <1>1. TypeOK'
    BY DEF IInv, TypeOK
  <1>2. (\A r \in Session : SessionOK(sess[r]))'
    BY DEF IInv, TypeOK
  <1>3. (\A r \in idle : Clean(sess[r]))'
    BY DEF IInv, TypeOK
  <1>4. Ownership'
    BY DEF IInv, TypeOK, Ownership
  <1>5. UnitOwnership'
    BY DEF IInv, TypeOK, UnitOwnership, ConnType
  <1>6. WorkOwned'
    <2> SUFFICES ASSUME NEW r \in Session, NEW u \in sess'[r].work
                 PROVE  verdict'[u] = "unsettled" \/
                        \E v \in Worker : conn'[v].at = r /\ conn'[v].unit = u
      BY DEF WorkOwned
    <2>1. CASE r = s
      BY <2>1 DEF IInv, TypeOK
    <2>2. CASE r # s
      <3>1. sess'[r] = sess[r] /\ u \in Unit
        BY <2>2 DEF IInv, TypeOK, Conn
      <3>2. CASE verdict[u] = "unsettled"
        BY <3>1, <3>2 DEF IInv, UnitOwnership
      <3>3. CASE \E v \in Worker : conn[v].at = r /\ conn[v].unit = u
        BY <2>2, <3>3 DEF IInv, TypeOK
      <3> QED
        BY <3>1, <3>2, <3>3 DEF IInv, WorkOwned
    <2> QED
      BY <2>1, <2>2
  <1>7. IsolationTracked'
    BY DEF IInv, TypeOK, IsolationTracked, Ownership
  <1>8. FailedCommitEndsTransaction'
    <2> SUFFICES ASSUME NEW v \in Worker, conn'[v].at # NoSession, conn'[v].sa = "inactive"
                 PROVE  sess'[conn'[v].at].txn = "none" /\ sess'[conn'[v].at].work = {}
      BY DEF FailedCommitEndsTransaction
    <2>1. CASE v = w
      BY <2>1 DEF IInv, TypeOK
    <2>2. CASE v # w
      <3>1. conn'[v] = conn[v] /\ conn[v].at \in Session \ {s}
        BY <2>2 DEF IInv, TypeOK, ConnType, Ownership
      <3> QED
        BY <3>1 DEF IInv, TypeOK, FailedCommitEndsTransaction
    <2> QED
      BY <2>1, <2>2
  <1>9. NoResurrection'
    BY DEF NoResurrection
  <1> QED
    BY <1>1, <1>2, <1>3, <1>4, <1>5, <1>6, <1>7, <1>8, <1>9 DEF IInv

-----------------------------------------------------------------------------
(* The actions.                                                            *)

\* What IInv says of the session in a worker's hands.
LEMMA Holding ==
    ASSUME IInv, NEW w \in Worker, conn[w].at # NoSession
    PROVE  /\ conn[w] \in ConnType /\ conn[w].at \in Session /\ conn[w].phase # "in"
           /\ conn[w].at \notin idle \cup lost
           /\ sess[conn[w].at] \in Conn /\ SessionOK(sess[conn[w].at])
           /\ sess[conn[w].at].auto => conn[w].isolated
           /\ \A u \in sess[conn[w].at].work :
                 u \in Unit /\ (verdict[u] = "unsettled" \/ u = conn[w].unit)
  BY DEF IInv, TypeOK, ConnType, Conn, Ownership, WorkOwned, IsolationTracked

\* What giving a unit its verdict changes, and what it cannot change.
LEMMA SettleFacts ==
    ASSUME IInv, NEW w \in Worker, NEW v \in Verdict, Settle(w, v)
    PROVE  /\ verdict' \in [Unit -> Verdict]
           /\ conn[w].unit # NoUnit => verdict'[conn[w].unit] = v
           /\ \A u \in Unit : verdict'[u] = verdict[u] \/ u = conn[w].unit
           /\ \A u \in db : verdict'[u] \in {"committed", "unknown", "unsettled"}
           /\ \A u \in Unit : verdict[u] = "unsettled" => verdict'[u] = "unsettled"
  BY DEF IInv, TypeOK, ConnType, Settle, UnitOwnership, NoResurrection

\* Checking out a session that is fit to be used.
LEMMA CheckoutStep ==
    ASSUME IInv, NEW w \in Worker, NEW s \in Session, conn[w].phase = "in",
           s \notin lost, s \notin idle', s \notin Held, idle' \subseteq idle,
           NEW c \in Conn, SessionOK(c), c.work = {}, ~c.auto,
           sess' = [sess EXCEPT ![s] = c], Occupy(w, s), stale' \subseteq Session,
           UNCHANGED <<lost, verdict, wrote, db>>
    PROVE  IInv'
  <1> USE NoSessionAssumption, NoUnitAssumption
  <1> DEFINE n == [Away EXCEPT !.phase = "out", !.at = s]
  <1>1. conn' = [conn EXCEPT ![w] = n] /\ n \in ConnType
    BY DEF Occupy, Away, ConnType
  <1>2. \A v \in Worker : conn[v].at # s
    BY DEF Held
  <1>3. conn[w].at = NoSession
    BY DEF IInv, Ownership
  <1> HIDE DEF n
  <1>4. n.phase = "out" /\ n.at = s /\ n.sa = "none" /\ n.unit = NoUnit
    BY DEF n, Away
  <1>5. TypeOK'
    BY <1>1 DEF IInv, TypeOK
  <1>6. (\A r \in Session : SessionOK(sess[r]))'
    BY DEF IInv, TypeOK
  <1>7. (\A r \in idle : Clean(sess[r]))'
    BY DEF IInv, TypeOK
  <1>8. Ownership'
    BY <1>1, <1>2, <1>4 DEF IInv, TypeOK, Ownership
  <1>9. UnitOwnership'
    BY <1>1, <1>4 DEF IInv, TypeOK, UnitOwnership
  <1>10. WorkOwned'
    <2> SUFFICES ASSUME NEW r \in Session, NEW u \in sess'[r].work
                 PROVE  verdict'[u] = "unsettled" \/
                        \E v \in Worker : conn'[v].at = r /\ conn'[v].unit = u
      BY DEF WorkOwned
    <2>1. r # s /\ sess'[r] = sess[r]
      BY DEF IInv, TypeOK
    <2>2. CASE verdict[u] = "unsettled"
      BY <2>2
    <2>3. CASE \E v \in Worker : conn[v].at = r /\ conn[v].unit = u
      BY <1>1, <1>3, <2>1, <2>3 DEF IInv, TypeOK
    <2> QED
      BY <2>1, <2>2, <2>3 DEF IInv, WorkOwned
  <1>11. IsolationTracked'
    <2> SUFFICES ASSUME NEW v \in Worker, conn'[v].at # NoSession, sess'[conn'[v].at].auto
                 PROVE  conn'[v].isolated
      BY DEF IsolationTracked
    <2>1. CASE v = w
      BY <1>1, <1>4, <2>1 DEF IInv, TypeOK
    <2>2. CASE v # w
      <3>1. conn'[v] = conn[v] /\ conn[v].at \in Session \ {s}
        BY <1>1, <1>2, <2>2 DEF IInv, TypeOK, ConnType
      <3> QED
        BY <3>1 DEF IInv, TypeOK, IsolationTracked
    <2> QED
      BY <2>1, <2>2
  <1>12. FailedCommitEndsTransaction'
    <2> SUFFICES ASSUME NEW v \in Worker, conn'[v].at # NoSession, conn'[v].sa = "inactive"
                 PROVE  sess'[conn'[v].at].txn = "none" /\ sess'[conn'[v].at].work = {}
      BY DEF FailedCommitEndsTransaction
    <2>1. v # w
      BY <1>1, <1>4 DEF IInv, TypeOK
    <2>2. conn'[v] = conn[v] /\ conn[v].at \in Session \ {s}
      BY <1>1, <1>2, <2>1 DEF IInv, TypeOK, ConnType
    <2> QED
      BY <2>2 DEF IInv, TypeOK, FailedCommitEndsTransaction
  <1>13. NoResurrection'
    BY DEF IInv, NoResurrection
  <1> QED
    BY <1>5, <1>6, <1>7, <1>8, <1>9, <1>10, <1>11, <1>12, <1>13 DEF IInv

\* A new session is fit to be used.
LEMMA FreshFields ==
    Fresh \in Conn /\ SessionOK(Fresh) /\ Fresh.work = {} /\ ~Fresh.auto
  BY DEF Fresh, Conn, SessionOK, Closed

\* Checkout, by each of its three ways.
LEMMA CheckoutPreserves ==
    ASSUME IInv, NEW w \in Worker, Checkout(w)
    PROVE  IInv'
  <1> PICK s \in Session : CheckoutNew(w, s) \/ CheckoutRecycled(w, s) \/ CheckoutIdle(w, s)
    BY DEF Checkout
  <1>1. s \notin Held \/ s \notin idle
    BY DEF IInv, Ownership, Held
  <1>2. CASE CheckoutNew(w, s)
    <2>1. /\ s \notin idle' /\ idle' \subseteq idle /\ s \notin lost /\ s \notin Held
          /\ conn[w].phase = "in" /\ Occupy(w, s) /\ sess' = [sess EXCEPT ![s] = Fresh]
          /\ stale' \subseteq Session /\ UNCHANGED <<lost, verdict, wrote, db>>
      BY <1>2 DEF CheckoutNew, Free, IInv, TypeOK
    <2> QED
      BY <2>1, CheckoutStep, FreshFields
  <1>3. CASE TakeIdle(w, s)
    <2>1. /\ conn[w].phase = "in" /\ s \notin Held /\ s \notin idle' /\ idle' \subseteq idle
          /\ Occupy(w, s) /\ UNCHANGED <<lost, verdict, wrote, db>>
      BY <1>1, <1>3 DEF TakeIdle
    <2>2. s \notin lost /\ Clean(sess[s]) /\ sess[s] \in Conn /\ SessionOK(sess[s])
      BY <1>3 DEF TakeIdle, IInv, TypeOK, Ownership
    <2>3. CASE Recycled(s) /\ sess' = [sess EXCEPT ![s] = Fresh] /\ stale' = stale \ {s}
      BY <2>1, <2>2, <2>3, CheckoutStep, FreshFields DEF IInv, TypeOK
    <2>4. CASE ~Recycled(s) /\ UNCHANGED <<sess, stale>>
      <3>1. sess[s].work = {} /\ ~sess[s].auto
        BY <2>2, <2>4 DEF Recycled, Clean, SessionOK
      <3>2. sess' = [sess EXCEPT ![s] = sess[s]] /\ stale' \subseteq Session
        BY <2>4 DEF IInv, TypeOK
      <3> QED
        BY <2>1, <2>2, <3>1, <3>2, CheckoutStep
    <2>5. CASE ~Recycled(s) /\ \E p \in DoPing(sess[s]) :
                 \/ p.err = "ok" /\ sess' = [sess EXCEPT ![s] = p.c] /\ stale' = stale
                 \/ sess' = [sess EXCEPT ![s] = Fresh] /\ stale' = Distrust(s) \ {s}
      <3>1. PICK p \in DoPing(sess[s]) :
                 \/ p.err = "ok" /\ sess' = [sess EXCEPT ![s] = p.c] /\ stale' = stale
                 \/ sess' = [sess EXCEPT ![s] = Fresh] /\ stale' = Distrust(s) \ {s}
        BY <2>5
      <3>2. CASE p.err = "ok" /\ sess' = [sess EXCEPT ![s] = p.c] /\ stale' = stale
        <4>1. sess[s].st = "live" /\ sess[s].work = {} /\ ~sess[s].auto
          BY <2>2, <2>5, <3>2, OutcomeFields DEF Recycled, Clean, SessionOK, DoPing, RawFail
        <4>2. p.c \in Conn /\ SessionOK(p.c) /\ p.c.work = {} /\ ~p.c.auto
          BY <2>2, <4>1, PingContract
        <4> QED
          BY <2>1, <2>2, <3>2, <4>2, CheckoutStep DEF IInv, TypeOK
      <3>3. CASE sess' = [sess EXCEPT ![s] = Fresh] /\ stale' = Distrust(s) \ {s}
        BY <2>1, <2>2, <3>3, CheckoutStep, FreshFields DEF IInv, TypeOK, Distrust
      <3> QED
        BY <3>1, <3>2, <3>3
    <2> QED
      <3>1. CASE CheckoutRecycled(w, s)
        BY <2>3, <3>1 DEF CheckoutRecycled
      <3>2. CASE CheckoutIdle(w, s)
        BY <2>4, <2>5, <3>2 DEF CheckoutIdle
      <3>3. CASE CheckoutNew(w, s)
        BY <1>2, <3>3
      <3> QED
        BY <3>1, <3>2, <3>3
  <1> QED
    BY <1>2, <1>3 DEF CheckoutRecycled, CheckoutIdle

\* RequestAutocommit, by the contract of set_isolation_level.
LEMMA RequestAutocommitPreserves ==
    ASSUME IInv, NEW w \in Worker, RequestAutocommit(w)
    PROVE  IInv'
  <1> DEFINE s == conn[w].at
  <1>1. PICK o \in SetIsolationLevel(sess[s], "AUTOCOMMIT") :
          /\ sess' = [sess EXCEPT ![s] = o.c] /\ db' = db \cup o.saved
          /\ conn' = [conn EXCEPT ![w].isolated = (o.err = "ok")]
    BY DEF RequestAutocommit
  <1>2. /\ s # NoSession /\ conn[w].sa # "active" /\ ~conn[w].isolated
        /\ UNCHANGED <<idle, lost, stale, verdict, wrote>>
    BY DEF RequestAutocommit, InUse
  <1> DEFINE n == [conn[w] EXCEPT !.isolated = (o.err = "ok")]
  <1>3. conn[w] \in ConnType /\ s \in Session /\ sess[s] \in Conn /\ SessionOK(sess[s])
        /\ s \notin idle \cup lost /\ (sess[s].auto => conn[w].isolated)
        /\ \A u \in sess[s].work : u \in Unit /\ (verdict[u] = "unsettled" \/ u = conn[w].unit)
    BY <1>2, Holding
  <1>4. conn[w].unit = NoUnit
    BY <1>2 DEF IInv, UnitOwnership
  <1>5. /\ o.c \in Conn /\ SessionOK(o.c)
        /\ o.c.work \subseteq sess[s].work /\ o.saved \subseteq sess[s].work
        /\ o.err # "ok" => o.c.auto = sess[s].auto
        /\ sess[s].txn = "none" => o.c.txn = "none"
    BY <1>1, <1>3, IsolationContract
  <1>6. n \in ConnType /\ conn' = [conn EXCEPT ![w] = n] /\ n.at = s /\ n.unit = NoUnit
        /\ n.sa = conn[w].sa /\ n.phase = conn[w].phase /\ n.isolated = (o.err = "ok")
    BY <1>1, <1>3, <1>4 DEF ConnType, IInv, TypeOK
  <1>7. conn[w].sa = "inactive" => sess[s].txn = "none" /\ sess[s].work = {}
    BY <1>2 DEF IInv, FailedCommitEndsTransaction
  <1>8. \A u \in sess[s].work : u \in Unit /\ verdict[u] = "unsettled"
    BY <1>3, <1>4, NoUnitAssumption
  <1>9. /\ db' \subseteq Unit
        /\ \A u \in db' : verdict'[u] \in {"committed", "unknown", "unsettled"}
    BY <1>1, <1>2, <1>5, <1>8 DEF IInv, TypeOK, NoResurrection
  <1>10. n.phase = "in" => n.at = NoSession
    BY <1>2, <1>6 DEF IInv, Ownership
  <1>11. verdict' = verdict /\ verdict \in [Unit -> Verdict] /\ wrote' \subseteq Unit
         /\ stale' \subseteq Session /\ idle' = idle /\ lost' = lost
    BY <1>2 DEF IInv, TypeOK
  <1>12. o.c.auto => n.isolated
    BY <1>2, <1>3, <1>5, <1>6
  <1>13. n.sa = "inactive" => o.c.txn = "none" /\ o.c.work = {}
    BY <1>5, <1>6, <1>7
  <1>14. SafeStep(w, s, o.c, n)
    <2> HIDE DEF n
    <2> QED
      BY <1>1, <1>3, <1>5, <1>6, <1>8, <1>9, <1>10, <1>11, <1>12, <1>13 DEF SafeStep
  <1> QED
    BY <1>3, <1>14, StepAt

\* A statement, whoever hears of its error: the session ends up as c2, and the
\* worker still holds it or (then c2 is closed) does not.
LEMMA StatementStep ==
    ASSUME IInv, NEW w \in Worker, NEW u \in Unit \cup {NoUnit},
           conn[w].at # NoSession, Begun(w, u),
           \/ u = conn[w].unit
           \/ conn[w].unit = NoUnit /\ verdict[u] = "unused",
           NEW c2 \in Conn, SessionOK(c2),
           sess' = [sess EXCEPT ![conn[w].at] = c2], stale' \subseteq Session,
           \/ /\ conn' = [conn EXCEPT ![w] = Active(w, u)] /\ idle' = idle
              /\ c2.auto = sess[conn[w].at].auto
              /\ c2.work \subseteq sess[conn[w].at].work \cup ({u} \ {NoUnit})
           \/ /\ conn' = [conn EXCEPT ![w] = [Active(w, u) EXCEPT !.at = NoSession]]
              /\ idle' \subseteq idle \cup {conn[w].at} /\ Closed(c2) /\ c2.work = {},
           wrote' \subseteq Unit, UNCHANGED <<lost, db>>
    PROVE  IInv'
  <1> USE NoUnitAssumption, NoSessionAssumption
  <1> DEFINE s == conn[w].at
             m == Active(w, u)
  <1>1. conn[w] \in ConnType /\ s \in Session /\ sess[s] \in Conn /\ SessionOK(sess[s])
        /\ conn[w].phase # "in" /\ s \notin idle \cup lost /\ (sess[s].auto => conn[w].isolated)
        /\ \A v \in sess[s].work : v \in Unit /\ (verdict[v] = "unsettled" \/ v = conn[w].unit)
    BY Holding
  <1>2. /\ u # NoUnit => verdict' = [verdict EXCEPT ![u] = "running"]
        /\ u = NoUnit => verdict' = verdict
    BY DEF Begun
  <1>3. /\ m \in ConnType /\ m.at = s /\ m.sa = "active" /\ m.unit = u
        /\ m.phase = conn[w].phase /\ m.isolated = conn[w].isolated
    BY <1>1 DEF Active, ConnType
  <1>4. /\ verdict' \in [Unit -> Verdict]
        /\ u # NoUnit => verdict'[u] = "running"
        /\ \A v \in Unit : verdict'[v] = verdict[v] \/ v = u
    BY <1>2 DEF IInv, TypeOK, Verdict
  <1>5. u # NoUnit => u = conn[w].unit \/ verdict[u] = "unused"
    OBVIOUS
  <1>6. conn[w].unit # NoUnit => u = conn[w].unit /\ verdict[u] = "running"
    BY DEF IInv, UnitOwnership
  <1>7. /\ db' \subseteq Unit
        /\ \A v \in db' : verdict'[v] \in {"committed", "unknown", "unsettled"}
    BY <1>4, <1>5, <1>6 DEF IInv, TypeOK, NoResurrection
  <1>8. \A v \in sess[s].work \cup ({u} \ {NoUnit}) : verdict'[v] = "unsettled" \/ v = u
    <2> SUFFICES ASSUME NEW v \in sess[s].work PROVE verdict'[v] = "unsettled" \/ v = u
      OBVIOUS
    <2>1. CASE verdict[v] = "unsettled"
      BY <1>1, <1>4, <2>1
    <2>2. CASE v = conn[w].unit
      BY <1>1, <1>6, <2>2
    <2> QED
      BY <1>1, <2>1, <2>2
  <1>9. lost' = lost
    OBVIOUS
  <1>10. CASE /\ conn' = [conn EXCEPT ![w] = m] /\ idle' = idle
              /\ c2.auto = sess[s].auto
              /\ c2.work \subseteq sess[s].work \cup ({u} \ {NoUnit})
    <2>1. SafeStep(w, s, c2, m)
      <3> HIDE DEF m
      <3> QED
        BY <1>1, <1>3, <1>4, <1>5, <1>7, <1>8, <1>9, <1>10 DEF SafeStep
    <2> QED
      BY <1>1, <2>1, StepAt
  <1>11. CASE /\ conn' = [conn EXCEPT ![w] = [m EXCEPT !.at = NoSession]]
              /\ idle' \subseteq idle \cup {s} /\ Closed(c2) /\ c2.work = {}
    <2> DEFINE n == [m EXCEPT !.at = NoSession]
    <2>1. /\ n \in ConnType /\ n.at = NoSession /\ n.sa = "active" /\ n.unit = u
          /\ conn' = [conn EXCEPT ![w] = n]
      BY <1>3, <1>11 DEF ConnType
    <2>2. s \notin lost /\ Clean(c2) /\ s # NoSession
      BY <1>1, <1>11 DEF Clean
    <2>3. SafeStep(w, s, c2, n)
      <3> HIDE DEF m, n
      <3> QED
        BY <1>1, <1>4, <1>5, <1>7, <1>9, <1>11, <2>1, <2>2 DEF SafeStep
    <2> QED
      BY <1>1, <2>3, StepAt
  <1> QED
    BY <1>10, <1>11

\* A statement through SQLAlchemy, by the contract of the driver.
LEMMA ExecutePreserves ==
    ASSUME IInv, NEW w \in Worker, NEW u \in Unit \cup {NoUnit}, Execute(w, u)
    PROVE  IInv'
  <1> DEFINE s == conn[w].at
  <1>1. PICK o \in RawExecute(sess[s], {u} \ {NoUnit}) :
          Written(u, o) /\ HandleError(w, o, Active(w, u))
    BY DEF Execute
  <1>2. Begun(w, u) /\ u \in UnitsFor(w) /\ s # NoSession /\ UNCHANGED <<lost, db>>
    BY DEF Execute, Begun, InUse
  <1>3. s \in Session /\ sess[s] \in Conn /\ SessionOK(sess[s])
    BY <1>2, Holding
  <1>4. /\ o.c \in Conn /\ SessionOK(o.c) /\ o.c.auto = sess[s].auto
        /\ o.c.work \subseteq sess[s].work \cup ({u} \ {NoUnit})
    BY <1>1, <1>3, ExecuteContract
  <1>5. u = conn[w].unit \/ (conn[w].unit = NoUnit /\ verdict[u] = "unused")
    BY <1>2 DEF UnitsFor
  <1>6. wrote' \subseteq Unit
    BY <1>1 DEF Written, IInv, TypeOK
  <1>7. PICK c2 \in Conn :
              /\ SessionOK(c2)
              /\ sess' = [sess EXCEPT ![s] = c2]
              /\ stale' \subseteq Session
              /\ \/ /\ Closed(c2) /\ c2.work = {}
                    /\ conn' = [conn EXCEPT ![w] = [Active(w, u) EXCEPT !.at = NoSession]]
                    /\ idle' \subseteq idle \cup {s}
                 \/ /\ c2 = o.c /\ conn' = [conn EXCEPT ![w] = Active(w, u)]
                    /\ idle' = idle
    <2>1. TypeOK
      BY DEF IInv
    <2>2. conn[w].at \in Session /\ o.c \in Conn /\ SessionOK(o.c)
      BY <1>3, <1>4
    <2>3. HandleError(w, o, Active(w, u))
      BY <1>1
    <2>4. \E c \in Conn :
              /\ SessionOK(c)
              /\ sess' = [sess EXCEPT ![conn[w].at] = c]
              /\ stale' \subseteq Session
              /\ \/ /\ IsDisconnect(o.err, o.c) /\ Closed(c) /\ c.work = {}
                    /\ conn' = [conn EXCEPT ![w] = [Active(w, u) EXCEPT !.at = NoSession]]
                    /\ idle' \subseteq idle \cup {conn[w].at}
                 \/ /\ ~IsDisconnect(o.err, o.c) /\ c = o.c
                    /\ conn' = [conn EXCEPT ![w] = Active(w, u)]
                    /\ idle' = idle
      BY <2>1, <2>2, <2>3, HandleErrorShape, Zenon
    <2> QED
      BY <2>4
  <1> QED
    BY <1>2, <1>4, <1>5, <1>6, <1>7, StatementStep

\* As Execute, except that the worker keeps a session found dead.
LEMMA IngestPreserves ==
    ASSUME IInv, NEW w \in Worker, NEW u \in Unit \cup {NoUnit}, Ingest(w, u)
    PROVE  IInv'
  <1> DEFINE s == conn[w].at
  <1>1. PICK o \in RawExecute(sess[s], {u} \ {NoUnit}) :
          Written(u, o) /\ sess' = [sess EXCEPT ![s] = o.c]
    BY DEF Ingest
  <1>2. Begun(w, u) /\ u \in UnitsFor(w) /\ s # NoSession
        /\ conn' = [conn EXCEPT ![w] = Active(w, u)] /\ UNCHANGED <<idle, lost, stale, db>>
    BY DEF Ingest, Begun, InUse
  <1>3. s \in Session /\ sess[s] \in Conn /\ SessionOK(sess[s])
    BY <1>2, Holding
  <1>4. /\ o.c \in Conn /\ SessionOK(o.c) /\ o.c.auto = sess[s].auto
        /\ o.c.work \subseteq sess[s].work \cup ({u} \ {NoUnit})
    BY <1>1, <1>3, ExecuteContract
  <1>5. u = conn[w].unit \/ (conn[w].unit = NoUnit /\ verdict[u] = "unused")
    BY <1>2 DEF UnitsFor
  <1>6. wrote' \subseteq Unit /\ stale' \subseteq Session
    BY <1>1, <1>2 DEF Written, IInv, TypeOK
  <1> QED
    BY <1>1, <1>2, <1>4, <1>5, <1>6, StatementStep

\* An explicit transaction under autocommit.
LEMMA StartTransactionPreserves ==
    ASSUME IInv, NEW w \in Worker, NEW u \in Unit, StartTransaction(w, u)
    PROVE  IInv'
  <1> DEFINE s == conn[w].at
  <1>1. PICK o \in RawBegin(sess[s]) : HandleError(w, o, Active(w, u))
    BY DEF StartTransaction
  <1>2. Begun(w, u) /\ conn[w].unit = NoUnit /\ verdict[u] = "unused" /\ s # NoSession
        /\ UNCHANGED <<lost, wrote, db>>
    BY DEF StartTransaction, Begun, InUse
  <1>3. s \in Session /\ sess[s] \in Conn /\ SessionOK(sess[s])
    BY <1>2, Holding
  <1>4. /\ o.c \in Conn /\ SessionOK(o.c) /\ o.c.auto = sess[s].auto
        /\ o.c.work \subseteq sess[s].work \cup ({u} \ {NoUnit})
    BY <1>1, <1>3, BeginContract
  <1>5. wrote' \subseteq Unit
    BY <1>2 DEF IInv, TypeOK
  <1>6. PICK c2 \in Conn :
              /\ SessionOK(c2)
              /\ sess' = [sess EXCEPT ![s] = c2]
              /\ stale' \subseteq Session
              /\ \/ /\ Closed(c2) /\ c2.work = {}
                    /\ conn' = [conn EXCEPT ![w] = [Active(w, u) EXCEPT !.at = NoSession]]
                    /\ idle' \subseteq idle \cup {s}
                 \/ /\ c2 = o.c /\ conn' = [conn EXCEPT ![w] = Active(w, u)]
                    /\ idle' = idle
    <2>1. TypeOK
      BY DEF IInv
    <2>2. conn[w].at \in Session /\ o.c \in Conn /\ SessionOK(o.c)
      BY <1>3, <1>4
    <2>3. HandleError(w, o, Active(w, u))
      BY <1>1
    <2>4. \E c \in Conn :
              /\ SessionOK(c)
              /\ sess' = [sess EXCEPT ![conn[w].at] = c]
              /\ stale' \subseteq Session
              /\ \/ /\ IsDisconnect(o.err, o.c) /\ Closed(c) /\ c.work = {}
                    /\ conn' = [conn EXCEPT ![w] = [Active(w, u) EXCEPT !.at = NoSession]]
                    /\ idle' \subseteq idle \cup {conn[w].at}
                 \/ /\ ~IsDisconnect(o.err, o.c) /\ c = o.c
                    /\ conn' = [conn EXCEPT ![w] = Active(w, u)]
                    /\ idle' = idle
      BY <2>1, <2>2, <2>3, HandleErrorShape, Zenon
    <2> QED
      BY <2>4
  <1> QED
    BY <1>2, <1>4, <1>5, <1>6, StatementStep

\* The end of a transaction: the worker's unit gets verdict v, and its session
\* becomes c2, kept or given up, with the unit's work gone or v unsettled.
LEMMA EndStep ==
    ASSUME IInv, NEW w \in Worker, conn[w].at # NoSession,
           NEW v \in Verdict, Settle(w, v),
           NEW n \in ConnType, n.unit = NoUnit,
           NEW c2 \in Conn, SessionOK(c2), conn' = [conn EXCEPT ![w] = n],
           sess' = [sess EXCEPT ![conn[w].at] = c2], stale' \subseteq Session,
           c2.work = {} \/ (c2.work \subseteq sess[conn[w].at].work /\ v = "unsettled"),
           \/ /\ n.at = conn[w].at /\ n.phase # "in" /\ idle' = idle /\ lost' = lost
              /\ c2.auto => n.isolated
              /\ n.sa = "inactive" => c2.txn = "none" /\ c2.work = {}
           \/ /\ n.at = NoSession
              /\ idle' \subseteq idle \cup {conn[w].at} /\ (Clean(c2) \/ idle' = idle)
              /\ lost' = lost \/ (lost' = lost \cup {conn[w].at} /\ idle' = idle),
           wrote' = wrote, db' \subseteq Unit,
           \A u \in db' : u \in db \/ verdict'[u] \in {"committed", "unknown", "unsettled"}
    PROVE  IInv'
  <1> USE NoSessionAssumption
  <1> DEFINE s == conn[w].at
  <1>1. conn[w] \in ConnType /\ s \in Session /\ s # NoSession /\ s \notin idle \cup lost
        /\ \A u \in sess[s].work : u \in Unit /\ (verdict[u] = "unsettled" \/ u = conn[w].unit)
    BY Holding
  <1>2. /\ verdict' \in [Unit -> Verdict]
        /\ conn[w].unit # NoUnit => verdict'[conn[w].unit] = v
        /\ \A u \in Unit : verdict'[u] = verdict[u] \/ u = conn[w].unit
        /\ \A u \in db' : verdict'[u] \in {"committed", "unknown", "unsettled"}
        /\ \A u \in Unit : verdict[u] = "unsettled" => verdict'[u] = "unsettled"
    BY SettleFacts
  <1>3. \A u \in c2.work : verdict'[u] = "unsettled"
    BY <1>1, <1>2, NoUnitAssumption
  <1>4. wrote' \subseteq Unit
    BY DEF IInv, TypeOK
  <1>5. SafeStep(w, s, c2, n)
    BY <1>1, <1>2, <1>3, <1>4 DEF SafeStep
  <1> QED
    BY <1>1, <1>5, StepAt

\* The worker's connection after its transaction ended.
LEMMA EndedFields ==
    ASSUME NEW w \in Worker, conn[w] \in ConnType, NEW x \in {"none", "inactive"}
    PROVE  /\ Ended(w, x) \in ConnType /\ Ended(w, x).at = conn[w].at
           /\ Ended(w, x).phase = conn[w].phase /\ Ended(w, x).isolated = conn[w].isolated
           /\ Ended(w, x).sa = x /\ Ended(w, x).unit = NoUnit
  BY DEF Ended, ConnType

\* An error of commit() or rollback() that SQLAlchemy handles, leaving next.
LEMMA EndErrorStep ==
    ASSUME IInv, NEW w \in Worker, conn[w].at # NoSession,
           NEW v \in Verdict, Settle(w, v),
           NEW o, o.c \in Conn, SessionOK(o.c), o.c.auto = sess[conn[w].at].auto,
           NEW next \in ConnType, next.at = conn[w].at, next.phase # "in",
           next.unit = NoUnit, next.isolated = conn[w].isolated,
           next.sa = "inactive" /\ ~IsDisconnect(o.err, o.c)
              => o.c.txn = "none" /\ o.c.work = {},
           o.c.work = {} \/ IsDisconnect(o.err, o.c)
              \/ (o.c.work \subseteq sess[conn[w].at].work /\ v = "unsettled"),
           HandleError(w, o, next), lost' = lost, wrote' = wrote, db' \subseteq Unit,
           \A u \in db' : u \in db \/ verdict'[u] \in {"committed", "unknown", "unsettled"}
    PROVE  IInv'
  <1> USE NoSessionAssumption, NoUnitAssumption
  <1> DEFINE s == conn[w].at
  <1>1. s \in Session /\ TypeOK /\ (sess[s].auto => conn[w].isolated)
    BY Holding DEF IInv
  <1>2. PICK c2 \in Conn :
              /\ SessionOK(c2)
              /\ sess' = [sess EXCEPT ![s] = c2]
              /\ stale' \subseteq Session
              /\ \/ /\ IsDisconnect(o.err, o.c) /\ Closed(c2) /\ c2.work = {}
                    /\ conn' = [conn EXCEPT ![w] = [next EXCEPT !.at = NoSession]]
                    /\ idle' \subseteq idle \cup {s}
                 \/ /\ ~IsDisconnect(o.err, o.c) /\ c2 = o.c
                    /\ conn' = [conn EXCEPT ![w] = next]
                    /\ idle' = idle
    BY <1>1, HandleErrorShape
  <1>3. CASE /\ Closed(c2) /\ c2.work = {}
             /\ conn' = [conn EXCEPT ![w] = [next EXCEPT !.at = NoSession]]
             /\ idle' \subseteq idle \cup {s}
    <2> DEFINE n == [next EXCEPT !.at = NoSession]
    <2>1. n \in ConnType /\ n.unit = NoUnit /\ n.at = NoSession
          /\ conn' = [conn EXCEPT ![w] = n]
      BY <1>3 DEF ConnType
    <2>2. Clean(c2)
      BY <1>3 DEF Clean
    <2> HIDE DEF n
    <2>3. /\ idle' \subseteq idle \cup {conn[w].at} /\ (Clean(c2) \/ idle' = idle)
          /\ lost' = lost \/ (lost' = lost \cup {conn[w].at} /\ idle' = idle)
      BY <1>3, <2>2
    <2>4. sess' = [sess EXCEPT ![conn[w].at] = c2] /\ stale' \subseteq Session
          /\ SessionOK(c2) /\ c2.work = {}
      BY <1>2, <1>3
    <2> QED
      BY <2>1, <2>3, <2>4, EndStep
  <1>4. CASE /\ ~IsDisconnect(o.err, o.c) /\ c2 = o.c
             /\ conn' = [conn EXCEPT ![w] = next] /\ idle' = idle
    BY <1>1, <1>2, <1>4, EndStep
  <1> QED
    BY <1>2, <1>3, <1>4

\* commit(), by its contract; the unit in the session's work is the worker's own.
LEMMA CommitPreserves ==
    ASSUME IInv, NEW w \in Worker, CommitUnit(w)
    PROVE  IInv'
  <1> USE NoUnitAssumption
  <1> DEFINE s == conn[w].at
             nextOK == Ended(w, "none")
             nextFail == Ended(w, "inactive")
  <1>1. PICK o \in Commit(sess[s]) :
          /\ db' = db \cup o.saved
          /\ \/ /\ o.err = "ok" /\ Settle(w, "committed")
                /\ sess' = [sess EXCEPT ![s] = o.c] /\ conn' = [conn EXCEPT ![w] = nextOK]
                /\ UNCHANGED <<idle, stale>>
             \/ /\ o.err \in {"state25", "conflict"} /\ Settle(w, "failed")
                /\ HandleError(w, o, nextFail)
             \/ /\ o.err \in {"terminal", "io"} /\ Settle(w, "unknown")
                /\ HandleError(w, o, nextFail)
    BY DEF CommitUnit
  <1>2. s # NoSession /\ lost' = lost /\ wrote' = wrote
    BY DEF CommitUnit, InUse
  <1>3. conn[w] \in ConnType /\ s \in Session /\ conn[w].phase # "in"
        /\ sess[s] \in Conn /\ SessionOK(sess[s]) /\ (sess[s].auto => conn[w].isolated)
        /\ \A u \in sess[s].work : u \in Unit /\ (verdict[u] = "unsettled" \/ u = conn[w].unit)
    BY <1>2, Holding
  <1>4. /\ o.c \in Conn /\ SessionOK(o.c)
        /\ o.c.auto = sess[s].auto /\ o.c.work = {} /\ o.saved \subseteq sess[s].work
        /\ o.err \in {"state25", "conflict"} => o.saved = {}
        /\ o.err # "ok" /\ ~IsDisconnect(o.err, o.c) => o.c.txn = "none"
    BY <1>1, <1>3, CommitContract
  <1>5. db' \subseteq Unit
    BY <1>1, <1>3, <1>4 DEF IInv, TypeOK
  <1>6. ASSUME NEW v \in {"committed", "unknown"}, Settle(w, v)
        PROVE  \A u \in db' : u \in db \/ verdict'[u] \in {"committed", "unknown", "unsettled"}
    <2>1. v \in Verdict
      BY DEF Verdict
    <2> QED
      BY <1>1, <1>3, <1>4, <1>6, <2>1, SettleFacts
  <1>7. /\ nextOK \in ConnType /\ nextOK.at = s /\ nextOK.unit = NoUnit /\ nextOK.sa = "none"
        /\ nextOK.phase # "in" /\ nextOK.isolated = conn[w].isolated
        /\ nextFail \in ConnType /\ nextFail.at = s /\ nextFail.unit = NoUnit
        /\ nextFail.phase # "in" /\ nextFail.isolated = conn[w].isolated
    BY <1>3, EndedFields
  <1> HIDE DEF nextOK, nextFail
  <1>8. CASE /\ o.err = "ok" /\ Settle(w, "committed")
             /\ sess' = [sess EXCEPT ![s] = o.c] /\ conn' = [conn EXCEPT ![w] = nextOK]
             /\ UNCHANGED <<idle, stale>>
    <2>1. "committed" \in Verdict /\ stale' \subseteq Session
      BY <1>8 DEF Verdict, IInv, TypeOK
    <2> QED
      BY <1>2, <1>3, <1>4, <1>5, <1>6, <1>7, <1>8, <2>1, EndStep
  <1>9. CASE o.err \in {"state25", "conflict"} /\ Settle(w, "failed")
             /\ HandleError(w, o, nextFail)
    <2>1. "failed" \in Verdict /\ db' = db
      BY <1>1, <1>4, <1>9 DEF Verdict
    <2> QED
      BY <1>2, <1>4, <1>5, <1>7, <1>9, <2>1, EndErrorStep
  <1>10. CASE o.err \in {"terminal", "io"} /\ Settle(w, "unknown")
              /\ HandleError(w, o, nextFail)
    <2>1. "unknown" \in Verdict
      BY DEF Verdict
    <2> QED
      BY <1>2, <1>4, <1>5, <1>6, <1>7, <1>10, <2>1, EndErrorStep
  <1> QED
    BY <1>1, <1>8, <1>9, <1>10

\* Rollback of the active transaction raises, in rollback() or in close().
LEMMA RollbackRaisesPreserves ==
    ASSUME IInv, NEW w \in Worker, conn[w].at # NoSession,
           NEW o \in Rollback(sess[conn[w].at]),
           NEW next \in ConnType, next.at = conn[w].at, next.phase # "in",
           next.unit = NoUnit, next.sa = "none", next.isolated = conn[w].isolated,
           RollbackRaises(w, o, next), UNCHANGED <<lost, wrote, db>>
    PROVE  IInv'
  <1> DEFINE v == IF o.err = "refused" THEN "unsettled" ELSE "rolledback"
  <1>1. o.err # "ok" /\ Settle(w, v) /\ HandleError(w, o, next) /\ v \in Verdict
    BY DEF RollbackRaises, Verdict
  <1>2. sess[conn[w].at] \in Conn /\ SessionOK(sess[conn[w].at])
    BY Holding
  <1>3. /\ o.c \in Conn /\ SessionOK(o.c)
        /\ o.c.auto = sess[conn[w].at].auto /\ o.c.work \subseteq sess[conn[w].at].work
        /\ o.err \in {"ok", "terminal", "io", "refused"}
        /\ o.err \in {"terminal", "io"} => o.c.st # "live"
    BY <1>2, RollbackContract
  <1>4. o.c.work = {} \/ v = "unsettled"
    BY <1>1, <1>3 DEF SessionOK
  <1>5. db' \subseteq Unit
    BY DEF IInv, TypeOK
  <1> HIDE DEF v
  <1> QED
    BY <1>1, <1>3, <1>4, <1>5, EndErrorStep

\* rollback(), by its contract.
LEMMA RollbackPreserves ==
    ASSUME IInv, NEW w \in Worker, RollbackUnit(w)
    PROVE  IInv'
  <1> USE NoUnitAssumption
  <1> DEFINE s == conn[w].at
             next == Ended(w, "none")
  <1>1. s # NoSession /\ UNCHANGED <<lost, wrote, db>>
    BY DEF RollbackUnit, InUse
  <1>2. conn[w] \in ConnType /\ s \in Session /\ conn[w].phase # "in"
        /\ sess[s] \in Conn /\ SessionOK(sess[s]) /\ (sess[s].auto => conn[w].isolated)
    BY <1>1, Holding
  <1>3. /\ next \in ConnType /\ next.at = s /\ next.unit = NoUnit /\ next.sa = "none"
        /\ next.phase # "in" /\ next.isolated = conn[w].isolated
    BY <1>2, EndedFields
  <1>4. db' \subseteq Unit /\ db' = db /\ stale \subseteq Session
    BY <1>1 DEF IInv, TypeOK
  <1>5. ASSUME NEW o \in Rollback(sess[s]), o.err = "ok", Settle(w, "rolledback"),
               sess' = [sess EXCEPT ![s] = o.c], conn' = [conn EXCEPT ![w] = next],
               UNCHANGED <<idle, stale>>
        PROVE  IInv'
    <2>1. o.c \in Conn /\ SessionOK(o.c) /\ o.c.auto = sess[s].auto /\ o.c.work = {}
      BY <1>2, <1>5, RollbackContract
    <2>2. "rolledback" \in Verdict
      BY DEF Verdict
    <2> HIDE DEF next
    <2> QED
      BY <1>1, <1>2, <1>3, <1>4, <1>5, <2>1, <2>2, EndStep
  <1>6. ASSUME NEW o \in Rollback(sess[s]), RollbackRaises(w, o, next)
        PROVE  IInv'
    BY <1>1, <1>3, <1>6, RollbackRaisesPreserves
  <1>7. CASE /\ conn[w].sa = "inactive" /\ conn' = [conn EXCEPT ![w].sa = "none"]
             /\ UNCHANGED <<sess, idle, stale, verdict>>
    <2> DEFINE n == [conn[w] EXCEPT !.sa = "none"]
    <2>1. conn[w].unit = NoUnit
      BY <1>7 DEF IInv, UnitOwnership
    <2>2. Settle(w, "rolledback") /\ "rolledback" \in Verdict
      BY <1>7, <2>1 DEF Settle, Verdict
    <2>3. n \in ConnType /\ n.unit = NoUnit /\ n.sa = "none" /\ n.at = s
          /\ n.phase # "in" /\ n.isolated = conn[w].isolated
          /\ conn' = [conn EXCEPT ![w] = n]
      BY <1>2, <1>7, <2>1 DEF ConnType, IInv, TypeOK
    <2>4. sess' = [sess EXCEPT ![s] = sess[s]] /\ sess[s].work = {}
      BY <1>1, <1>7 DEF IInv, TypeOK, FailedCommitEndsTransaction
    <2>5. idle' = idle /\ lost' = lost /\ wrote' = wrote /\ stale' \subseteq Session
          /\ (sess[s].auto => n.isolated)
      BY <1>1, <1>2, <1>4, <1>7, <2>3
    <2> HIDE DEF n
    <2> QED
      BY <1>1, <1>2, <1>4, <2>2, <2>3, <2>4, <2>5, EndStep
  <1> QED
    BY <1>5, <1>6, <1>7 DEF RollbackUnit

\* The worker's connection once closed, or left to be closed again.
LEMMA AwayFields ==
    /\ Away \in ConnType /\ Away.at = NoSession /\ Away.unit = NoUnit
    /\ [Away EXCEPT !.phase = "closing"] \in ConnType
    /\ [Away EXCEPT !.phase = "closing"].at = NoSession
    /\ [Away EXCEPT !.phase = "closing"].unit = NoUnit
  BY DEF Away, ConnType

\* The session comes back without a transaction.
LEMMA CheckInPreserves ==
    ASSUME IInv, NEW w \in Worker, conn[w].at # NoSession,
           NEW v \in Verdict, Settle(w, v),
           NEW c \in Conn, SessionOK(c), c.work = {}, Closed(c) \/ c.txn = "none",
           c.auto => conn[w].isolated, CheckIn(w, c), wrote' = wrote
    PROVE  IInv'
  <1>1. conn[w].at \in Session /\ TypeOK
    BY Holding DEF IInv
  <1>2. /\ \E k \in Conn :
                /\ SessionOK(k) /\ k.work = {}
                /\ sess' = [sess EXCEPT ![conn[w].at] = k]
                /\ idle' \subseteq idle \cup {conn[w].at} /\ (Clean(k) \/ idle' = idle)
        /\ lost' = lost \/ (lost' = lost \cup {conn[w].at} /\ idle' = idle)
        /\ \E n \in {Away, [Away EXCEPT !.phase = "closing"]} :
                conn' = [conn EXCEPT ![w] = n]
        /\ db' = db /\ stale' = stale
    BY <1>1, CheckInShape
  <1>3. PICK k \in Conn :
                /\ SessionOK(k) /\ k.work = {}
                /\ sess' = [sess EXCEPT ![conn[w].at] = k]
                /\ idle' \subseteq idle \cup {conn[w].at} /\ (Clean(k) \/ idle' = idle)
    BY <1>2
  <1>4. PICK n : n \in ConnType /\ n.at = NoSession /\ n.unit = NoUnit
                 /\ conn' = [conn EXCEPT ![w] = n]
    BY <1>2, AwayFields
  <1>5. db' \subseteq Unit /\ db' = db /\ stale' \subseteq Session
    BY <1>1, <1>2 DEF TypeOK
  <1> QED
    BY <1>2, <1>3, <1>4, <1>5, EndStep

\* The pool's reset: of a session without work, or whatever it holds.
LEMMA ResetPreserves ==
    ASSUME IInv, NEW w \in Worker, conn[w].at # NoSession,
           NEW v \in Verdict, Settle(w, v), ResetAndCheckIn(w), wrote' = wrote
    PROVE  IInv'
  <1>1. PICK o \in Rollback(sess[conn[w].at]) :
          \/ o.err = "ok" /\ CheckIn(w, o.c)
          \/ /\ o.err # "ok"
             /\ \E k \in Close(o.c) : PutBack(conn[w].at, k.c)
             /\ conn' = [conn EXCEPT ![w] = Away] /\ UNCHANGED <<lost, stale, db>>
    BY DEF ResetAndCheckIn
  <1>2. conn[w].at \in Session /\ sess[conn[w].at] \in Conn /\ SessionOK(sess[conn[w].at])
        /\ (sess[conn[w].at].auto => conn[w].isolated) /\ TypeOK
    BY Holding DEF IInv
  <1>3. /\ o.c \in Conn /\ SessionOK(o.c) /\ o.c.auto = sess[conn[w].at].auto
        /\ o.err = "ok" => o.c.work = {} /\ (Closed(o.c) \/ o.c.txn = "none")
    BY <1>2, RollbackContract
  <1>4. CASE o.err = "ok" /\ CheckIn(w, o.c)
    BY <1>2, <1>3, <1>4, CheckInPreserves
  <1>5. CASE /\ \E k \in Close(o.c) : PutBack(conn[w].at, k.c)
             /\ conn' = [conn EXCEPT ![w] = Away] /\ UNCHANGED <<lost, stale, db>>
    <2>1. PICK k \in Close(o.c) : PutBack(conn[w].at, k.c)
      BY <1>5
    <2>2. k.c \in Conn /\ SessionOK(k.c) /\ Closed(k.c) /\ k.c.work = {}
      BY <1>3, CloseContract DEF SessionOK
    <2>3. PICK c \in Conn : /\ SessionOK(c) /\ (c = k.c \/ (Closed(c) /\ c.work = {}))
                            /\ sess' = [sess EXCEPT ![conn[w].at] = c]
                            /\ idle' \subseteq idle \cup {conn[w].at}
      BY <1>2, <2>1, <2>2, PutBackShape
    <2>4. Clean(c) /\ c.work = {}
      BY <2>2, <2>3 DEF Clean
    <2>5. db' \subseteq Unit /\ db' = db /\ stale' \subseteq Session
      BY <1>2, <1>5 DEF TypeOK
    <2> QED
      BY <1>5, <2>3, <2>4, <2>5, AwayFields, EndStep
  <1> QED
    BY <1>1, <1>4, <1>5

\* close() of a connection whose session was given up before.
LEMMA AwayCloses ==
    ASSUME IInv, NEW w \in Worker, conn[w].at = NoSession, Settle(w, "rolledback"),
           conn' = [conn EXCEPT ![w] = Away], wrote' = wrote,
           UNCHANGED <<sess, idle, lost, stale, db>>
    PROVE  IInv'
  <1> USE NoSessionAssumption, NoUnitAssumption
  <1> DEFINE u == conn[w].unit
  <1>1. /\ verdict' \in [Unit -> Verdict]
        /\ \A v \in Unit : verdict'[v] = verdict[v] \/ v = u
        /\ \A v \in db : verdict'[v] \in {"committed", "unknown", "unsettled"}
        /\ \A v \in Unit : verdict[v] = "unsettled" => verdict'[v] = "unsettled"
    BY SettleFacts DEF Verdict
  <1>2. TypeOK'
    BY <1>1, AwayFields DEF IInv, TypeOK
  <1>3. (\A r \in Session : SessionOK(sess[r]))' /\ (\A r \in idle : Clean(sess[r]))'
    BY DEF IInv
  <1>4. Ownership' /\ IsolationTracked' /\ FailedCommitEndsTransaction'
    BY AwayFields DEF IInv, TypeOK, Ownership, IsolationTracked, FailedCommitEndsTransaction
  <1>5. UnitOwnership'
    BY <1>1, AwayFields DEF IInv, TypeOK, UnitOwnership, ConnType
  <1>6. WorkOwned'
    <2> SUFFICES ASSUME NEW r \in Session, NEW v \in sess[r].work
                 PROVE  verdict'[v] = "unsettled" \/
                        \E x \in Worker : conn'[x].at = r /\ conn'[x].unit = v
      BY DEF WorkOwned
    <2>1. v \in Unit
      BY DEF IInv, TypeOK, Conn
    <2>2. CASE verdict[v] = "unsettled"
      BY <1>1, <2>1, <2>2
    <2>3. CASE \E x \in Worker : conn[x].at = r /\ conn[x].unit = v
      BY <2>3 DEF IInv, TypeOK
    <2> QED
      BY <2>2, <2>3 DEF IInv, WorkOwned
  <1>7. NoResurrection'
    BY <1>1 DEF NoResurrection
  <1> QED
    BY <1>2, <1>3, <1>4, <1>5, <1>6, <1>7 DEF IInv

\* close(), by the state of SQLAlchemy's transaction.
LEMMA ClosePreserves ==
    ASSUME IInv, NEW w \in Worker, CloseConnection(w)
    PROVE  IInv'
  <1> DEFINE s == conn[w].at
  <1>1. wrote' = wrote /\ conn[w].phase # "in" /\ "rolledback" \in Verdict
    BY DEF CloseConnection, Verdict
  <1>2. CASE /\ s = NoSession /\ Settle(w, "rolledback")
             /\ conn' = [conn EXCEPT ![w] = Away] /\ UNCHANGED <<sess, idle, lost, stale, db>>
    BY <1>1, <1>2, AwayCloses
  <1>3. CASE s # NoSession /\ conn[w].sa = "active"
    <2>1. conn[w] \in ConnType /\ s \in Session /\ sess[s] \in Conn /\ SessionOK(sess[s])
          /\ (sess[s].auto => conn[w].isolated)
      BY <1>3, Holding
    <2>2. ASSUME NEW o \in Rollback(sess[s]), o.err = "ok", Settle(w, "rolledback"),
                 CheckIn(w, o.c)
          PROVE  IInv'
      <3>1. /\ o.c \in Conn /\ SessionOK(o.c) /\ o.c.auto = sess[s].auto
            /\ o.c.work = {} /\ (Closed(o.c) \/ o.c.txn = "none")
        BY <2>1, <2>2, RollbackContract
      <3> QED
        BY <1>1, <1>3, <2>1, <2>2, <3>1, CheckInPreserves
    <2>3. ASSUME NEW o \in Rollback(sess[s]), UNCHANGED <<lost, db>>,
                 RollbackRaises(w, o, [Ended(w, "none") EXCEPT !.phase = "closing"])
          PROVE  IInv'
      <3> DEFINE n == [Ended(w, "none") EXCEPT !.phase = "closing"]
      <3>1. n \in ConnType /\ n.at = s /\ n.phase # "in" /\ n.unit = NoUnit
            /\ n.sa = "none" /\ n.isolated = conn[w].isolated
        BY <2>1, EndedFields DEF ConnType
      <3>2. RollbackRaises(w, o, n)
        BY <2>3
      <3> HIDE DEF n
      <3> QED
        BY <1>1, <1>3, <2>3, <3>1, <3>2, RollbackRaisesPreserves
    <2> QED
      BY <1>3, <2>2, <2>3 DEF CloseConnection
  <1>4. CASE s # NoSession /\ conn[w].sa # "active"
    <2>1. conn[w] \in ConnType /\ s \in Session /\ sess[s] \in Conn /\ SessionOK(sess[s])
          /\ (sess[s].auto => conn[w].isolated) /\ conn[w].unit = NoUnit
      BY <1>4, Holding DEF IInv, UnitOwnership
    <2>2. verdict' = verdict
      BY <1>4 DEF CloseConnection
    <2>3. Settle(w, "rolledback")
      BY <2>1, <2>2 DEF Settle
    <2>4. CASE conn[w].sa = "inactive" /\ CheckIn(w, sess[s])
      <3>1. sess[s].txn = "none" /\ sess[s].work = {}
        BY <1>4, <2>4 DEF IInv, FailedCommitEndsTransaction
      <3> QED
        BY <1>1, <1>4, <2>1, <2>3, <2>4, <3>1, CheckInPreserves
    <2>5. CASE ResetAndCheckIn(w)
      BY <1>1, <1>4, <2>3, <2>5, ResetPreserves
    <2> QED
      BY <1>4, <2>4, <2>5 DEF CloseConnection
  <1> QED
    BY <1>2, <1>3, <1>4 DEF CloseConnection

\* A connection collected instead of closed.
LEMMA CollectedPreserves ==
    ASSUME IInv, NEW w \in Worker, Collected(w)
    PROVE  IInv'
  <1>1. conn[w].at # NoSession /\ Settle(w, "rolledback") /\ ResetAndCheckIn(w)
        /\ wrote' = wrote /\ "rolledback" \in Verdict
    BY DEF Collected, Verdict
  <1> QED
    BY <1>1, ResetPreserves

\* A failing transport only takes work away.
LEMMA TransportFailsPreserves ==
    ASSUME IInv, NEW s \in Session, TransportFails(s)
    PROVE  IInv'
  <1>1. /\ sess[s] \in Conn /\ sess[s].st = "live" /\ sess' = [sess EXCEPT ![s] = Lose(sess[s])]
        /\ UNCHANGED <<idle, lost, stale, conn, verdict, wrote, db>>
    BY DEF TransportFails, IInv, TypeOK
  <1>2. /\ Lose(sess[s]) \in Conn /\ SessionOK(Lose(sess[s])) /\ Lose(sess[s]).st = "dead"
        /\ Lose(sess[s]).auto = sess[s].auto /\ Lose(sess[s]).txn = sess[s].txn
        /\ Lose(sess[s]).work = {}
    BY <1>1, LoseFields
  <1>3. Clean(sess[s]) => Clean(Lose(sess[s]))
    BY <1>1, <1>2 DEF Clean, IInv, SessionOK
  <1>4. \A r \in Session : /\ sess'[r].work \subseteq sess[r].work
                           /\ sess'[r].auto = sess[r].auto /\ sess'[r].txn = sess[r].txn
    BY <1>1, <1>2 DEF IInv, TypeOK
  <1>5. TypeOK' /\ (\A r \in Session : SessionOK(sess[r]))'
    BY <1>1, <1>2 DEF IInv, TypeOK
  <1>6. (\A r \in idle : Clean(sess[r]))'
    BY <1>1, <1>3 DEF IInv, TypeOK
  <1>7. Ownership' /\ UnitOwnership' /\ NoResurrection'
    BY <1>1 DEF IInv, Ownership, UnitOwnership, NoResurrection
  <1>8. WorkOwned'
    BY <1>1, <1>4 DEF IInv, WorkOwned
  <1>9. IsolationTracked'
    BY <1>1, <1>4 DEF IInv, TypeOK, ConnType, IsolationTracked
  <1>10. FailedCommitEndsTransaction'
    BY <1>1, <1>4 DEF IInv, TypeOK, ConnType, FailedCommitEndsTransaction
  <1> QED
    BY <1>5, <1>6, <1>7, <1>8, <1>9, <1>10 DEF IInv

-----------------------------------------------------------------------------
(* The theorems.                                                           *)

\* The initial states satisfy IInv.
LEMMA InitIInv == Init => IInv
  <1> SUFFICES ASSUME Init PROVE IInv
    OBVIOUS
  <1> USE NoSessionAssumption, NoUnitAssumption
  <1>1. Absent \in Conn /\ SessionOK(Absent) /\ Absent.work = {}
    BY DEF Absent, Fresh, Conn, SessionOK
  <1>2. Away \in ConnType /\ Away.at = NoSession /\ Away.unit = NoUnit
    BY AwayFields
  <1>3. TypeOK
    BY <1>1, <1>2 DEF Init, TypeOK, Verdict
  <1>4. Ownership /\ UnitOwnership /\ WorkOwned /\ IsolationTracked
        /\ FailedCommitEndsTransaction /\ NoResurrection
    BY <1>1, <1>2 DEF Init, Ownership, UnitOwnership, WorkOwned, IsolationTracked,
                      FailedCommitEndsTransaction, NoResurrection
  <1> QED
    BY <1>1, <1>3, <1>4 DEF Init, IInv

\* Every step preserves IInv.
LEMMA NextIInv == IInv /\ [Next]_vars => IInv'
  <1> SUFFICES ASSUME IInv, [Next]_vars PROVE IInv'
    OBVIOUS
  <1>1. CASE UNCHANGED vars
    BY <1>1 DEF vars, IInv, TypeOK, Ownership, UnitOwnership, WorkOwned, IsolationTracked,
                FailedCommitEndsTransaction, NoResurrection
  <1>2. ASSUME NEW w \in Worker, Checkout(w) PROVE IInv'
    BY <1>2, CheckoutPreserves
  <1>3. ASSUME NEW w \in Worker, Work(w) PROVE IInv'
    BY <1>3, RequestAutocommitPreserves, ExecutePreserves, IngestPreserves,
       StartTransactionPreserves, CommitPreserves, RollbackPreserves DEF Work
  <1>4. ASSUME NEW w \in Worker, CloseConnection(w) \/ Collected(w) PROVE IInv'
    BY <1>4, ClosePreserves, CollectedPreserves
  <1>5. ASSUME NEW s \in Session, TransportFails(s) PROVE IInv'
    BY <1>5, TransportFailsPreserves
  <1> QED
    BY <1>1, <1>2, <1>3, <1>4, <1>5 DEF Next

\* IInv is an inductive invariant of the pool.
THEOREM Invariance == Spec => []IInv
  BY InitIInv, NextIInv, PTL DEF Spec

\* The variables keep their types, and a wrapper that calls itself closed, for
\* whatever reason, has let go of the session of the server.
THEOREM NothingLeaks == Spec => []NothingLeaked
  <1>1. IInv => NothingLeaked
    BY DEF IInv, SessionOK, NothingLeaked
  <1> QED
    BY <1>1, Invariance, PTL

\* A usable session waiting in the pool has no transaction and no uncommitted
\* work, and is in manual commit mode, whatever its last users did.
THEOREM PoolStaysClean == Spec => []IdleClean
  <1>1. IInv => IdleClean
    BY DEF IInv, IdleClean, Clean, SessionOK, TypeOK
  <1> QED
    BY <1>1, Invariance, PTL

\* Work that was rolled back, or whose commit was reported as failed, is never
\* durable.
THEOREM NothingResurrected == Spec => []NoResurrection
  <1>1. IInv => NoResurrection
    BY DEF IInv
  <1> QED
    BY <1>1, Invariance, PTL

\* The session a failed commit leaves with its worker has no transaction, so
\* that returning it to the pool without a reset is safe.
THEOREM FailedCommitsEnd == Spec => []FailedCommitEndsTransaction
  <1>1. IInv => FailedCommitEndsTransaction
    BY DEF IInv
  <1> QED
    BY <1>1, Invariance, PTL

\* Uncommitted work on a session belongs to the worker that holds it, or to a
\* unit whose rollback the server refused.
THEOREM WorkIsOwned == Spec => []OwnWorkOnly
  <1>1. IInv => OwnWorkOnly
    BY NoUnitAssumption DEF IInv, TypeOK, Conn, WorkOwned, UnitOwnership, OwnWorkOnly
  <1> QED
    BY <1>1, Invariance, PTL

-----------------------------------------------------------------------------
(* Durability, and what is lost to the pool.                               *)

\* A session in use is not released.  While its worker's unit runs autocommit is
\* suspended, and a live session holds what the unit has written.
InHand(c, u) ==
    /\ c.st # "released"
    /\ u # NoUnit => /\ ~Autocommit(c)
                     /\ u \in wrote /\ c.st = "live" => u \in c.work

\* The wrapper of a session that is released knows it.
Shut(c) == c.st = "released" => Closed(c)

WorkInHand ==
    /\ \A s \in Session : Shut(sess[s])
    /\ \A w \in Worker : conn[w].at # NoSession => InHand(sess[conn[w].at], conn[w].unit)
    /\ \A u \in wrote : verdict[u] # "unused"

DInv == IInv /\ WorkInHand /\ Durability /\ LostOnlyToDeadAutocommit

\* A step of worker w, with the session it had or has.
LEMMA DurableStep ==
    ASSUME DInv, IInv', NEW w \in Worker,
           \A v \in Worker \ {w} : conn'[v] = conn[v],
           \A r \in Session : r # conn[w].at /\ r # conn'[w].at => sess'[r] = sess[r],
           \A r \in Session : sess'[r] = sess[r] \/ Shut(sess'[r]),
           wrote' \subseteq wrote \cup {conn'[w].unit}, db \subseteq db',
           \A u \in Unit : verdict'[u] = verdict[u] \/ u \in {conn[w].unit, conn'[w].unit},
           \A u \in wrote' \cap {conn[w].unit, conn'[w].unit} :
               verdict'[u] # "unused" /\ (verdict'[u] = "committed" => u \in db'),
           conn'[w].at # NoSession =>
               InHand(sess[conn[w].at], conn[w].unit)',
           \A s \in lost' : s \in lost \/ (sess'[s].st = "dead" /\ sess'[s].auto)
    PROVE  DInv'
  <1>1. ASSUME NEW v \in Worker \ {w}, conn'[v].at # NoSession
        PROVE  InHand(sess[conn[v].at], conn[v].unit)'
    <2>1. conn'[v] = conn[v] /\ conn[v].at \in Session
      BY <1>1 DEF DInv, IInv, TypeOK, ConnType
    <2>2. conn[v].at # conn[w].at
      BY <1>1, <2>1 DEF DInv, IInv, Ownership
    <2>3. conn[v].at # conn'[w].at
      BY <1>1, <2>1 DEF IInv, Ownership
    <2>4. conn[v].unit # NoUnit => conn[v].unit # conn'[w].unit
      BY <2>1 DEF IInv, UnitOwnership
    <2>5. sess'[conn[v].at] = sess[conn[v].at]
      BY <2>1, <2>2, <2>3
    <2>6. InHand(sess[conn[v].at], conn[v].unit)
      BY <1>1, <2>1 DEF DInv, WorkInHand
    <2> QED
      BY <2>1, <2>4, <2>5, <2>6 DEF InHand
  <1>2. \A v \in Worker : conn'[v].at # NoSession => InHand(sess[conn[v].at], conn[v].unit)'
    <2> SUFFICES ASSUME NEW v \in Worker, conn'[v].at # NoSession
                 PROVE  InHand(sess[conn[v].at], conn[v].unit)'
      OBVIOUS
    <2>1. CASE v = w
      BY <2>1, Zenon
    <2>2. CASE v # w
      BY <1>1, <2>2, Zenon
    <2> QED
      BY <2>1, <2>2
  <1>3. ASSUME NEW u \in wrote'
        PROVE  verdict'[u] # "unused" /\ (verdict'[u] = "committed" => u \in db')
    <2>1. CASE u \in {conn[w].unit, conn'[w].unit}
      BY <2>1
    <2>2. CASE u \notin {conn[w].unit, conn'[w].unit}
      <3>1. u \in Unit /\ u \in wrote /\ verdict'[u] = verdict[u]
        BY <2>2 DEF DInv, IInv, TypeOK
      <3> QED
        BY <3>1 DEF DInv, WorkInHand, Durability
    <2> QED
      BY <2>1, <2>2
  <1>4. LostOnlyToDeadAutocommit'
    <2> SUFFICES ASSUME NEW s \in lost' PROVE sess'[s].st = "dead" /\ sess'[s].auto
      BY DEF LostOnlyToDeadAutocommit
    <2>1. CASE s \in lost
      <3>1. s # conn[w].at
        BY <2>1 DEF DInv, IInv, Ownership
      <3>2. s # conn'[w].at
        BY DEF IInv, Ownership
      <3>3. s \in Session
        BY <2>1 DEF DInv, IInv, TypeOK
      <3> QED
        BY <2>1, <3>1, <3>2, <3>3 DEF DInv, LostOnlyToDeadAutocommit
    <2> QED
      BY <2>1
  <1>5. WorkInHand'
    <2>1. \A r \in Session : Shut(sess[r])'
      BY DEF DInv, WorkInHand, Shut
    <2> QED
      BY <1>2, <1>3, <2>1 DEF WorkInHand
  <1>6. Durability'
    BY <1>3 DEF Durability
  <1> QED
    BY <1>4, <1>5, <1>6 DEF DInv

\* A step after which the worker has no unit.
LEMMA DurableEnd ==
    ASSUME DInv, IInv', NEW w \in Worker, NEW n, n.unit = NoUnit,
           conn' = [conn EXCEPT ![w] = n],
           NEW v \in Verdict \ {"unused"}, Settle(w, v),
           v = "committed" /\ conn[w].unit \in wrote => conn[w].unit \in db',
           \A r \in Session : r # conn[w].at /\ r # n.at => sess'[r] = sess[r],
           n.at # NoSession => sess'[n.at].st # "released",
           conn[w].at \in Session => Shut(sess'[conn[w].at]),
           wrote' = wrote, db \subseteq db',
           \A s \in lost' : s \in lost \/ (sess'[s].st = "dead" /\ sess'[s].auto)
    PROVE  DInv'
  <1>1. conn'[w] = n /\ \A x \in Worker \ {w} : conn'[x] = conn[x]
    BY DEF DInv, IInv, TypeOK
  <1>2. NoUnit \notin wrote'
    BY NoUnitAssumption DEF DInv, IInv, TypeOK
  <1>3. \A u \in Unit : verdict'[u] = verdict[u] \/ u = conn[w].unit
    BY DEF Settle, DInv, IInv, TypeOK
  <1>4. conn[w].unit \in wrote => verdict'[conn[w].unit] = v
    <2> SUFFICES ASSUME conn[w].unit \in wrote PROVE verdict'[conn[w].unit] = v
      OBVIOUS
    <2>1. conn[w].unit # NoUnit /\ conn[w].unit \in Unit
      BY <1>2 DEF DInv, IInv, TypeOK
    <2> QED
      BY <2>1 DEF Settle, DInv, IInv, TypeOK
  <1>5. conn'[w].at # NoSession => InHand(sess[conn[w].at], conn[w].unit)'
    BY <1>1 DEF InHand
  <1>6. \A r \in Session : sess'[r] = sess[r] \/ Shut(sess'[r])
    BY NoSessionAssumption DEF Shut
  <1> QED
    BY <1>1, <1>2, <1>3, <1>4, <1>5, <1>6, DurableStep

\* Where the effects of a step are: at the slot of the worker.
LEMMA PutBackAt ==
    ASSUME NEW s \in Session, NEW c \in Conn, SessionOK(c), Shut(c), PutBack(s, c), TypeOK
    PROVE  Shut(sess'[s]) /\ \A r \in Session \ {s} : sess'[r] = sess[r]
  <1>1. \/ sess' = [sess EXCEPT ![s] = c]
        \/ \E k \in Close(c) : sess' = [sess EXCEPT ![s] = k.c]
    BY DEF PutBack
  <1>2. \A k \in Close(c) : Shut(k.c)
    BY CloseContract DEF Shut
  <1> QED
    BY <1>1, <1>2 DEF TypeOK

LEMMA HandleErrorAt ==
    ASSUME TypeOK, NEW w \in Worker, conn[w].at \in Session, NEW next \in ConnType,
           NEW o, o.c \in Conn, SessionOK(o.c), HandleError(w, o, next)
    PROVE  /\ \A r \in Session \ {conn[w].at} : sess'[r] = sess[r]
           /\ \/ conn' = [conn EXCEPT ![w] = [next EXCEPT !.at = NoSession]]
                 /\ IsDisconnect(o.err, o.c) /\ Shut(sess'[conn[w].at])
              \/ conn' = [conn EXCEPT ![w] = next] /\ sess'[conn[w].at] = o.c
                 /\ ~IsDisconnect(o.err, o.c)
  <1>1. CASE IsDisconnect(o.err, o.c)
    <2>1. \E k \in Close(o.c) : PutBack(conn[w].at, k.c)
      BY <1>1 DEF HandleError, Disconnect
    <2>2. conn' = [conn EXCEPT ![w] = [next EXCEPT !.at = NoSession]]
      BY <1>1 DEF HandleError
    <2>4. \A k \in Close(o.c) : k.c \in Conn /\ SessionOK(k.c) /\ Shut(k.c)
      BY CloseContract DEF Shut
    <2>3. Shut(sess'[conn[w].at]) /\ \A r \in Session \ {conn[w].at} : sess'[r] = sess[r]
      BY <2>1, <2>4, PutBackAt
    <2> QED
      BY <1>1, <2>2, <2>3
  <1>2. CASE ~IsDisconnect(o.err, o.c)
    BY <1>2 DEF HandleError, TypeOK
  <1> QED
    BY <1>1, <1>2

\* The connection a worker is left with when its session is gone.
LEMMA AwayGone ==
    \A n \in {Away, [Away EXCEPT !.phase = "closing"]} : n.unit = NoUnit /\ n.at = NoSession
  BY DEF Away

LEMMA CheckInDurable ==
    ASSUME DInv, IInv', NEW w \in Worker, conn[w].at \in Session,
           NEW v \in Verdict \ {"unused", "committed"}, Settle(w, v),
           NEW c \in Conn, SessionOK(c), c.st # "released", CheckIn(w, c), wrote' = wrote
    PROVE  DInv'
  <1> DEFINE s == conn[w].at
             Restored == IF conn[w].isolated THEN SetIsolationLevel(c, "SERIALIZABLE")
                                             ELSE {Outcome(c, "ok", {})}
  <1>1. PICK f \in Restored :
          /\ db' = db \cup f.saved
          /\ \/ /\ f.err = "ok" /\ PutBack(s, f.c)
                /\ conn' = [conn EXCEPT ![w] = Away] /\ lost' = lost
             \/ /\ f.err # "ok" /\ sess' = [sess EXCEPT ![s] = f.c] /\ lost' = lost \cup {s}
                /\ conn' = [conn EXCEPT ![w] = [Away EXCEPT !.phase = "closing"]]
    BY DEF CheckIn
  <1>2. /\ f.err # "ok" => f.c.st = "dead" /\ f.c.auto
        /\ f.c \in Conn /\ SessionOK(f.c) /\ Shut(f.c)
    <2>1. CASE conn[w].isolated
      BY <1>1, <2>1, IsolationKeeps, IsolationContract DEF Shut
    <2>2. CASE ~conn[w].isolated
      BY <1>1, <2>2, OutcomeFields DEF Shut
    <2> QED
      BY <2>1, <2>2
  <1> HIDE DEF Restored
  <1>3. TypeOK
    BY DEF DInv, IInv
  <1>4. Shut(sess'[s]) /\ \A r \in Session \ {s} : sess'[r] = sess[r]
    BY <1>1, <1>2, <1>3, PutBackAt DEF TypeOK
  <1>5. \A r \in lost' : r \in lost \/ (sess'[r].st = "dead" /\ sess'[r].auto)
    BY <1>1, <1>2, <1>3 DEF TypeOK
  <1>6. \E n \in {Away, [Away EXCEPT !.phase = "closing"]} : conn' = [conn EXCEPT ![w] = n]
    BY <1>1
  <1>7. PICK n : n.unit = NoUnit /\ n.at = NoSession /\ conn' = [conn EXCEPT ![w] = n]
    BY <1>6, AwayGone
  <1>8. db \subseteq db'
    BY <1>1
  <1> QED
    BY <1>4, <1>5, <1>7, <1>8, DurableEnd

LEMMA ResetDurable ==
    ASSUME DInv, IInv', NEW w \in Worker, conn[w].at # NoSession,
           NEW v \in Verdict \ {"unused", "committed"}, Settle(w, v),
           ResetAndCheckIn(w), wrote' = wrote
    PROVE  DInv'
  <1>1. PICK o \in Rollback(sess[conn[w].at]) :
          \/ o.err = "ok" /\ CheckIn(w, o.c)
          \/ /\ \E k \in Close(o.c) : PutBack(conn[w].at, k.c)
             /\ conn' = [conn EXCEPT ![w] = Away] /\ UNCHANGED <<lost, stale, db>>
    BY DEF ResetAndCheckIn
  <1>2. conn[w].at \in Session /\ sess[conn[w].at] \in Conn /\ SessionOK(sess[conn[w].at]) /\ TypeOK
    BY Holding DEF DInv, IInv
  <1>3. sess[conn[w].at].st # "released"
    BY DEF DInv, WorkInHand, InHand
  <1>4. o.c \in Conn /\ SessionOK(o.c) /\ o.c.st # "released"
    BY <1>2, <1>3, RollbackContract, RollbackKeeps
  <1>5. CASE o.err = "ok" /\ CheckIn(w, o.c)
    BY <1>2, <1>4, <1>5, CheckInDurable
  <1>6. CASE /\ \E k \in Close(o.c) : PutBack(conn[w].at, k.c)
             /\ conn' = [conn EXCEPT ![w] = Away] /\ UNCHANGED <<lost, stale, db>>
    <2>1. Shut(sess'[conn[w].at]) /\ \A r \in Session \ {conn[w].at} : sess'[r] = sess[r]
      <3>1. \A k \in Close(o.c) : k.c \in Conn /\ SessionOK(k.c) /\ Shut(k.c)
        BY <1>4, CloseContract DEF Shut
      <3> QED
        BY <1>2, <1>6, <3>1, PutBackAt
    <2>2. Away.unit = NoUnit /\ Away.at = NoSession
      BY AwayFields
    <2> QED
      BY <1>6, <2>1, <2>2, DurableEnd
  <1> QED
    BY <1>1, <1>5, <1>6

\* An error that ends the worker's unit.
LEMMA ErrorDurable ==
    ASSUME DInv, IInv', NEW w \in Worker, conn[w].at # NoSession,
           NEW v \in Verdict \ {"unused", "committed"}, Settle(w, v),
           NEW next \in ConnType, next.at = conn[w].at, next.unit = NoUnit,
           NEW o, o.c \in Conn, SessionOK(o.c), HandleError(w, o, next),
           ~IsDisconnect(o.err, o.c) => o.c.st # "released",
           lost' = lost, wrote' = wrote, db \subseteq db'
    PROVE  DInv'
  <1>1. conn[w].at \in Session /\ TypeOK
    BY Holding DEF DInv, IInv
  <1>2. /\ \A r \in Session \ {conn[w].at} : sess'[r] = sess[r]
        /\ \/ conn' = [conn EXCEPT ![w] = [next EXCEPT !.at = NoSession]]
              /\ IsDisconnect(o.err, o.c)
           \/ conn' = [conn EXCEPT ![w] = next] /\ sess'[conn[w].at] = o.c
              /\ ~IsDisconnect(o.err, o.c)
        /\ Shut(sess'[conn[w].at])
    BY <1>1, HandleErrorAt DEF Shut
  <1>3. CASE conn' = [conn EXCEPT ![w] = [next EXCEPT !.at = NoSession]]
    <2> DEFINE n == [next EXCEPT !.at = NoSession]
    <2>1. n.unit = NoUnit /\ n.at = NoSession /\ conn' = [conn EXCEPT ![w] = n]
      BY <1>3 DEF ConnType
    <2>2. \A r \in Session : r # conn[w].at /\ r # n.at => sess'[r] = sess[r]
      BY <1>2
    <2> HIDE DEF n
    <2>3. v \in Verdict \ {"unused"} /\ v # "committed" /\ Settle(w, v)
      OBVIOUS
    <2>4. wrote' = wrote /\ db \subseteq db' /\ \A s \in lost' : s \in lost
      OBVIOUS
    <2> QED
      BY <1>2, <2>1, <2>2, <2>3, <2>4, DurableEnd
  <1>4. CASE conn' = [conn EXCEPT ![w] = next] /\ sess'[conn[w].at] = o.c
             /\ ~IsDisconnect(o.err, o.c)
    <2>1. \A r \in Session : r # conn[w].at /\ r # next.at => sess'[r] = sess[r]
      BY <1>2
    <2>2. next.at # NoSession => sess'[next.at].st # "released"
      BY <1>4
    <2>3. v \in Verdict \ {"unused"} /\ v # "committed" /\ Settle(w, v)
      OBVIOUS
    <2>4. wrote' = wrote /\ db \subseteq db' /\ \A s \in lost' : s \in lost
      OBVIOUS
    <2>5. conn' = [conn EXCEPT ![w] = next] /\ next.unit = NoUnit
      BY <1>4
    <2> QED
      BY <1>2, <2>1, <2>2, <2>3, <2>4, <2>5, DurableEnd
  <1> QED
    BY <1>2, <1>3, <1>4

LEMMA CommitDurable ==
    ASSUME DInv, IInv', NEW w \in Worker, CommitUnit(w)
    PROVE  DInv'
  <1> DEFINE s == conn[w].at
  <1>1. PICK o \in Commit(sess[s]) :
          /\ db' = db \cup o.saved
          /\ \/ /\ o.err = "ok" /\ Settle(w, "committed")
                /\ sess' = [sess EXCEPT ![s] = o.c] /\ conn' = [conn EXCEPT ![w] = Ended(w, "none")]
             \/ /\ o.err \in {"state25", "conflict"} /\ Settle(w, "failed")
                /\ HandleError(w, o, Ended(w, "inactive"))
             \/ /\ o.err \in {"terminal", "io"} /\ Settle(w, "unknown")
                /\ HandleError(w, o, Ended(w, "inactive"))
    BY DEF CommitUnit
  <1>2. s # NoSession /\ lost' = lost /\ wrote' = wrote /\ TypeOK
    BY DEF CommitUnit, InUse, DInv, IInv
  <1>3. conn[w] \in ConnType /\ s \in Session /\ sess[s] \in Conn /\ SessionOK(sess[s])
    BY <1>2, Holding DEF DInv
  <1>4. InHand(sess[s], conn[w].unit)
    BY <1>2 DEF DInv, WorkInHand
  <1>5. /\ o.c.st # "released" \/ Closed(o.c)
        /\ o.err = "ok" /\ ~Autocommit(sess[s]) => sess[s].st = "live" /\ o.saved = sess[s].work
    BY <1>1, <1>3, <1>4, CommitKeeps DEF InHand
  <1>6. o.c \in Conn /\ SessionOK(o.c) /\ (o.err = "ok" => ~Closed(o.c) \/ o.c.st # "released")
    <2>1. CASE Autocommit(sess[s])
      BY <1>1, <1>3, <1>4, <2>1, CommitContract, OutcomeFields DEF Commit, InHand
    <2>2. CASE ~Autocommit(sess[s]) /\ o.err = "ok"
      BY <1>1, <1>3, <2>2, CommitContract, RawCommitShape, EndTxnFields, OutcomeFields
         DEF Commit, CommitCleanup
    <2>3. CASE o.err # "ok"
      BY <1>1, <1>3, <2>3, CommitContract
    <2> QED
      BY <2>1, <2>2, <2>3
  <1>7. \A x \in {"none", "inactive"} :
           Ended(w, x) \in ConnType /\ Ended(w, x).at = s /\ Ended(w, x).unit = NoUnit
    BY <1>3, EndedFields
  <1>8. CASE /\ o.err = "ok" /\ Settle(w, "committed")
             /\ sess' = [sess EXCEPT ![s] = o.c] /\ conn' = [conn EXCEPT ![w] = Ended(w, "none")]
    <2>1. ASSUME conn[w].unit \in wrote PROVE conn[w].unit \in db'
      <3>1. conn[w].unit # NoUnit
        BY <2>1, NoUnitAssumption DEF DInv, IInv, TypeOK
      <3>2. ~Autocommit(sess[s]) /\ (sess[s].st = "live" => conn[w].unit \in sess[s].work)
        BY <1>4, <2>1, <3>1 DEF InHand
      <3> QED
        BY <1>1, <1>5, <1>8, <3>2
    <2>2. sess'[s].st # "released" /\ \A r \in Session \ {s} : sess'[r] = sess[r]
      BY <1>2, <1>3, <1>5, <1>6, <1>8 DEF TypeOK
    <2>3. "committed" \in Verdict \ {"unused"} /\ db \subseteq db'
      BY <1>1 DEF Verdict
    <2>4. \A r \in lost' : r \in lost
      BY <1>2
    <2> DEFINE n == Ended(w, "none")
    <2>5. n.unit = NoUnit /\ n.at = s /\ conn' = [conn EXCEPT ![w] = n]
      BY <1>7, <1>8
    <2> HIDE DEF n
    <2>6. \A r \in Session : r # conn[w].at /\ r # n.at => sess'[r] = sess[r]
      BY <2>2
    <2>7. n.at # NoSession => sess'[n.at].st # "released"
      BY <2>2, <2>5
    <2>8. Settle(w, "committed") /\ wrote' = wrote /\ Shut(sess'[s])
      BY <1>2, <1>8, <2>2 DEF Shut
    <2> QED
      BY <2>1, <2>3, <2>4, <2>5, <2>6, <2>7, <2>8, DurableEnd
  <1>9. ~IsDisconnect(o.err, o.c) => o.c.st # "released"
    BY <1>5 DEF IsDisconnect
  <1>10. CASE /\ Settle(w, "failed") \/ Settle(w, "unknown")
              /\ HandleError(w, o, Ended(w, "inactive"))
    <2>1. "failed" \in Verdict \ {"unused", "committed"}
          /\ "unknown" \in Verdict \ {"unused", "committed"} /\ db \subseteq db'
      BY <1>1 DEF Verdict
    <2> DEFINE next == Ended(w, "inactive")
    <2>2. next \in ConnType /\ next.at = s /\ next.unit = NoUnit /\ HandleError(w, o, next)
      BY <1>7, <1>10
    <2> HIDE DEF next
    <2> QED
      BY <1>2, <1>6, <1>9, <1>10, <2>1, <2>2, ErrorDurable
  <1> QED
    BY <1>1, <1>8, <1>10

LEMMA RollbackErrorDurable ==
    ASSUME DInv, IInv', NEW w \in Worker, conn[w].at # NoSession,
           NEW o \in Rollback(sess[conn[w].at]),
           NEW next \in ConnType, next.at = conn[w].at, next.unit = NoUnit,
           RollbackRaises(w, o, next), UNCHANGED <<lost, wrote, db>>
    PROVE  DInv'
  <1> DEFINE v == IF o.err = "refused" THEN "unsettled" ELSE "rolledback"
  <1>1. Settle(w, v) /\ HandleError(w, o, next) /\ v \in Verdict \ {"unused", "committed"}
    BY DEF RollbackRaises, Verdict
  <1>2. sess[conn[w].at] \in Conn /\ SessionOK(sess[conn[w].at])
    BY Holding DEF DInv
  <1>3. o.c.st # "released" /\ o.c \in Conn /\ SessionOK(o.c)
    BY <1>2, RollbackKeeps, RollbackContract DEF DInv, WorkInHand, InHand
  <1> HIDE DEF v
  <1> QED
    BY <1>1, <1>3, ErrorDurable

LEMMA RollbackDurable ==
    ASSUME DInv, IInv', NEW w \in Worker, RollbackUnit(w)
    PROVE  DInv'
  <1> DEFINE s == conn[w].at
             next == Ended(w, "none")
  <1>1. s # NoSession /\ UNCHANGED <<lost, wrote, db>> /\ TypeOK
    BY DEF RollbackUnit, InUse, DInv, IInv
  <1>2. conn[w] \in ConnType /\ s \in Session /\ sess[s] \in Conn
    BY <1>1, Holding DEF DInv
  <1>3. next \in ConnType /\ next.at = s /\ next.unit = NoUnit
    BY <1>2, EndedFields
  <1>4. sess[s].st # "released" /\ "rolledback" \in Verdict \ {"unused", "committed"}
    BY <1>1 DEF DInv, WorkInHand, InHand, Verdict
  <1>5. \A r \in lost' : r \in lost
    BY <1>1
  <1>6. ASSUME NEW o \in Rollback(sess[s]), Settle(w, "rolledback"),
               sess' = [sess EXCEPT ![s] = o.c], conn' = [conn EXCEPT ![w] = next]
        PROVE  DInv'
    <2>1. o.c.st # "released"
      BY <1>2, <1>4, RollbackKeeps
    <2>2. sess'[s] = o.c /\ \A r \in Session \ {s} : sess'[r] = sess[r]
      BY <1>1, <1>2, <1>6 DEF TypeOK
    <2> HIDE DEF next
    <2>3. \A r \in Session : r # conn[w].at /\ r # next.at => sess'[r] = sess[r]
      BY <2>2
    <2>4. next.at # NoSession => sess'[next.at].st # "released"
      BY <1>3, <2>1, <2>2
    <2>5. Settle(w, "rolledback") /\ conn' = [conn EXCEPT ![w] = next]
          /\ wrote' = wrote /\ db \subseteq db' /\ next.unit = NoUnit /\ Shut(sess'[s])
      BY <1>1, <1>3, <1>6, <2>1, <2>2 DEF Shut
    <2> QED
      BY <1>4, <1>5, <2>3, <2>4, <2>5, DurableEnd
  <1>7. ASSUME NEW o \in Rollback(sess[s]), RollbackRaises(w, o, next)
        PROVE  DInv'
    <2> HIDE DEF next
    <2> QED
      BY <1>1, <1>3, <1>7, RollbackErrorDurable
  <1>8. CASE /\ conn[w].sa = "inactive" /\ conn' = [conn EXCEPT ![w].sa = "none"]
             /\ UNCHANGED <<sess, idle, stale, verdict>>
    <2> DEFINE n == [conn[w] EXCEPT !.sa = "none"]
    <2>1. conn[w].unit = NoUnit
      BY <1>8 DEF DInv, IInv, UnitOwnership
    <2>2. Settle(w, "rolledback")
      BY <1>8, <2>1 DEF Settle
    <2>3. n.unit = NoUnit /\ n.at = s /\ conn' = [conn EXCEPT ![w] = n]
      BY <1>1, <1>2, <1>8, <2>1 DEF ConnType, TypeOK
    <2> HIDE DEF n
    <2>4. /\ \A r \in Session : sess'[r] = sess[r]
          /\ sess'[n.at].st # "released" /\ Shut(sess'[conn[w].at])
      BY <1>4, <1>8, <2>3 DEF Shut
    <2> QED
      BY <1>1, <1>4, <1>5, <2>1, <2>2, <2>3, <2>4, DurableEnd
  <1> QED
    BY <1>6, <1>7, <1>8 DEF RollbackUnit

LEMMA CloseDurable ==
    ASSUME DInv, IInv', NEW w \in Worker, CloseConnection(w)
    PROVE  DInv'
  <1> DEFINE s == conn[w].at
  <1>1. wrote' = wrote /\ "rolledback" \in Verdict \ {"unused", "committed"}
    BY DEF CloseConnection, Verdict
  <1>2. CASE /\ s = NoSession /\ Settle(w, "rolledback")
             /\ conn' = [conn EXCEPT ![w] = Away] /\ UNCHANGED <<sess, lost, db>>
    <2>1. Away.unit = NoUnit /\ Away.at = NoSession /\ conn[w].at \notin Session
      BY <1>2, AwayFields, NoSessionAssumption
    <2> QED
      BY <1>1, <1>2, <2>1, DurableEnd
  <1>3. ASSUME s # NoSession
        PROVE  /\ conn[w] \in ConnType /\ s \in Session /\ sess[s] \in Conn /\ SessionOK(sess[s])
               /\ sess[s].st # "released"
    BY <1>3, Holding DEF DInv, WorkInHand, InHand
  <1>4. CASE s # NoSession /\ conn[w].sa = "active"
    <2>1. ASSUME NEW o \in Rollback(sess[s]), Settle(w, "rolledback"), CheckIn(w, o.c)
          PROVE  DInv'
      <3>1. o.c \in Conn /\ SessionOK(o.c) /\ o.c.st # "released"
        BY <1>3, <1>4, <2>1, RollbackContract, RollbackKeeps
      <3> QED
        BY <1>1, <1>3, <1>4, <2>1, <3>1, CheckInDurable
    <2>2. ASSUME NEW o \in Rollback(sess[s]), UNCHANGED <<lost, db>>,
                 RollbackRaises(w, o, [Ended(w, "none") EXCEPT !.phase = "closing"])
          PROVE  DInv'
      <3> DEFINE n == [Ended(w, "none") EXCEPT !.phase = "closing"]
      <3>1. n \in ConnType /\ n.at = s /\ n.unit = NoUnit
        BY <1>3, <1>4, EndedFields DEF ConnType
      <3>2. RollbackRaises(w, o, n)
        BY <2>2
      <3> HIDE DEF n
      <3> QED
        BY <1>1, <1>4, <2>2, <3>1, <3>2, RollbackErrorDurable
    <2> QED
      BY <1>4, <2>1, <2>2 DEF CloseConnection
  <1>5. CASE s # NoSession /\ conn[w].sa # "active"
    <2>1. conn[w].unit = NoUnit
      BY <1>5 DEF DInv, IInv, UnitOwnership
    <2>2. Settle(w, "rolledback")
      BY <1>5, <2>1 DEF Settle, CloseConnection
    <2>3. CASE CheckIn(w, sess[s])
      BY <1>1, <1>3, <1>5, <2>2, <2>3, CheckInDurable
    <2>4. CASE ResetAndCheckIn(w)
      BY <1>1, <1>5, <2>2, <2>4, ResetDurable
    <2> QED
      BY <1>5, <2>3, <2>4 DEF CloseConnection
  <1> QED
    BY <1>2, <1>4, <1>5 DEF CloseConnection

LEMMA CollectedDurable ==
    ASSUME DInv, IInv', NEW w \in Worker, Collected(w)
    PROVE  DInv'
  <1>1. conn[w].at # NoSession /\ Settle(w, "rolledback") /\ ResetAndCheckIn(w)
        /\ wrote' = wrote /\ "rolledback" \in Verdict \ {"unused", "committed"}
    BY DEF Collected, Verdict
  <1> QED
    BY <1>1, ResetDurable

\* A step that neither settles nor writes, after which the worker has no unit.
LEMMA DurableIdle ==
    ASSUME DInv, IInv', NEW w \in Worker, NEW n, n.unit = NoUnit,
           conn' = [conn EXCEPT ![w] = n],
           \A r \in Session : r # conn[w].at /\ r # n.at => sess'[r] = sess[r],
           n.at # NoSession => sess'[n.at].st # "released",
           conn[w].at \in Session => Shut(sess'[conn[w].at]),
           UNCHANGED <<lost, verdict, wrote>>, db \subseteq db'
    PROVE  DInv'
  <1>1. conn'[w] = n /\ \A x \in Worker \ {w} : conn'[x] = conn[x]
    BY DEF DInv, IInv, TypeOK
  <1>2. \A u \in wrote' : verdict'[u] # "unused" /\ (verdict'[u] = "committed" => u \in db')
    BY DEF DInv, WorkInHand, Durability
  <1>3. conn'[w].at # NoSession => InHand(sess[conn[w].at], conn[w].unit)'
    BY <1>1 DEF InHand
  <1>4. wrote' \subseteq wrote /\ \A s \in lost' : s \in lost
    OBVIOUS
  <1>5. \A r \in Session : sess'[r] = sess[r] \/ Shut(sess'[r])
    BY NoSessionAssumption DEF Shut
  <1> QED
    BY <1>1, <1>2, <1>3, <1>4, <1>5, DurableStep

\* A session is opened, or taken from the pool.
LEMMA CheckoutDurable ==
    ASSUME DInv, IInv', NEW w \in Worker, Checkout(w)
    PROVE  DInv'
  <1> PICK s \in Session : CheckoutNew(w, s) \/ CheckoutRecycled(w, s) \/ CheckoutIdle(w, s)
    BY DEF Checkout
  <1> DEFINE n == [Away EXCEPT !.phase = "out", !.at = s]
  <1>1. n.at = s /\ n.unit = NoUnit
    BY DEF Away
  <1>2. conn' = [conn EXCEPT ![w] = n] /\ UNCHANGED <<lost, verdict, wrote, db>>
    BY DEF CheckoutNew, CheckoutRecycled, CheckoutIdle, TakeIdle, Occupy
  <1> HIDE DEF n
  <1>3. TypeOK /\ sess[s] \in Conn /\ Fresh.st = "live"
    BY DEF DInv, IInv, TypeOK, Fresh
  <1>6. conn[w].at \in Session => Shut(sess'[conn[w].at])
    <2>1. conn[w].at = NoSession
      BY DEF CheckoutNew, CheckoutRecycled, CheckoutIdle, TakeIdle, DInv, IInv, Ownership
    <2> QED
      BY <2>1, NoSessionAssumption
  <1>4. \/ sess' = [sess EXCEPT ![s] = Fresh]
        \/ ~Recycled(s) /\ sess' = sess /\ s \in idle
        \/ \E p \in DoPing(sess[s]) : p.err = "ok" /\ sess' = [sess EXCEPT ![s] = p.c]
    BY DEF CheckoutNew, CheckoutRecycled, CheckoutIdle, TakeIdle
  <1>5. sess'[s].st # "released" /\ \A r \in Session : r # s => sess'[r] = sess[r]
    <2>1. CASE sess' = [sess EXCEPT ![s] = Fresh]
      BY <1>3, <2>1 DEF TypeOK
    <2>2. CASE ~Recycled(s) /\ sess' = sess /\ s \in idle
      <3>1. ~Closed(sess[s])
        BY <2>2 DEF Recycled
      <3> QED
        BY <2>2, <3>1 DEF DInv, WorkInHand, Shut
    <2>3. CASE \E p \in DoPing(sess[s]) : p.err = "ok" /\ sess' = [sess EXCEPT ![s] = p.c]
      <3>1. PICK p \in DoPing(sess[s]) : p.err = "ok" /\ sess' = [sess EXCEPT ![s] = p.c]
        BY <2>3
      <3>2. p.c.st = "live"
        BY <1>3, <3>1, OutcomeFields DEF DoPing, RawFail, Conn
      <3> QED
        BY <1>3, <3>1, <3>2 DEF TypeOK
    <2> QED
      BY <1>4, <2>1, <2>2, <2>3
  <1> QED
    BY <1>1, <1>2, <1>5, <1>6, DurableIdle

LEMMA RequestAutocommitDurable ==
    ASSUME DInv, IInv', NEW w \in Worker, RequestAutocommit(w)
    PROVE  DInv'
  <1> DEFINE s == conn[w].at
  <1>1. PICK o \in SetIsolationLevel(sess[s], "AUTOCOMMIT") :
          /\ sess' = [sess EXCEPT ![s] = o.c] /\ db' = db \cup o.saved
          /\ conn' = [conn EXCEPT ![w].isolated = (o.err = "ok")]
    BY DEF RequestAutocommit
  <1>2. s # NoSession /\ conn[w].sa # "active" /\ UNCHANGED <<lost, verdict, wrote>>
    BY DEF RequestAutocommit, InUse
  <1>3. conn[w] \in ConnType /\ s \in Session /\ sess[s] \in Conn /\ SessionOK(sess[s]) /\ TypeOK
    BY <1>2, Holding DEF DInv, IInv
  <1>4. conn[w].unit = NoUnit
    BY <1>2 DEF DInv, IInv, UnitOwnership
  <1> DEFINE n == [conn[w] EXCEPT !.isolated = (o.err = "ok")]
  <1>5. n.at = s /\ n.unit = NoUnit /\ conn' = [conn EXCEPT ![w] = n]
    BY <1>1, <1>3, <1>4 DEF ConnType, TypeOK
  <1> HIDE DEF n
  <1>6. sess[s].st # "released"
    BY <1>2 DEF DInv, WorkInHand, InHand
  <1>7. o.c.st # "released"
    BY <1>1, <1>3, <1>6, IsolationKeeps
  <1>8. sess'[s] = o.c /\ \A r \in Session \ {s} : sess'[r] = sess[r]
    BY <1>1, <1>3 DEF TypeOK
  <1>9. Shut(sess'[s]) /\ db \subseteq db'
    BY <1>1, <1>7, <1>8 DEF Shut
  <1> QED
    BY <1>2, <1>5, <1>7, <1>8, <1>9, DurableIdle

\* A transport that fails takes from a session only what it held.
LEMMA TransportFailsDurable ==
    ASSUME DInv, IInv', NEW s \in Session, TransportFails(s)
    PROVE  DInv'
  <1>1. /\ sess[s] \in Conn /\ sess[s].st = "live" /\ sess' = [sess EXCEPT ![s] = Lose(sess[s])]
        /\ UNCHANGED <<idle, lost, stale, conn, verdict, wrote, db>>
    BY DEF TransportFails, DInv, IInv, TypeOK
  <1>2. /\ Lose(sess[s]).st = "dead" /\ Lose(sess[s]).auto = sess[s].auto
        /\ Lose(sess[s]).txn = sess[s].txn
    BY <1>1, LoseFields
  <1>3. sess'[s] = Lose(sess[s]) /\ \A r \in Session \ {s} : sess'[r] = sess[r]
    BY <1>1 DEF DInv, IInv, TypeOK
  <1>4. ASSUME NEW w \in Worker, conn[w].at # NoSession
        PROVE  InHand(sess[conn[w].at], conn[w].unit)'
    <2>1. InHand(sess[conn[w].at], conn[w].unit) /\ conn[w].at \in Session
      BY <1>4 DEF DInv, WorkInHand, IInv, TypeOK, ConnType
    <2>2. CASE conn[w].at = s
      BY <1>1, <1>2, <1>3, <2>1, <2>2 DEF InHand, Autocommit
    <2>3. CASE conn[w].at # s
      BY <1>1, <1>3, <2>1, <2>3 DEF InHand
    <2> QED
      BY <2>2, <2>3
  <1>5. \A r \in Session : Shut(sess[r])'
    BY <1>2, <1>3 DEF DInv, WorkInHand, Shut
  <1>6. WorkInHand'
    BY <1>1, <1>4, <1>5 DEF DInv, WorkInHand
  <1>7. Durability'
    BY <1>1 DEF DInv, Durability
  <1>8. LostOnlyToDeadAutocommit'
    BY <1>1, <1>3 DEF DInv, IInv, TypeOK, LostOnlyToDeadAutocommit
  <1> QED
    BY <1>6, <1>7, <1>8 DEF DInv

\* A statement for unit u, after which the worker holds c2 or nothing.
LEMMA StatementDurable ==
    ASSUME DInv, IInv', NEW w \in Worker, NEW u \in Unit \cup {NoUnit},
           conn[w].at # NoSession, Begun(w, u),
           u = conn[w].unit \/ conn[w].unit = NoUnit,
           wrote' \subseteq wrote \cup ({u} \ {NoUnit}),
           NEW n, n.unit = u, conn' = [conn EXCEPT ![w] = n],
           \A r \in Session \ {conn[w].at} : sess'[r] = sess[r],
           Shut(sess'[conn[w].at]),
           n.at = NoSession \/ (n.at = conn[w].at /\ InHand(sess[conn[w].at], u)'),
           UNCHANGED <<lost, db>>
    PROVE  DInv'
  <1>1. conn'[w] = n /\ \A x \in Worker \ {w} : conn'[x] = conn[x]
    BY DEF DInv, IInv, TypeOK
  <1>2. NoUnit \notin wrote' /\ wrote' \subseteq wrote \cup {conn'[w].unit}
    BY <1>1, NoUnitAssumption DEF DInv, IInv, TypeOK
  <1>3. /\ u # NoUnit => verdict' = [verdict EXCEPT ![u] = "running"]
        /\ u = NoUnit => verdict' = verdict
    BY DEF Begun
  <1>4. \A x \in Unit : verdict'[x] = verdict[x] \/ x \in {conn[w].unit, conn'[w].unit}
    BY <1>1, <1>3 DEF DInv, IInv, TypeOK
  <1>5. \A x \in wrote' \cap {conn[w].unit, conn'[w].unit} : verdict'[x] = "running"
    BY <1>1, <1>2, <1>3 DEF DInv, IInv, TypeOK
  <1>6. conn'[w].at # NoSession => InHand(sess[conn[w].at], conn[w].unit)'
    BY <1>1 DEF InHand
  <1>7. \A r \in Session : sess'[r] = sess[r] \/ Shut(sess'[r])
    OBVIOUS
  <1> QED
    BY <1>1, <1>2, <1>4, <1>5, <1>6, <1>7, DurableStep

\* What a write leaves in the worker's hands.
LEMMA WriteInHand ==
    ASSUME DInv, NEW w \in Worker, NEW u \in UnitsFor(w), conn[w].at # NoSession,
           NEW o \in RawExecute(sess[conn[w].at], {u} \ {NoUnit}), Written(u, o)
    PROVE  /\ u \in Unit \cup {NoUnit} /\ (u = conn[w].unit \/ conn[w].unit = NoUnit)
           /\ o.c \in Conn /\ SessionOK(o.c)
           /\ wrote' \subseteq wrote \cup ({u} \ {NoUnit})
           /\ InHand(o.c, u)'
  <1> DEFINE c == sess[conn[w].at]
  <1>1. conn[w] \in ConnType /\ c \in Conn /\ SessionOK(c) /\ InHand(c, conn[w].unit)
    BY Holding DEF DInv, WorkInHand
  <1>2. u \in Unit \cup {NoUnit} /\ (u = conn[w].unit \/ conn[w].unit = NoUnit)
    BY <1>1 DEF UnitsFor, ConnType
  <1>3. u # NoUnit => ~Autocommit(c) /\ (u \in wrote => u = conn[w].unit)
    BY <1>1 DEF UnitsFor, InHand, DInv, WorkInHand
  <1>4. {u} \ {NoUnit} \in SUBSET Unit
    BY <1>2
  <1>5. /\ o.c.st = c.st /\ c.work \subseteq o.c.work /\ o.c.auto = c.auto
        /\ c.txn # "none" => o.c.txn # "none"
        /\ o.err = "ok" /\ ~Autocommit(c) => {u} \ {NoUnit} \subseteq o.c.work
    BY <1>1, <1>4, ExecuteKeeps
  <1>6. o.c \in Conn /\ SessionOK(o.c)
    BY <1>1, <1>4, ExecuteContract
  <1>7. wrote' = IF u # NoUnit /\ o.err = "ok" THEN wrote \cup {u} ELSE wrote
    BY DEF Written
  <1>8. c.st # "released" /\ (u # NoUnit /\ u \in wrote /\ c.st = "live" => u \in c.work)
    BY <1>1, <1>3 DEF InHand
  <1>9. u # NoUnit => ~Autocommit(o.c)
    BY <1>3, <1>5 DEF Autocommit
  <1> HIDE DEF c
  <1>10. u # NoUnit /\ u \in wrote' /\ o.c.st = "live" => u \in o.c.work
    BY <1>3, <1>5, <1>7, <1>8
  <1>11. InHand(o.c, u)'
    BY <1>5, <1>8, <1>9, <1>10 DEF InHand
  <1> QED
    BY <1>2, <1>6, <1>7, <1>11

LEMMA ActiveFields ==
    ASSUME NEW w \in Worker, conn[w] \in ConnType, NEW u \in Unit \cup {NoUnit}
    PROVE  /\ Active(w, u) \in ConnType /\ Active(w, u).unit = u /\ Active(w, u).at = conn[w].at
           /\ [Active(w, u) EXCEPT !.at = NoSession].unit = u
           /\ [Active(w, u) EXCEPT !.at = NoSession].at = NoSession
  BY DEF Active, ConnType

LEMMA ExecuteDurable ==
    ASSUME DInv, IInv', NEW w \in Worker, NEW u \in Unit \cup {NoUnit}, Execute(w, u)
    PROVE  DInv'
  <1> DEFINE s == conn[w].at
             m == Active(w, u)
             n == [m EXCEPT !.at = NoSession]
  <1>1. PICK o \in RawExecute(sess[s], {u} \ {NoUnit}) : Written(u, o) /\ HandleError(w, o, m)
    BY DEF Execute
  <1>2. Begun(w, u) /\ u \in UnitsFor(w) /\ s # NoSession /\ UNCHANGED <<lost, db>>
    BY DEF Execute, Begun, InUse
  <1>3. conn[w] \in ConnType /\ s \in Session /\ TypeOK
    BY <1>2, Holding DEF DInv, IInv
  <1>4. /\ u = conn[w].unit \/ conn[w].unit = NoUnit
        /\ o.c \in Conn /\ SessionOK(o.c)
        /\ wrote' \subseteq wrote \cup ({u} \ {NoUnit})
        /\ InHand(o.c, u)'
    BY <1>1, <1>2, WriteInHand
  <1>5. m \in ConnType /\ m.unit = u /\ m.at = s /\ n.unit = u /\ n.at = NoSession
    BY <1>3, ActiveFields
  <1> HIDE DEF m
  <1>6. /\ \A r \in Session \ {s} : sess'[r] = sess[r]
        /\ \/ conn' = [conn EXCEPT ![w] = n] /\ Shut(sess'[s])
           \/ conn' = [conn EXCEPT ![w] = m] /\ sess'[s] = o.c
    BY <1>1, <1>3, <1>4, <1>5, HandleErrorAt
  <1> HIDE DEF n
  <1>7. CASE conn' = [conn EXCEPT ![w] = n] /\ Shut(sess'[s])
    BY <1>2, <1>4, <1>5, <1>6, <1>7, StatementDurable
  <1>8. CASE conn' = [conn EXCEPT ![w] = m] /\ sess'[s] = o.c
    <2>1. InHand(sess[conn[w].at], u)' /\ Shut(sess'[s])
      <3>1. m.at = conn'[w].at /\ conn'[w].at = s
        BY <1>3, <1>5, <1>8 DEF TypeOK
      <3> QED
        BY <1>4, <1>8, <3>1 DEF InHand, Shut
    <2> QED
      BY <1>2, <1>4, <1>5, <1>6, <1>8, <2>1, StatementDurable
  <1> QED
    BY <1>6, <1>7, <1>8

LEMMA IngestDurable ==
    ASSUME DInv, IInv', NEW w \in Worker, NEW u \in Unit \cup {NoUnit}, Ingest(w, u)
    PROVE  DInv'
  <1> DEFINE s == conn[w].at
             m == Active(w, u)
  <1>1. PICK o \in RawExecute(sess[s], {u} \ {NoUnit}) :
          Written(u, o) /\ sess' = [sess EXCEPT ![s] = o.c]
    BY DEF Ingest
  <1>2. Begun(w, u) /\ u \in UnitsFor(w) /\ s # NoSession /\ UNCHANGED <<lost, db>>
        /\ conn' = [conn EXCEPT ![w] = m]
    BY DEF Ingest, Begun, InUse
  <1>3. conn[w] \in ConnType /\ s \in Session /\ TypeOK
    BY <1>2, Holding DEF DInv, IInv
  <1>4. /\ u = conn[w].unit \/ conn[w].unit = NoUnit
        /\ wrote' \subseteq wrote \cup ({u} \ {NoUnit})
        /\ InHand(o.c, u)'
    BY <1>1, <1>2, WriteInHand
  <1>5. m.unit = u /\ m.at = s
    BY <1>3, ActiveFields
  <1> HIDE DEF m
  <1>6. sess'[s] = o.c /\ \A r \in Session \ {s} : sess'[r] = sess[r]
    BY <1>1, <1>3 DEF TypeOK
  <1>7. InHand(sess[conn[w].at], u)' /\ Shut(sess'[s])
    <2>1. conn'[w].at = s
      BY <1>2, <1>3, <1>5 DEF TypeOK
    <2> QED
      BY <1>4, <1>6, <2>1 DEF InHand, Shut
  <1> QED
    BY <1>2, <1>4, <1>5, <1>6, <1>7, StatementDurable

LEMMA StartTransactionDurable ==
    ASSUME DInv, IInv', NEW w \in Worker, NEW u \in Unit, StartTransaction(w, u)
    PROVE  DInv'
  <1> DEFINE s == conn[w].at
             m == Active(w, u)
             n == [m EXCEPT !.at = NoSession]
  <1>1. PICK o \in RawBegin(sess[s]) : HandleError(w, o, m)
    BY DEF StartTransaction
  <1>2. Begun(w, u) /\ conn[w].unit = NoUnit /\ verdict[u] = "unused" /\ s # NoSession
        /\ UNCHANGED <<lost, wrote, db>>
    BY DEF StartTransaction, Begun, InUse
  <1>3. conn[w] \in ConnType /\ s \in Session /\ TypeOK /\ sess[s] \in Conn /\ SessionOK(sess[s])
        /\ sess[s].st # "released" /\ u \notin wrote
    BY <1>2, Holding DEF DInv, IInv, WorkInHand, InHand
  <1>4. o.c \in Conn /\ SessionOK(o.c)
    BY <1>1, <1>3, BeginContract
  <1>5. m \in ConnType /\ m.unit = u /\ m.at = s /\ n.unit = u /\ n.at = NoSession
    BY <1>3, ActiveFields
  <1> HIDE DEF m
  <1>6. /\ \A r \in Session \ {s} : sess'[r] = sess[r]
        /\ \/ conn' = [conn EXCEPT ![w] = n] /\ Shut(sess'[s])
           \/ /\ conn' = [conn EXCEPT ![w] = m] /\ sess'[s] = o.c
              /\ ~IsDisconnect(o.err, o.c)
    BY <1>1, <1>3, <1>4, <1>5, HandleErrorAt
  <1> HIDE DEF n
  <1>7. CASE conn' = [conn EXCEPT ![w] = n] /\ Shut(sess'[s])
    BY <1>2, <1>5, <1>6, <1>7, StatementDurable
  <1>8. CASE /\ conn' = [conn EXCEPT ![w] = m] /\ sess'[s] = o.c
             /\ ~IsDisconnect(o.err, o.c)
    <2>1. o.c.txn = "open" /\ o.c.st = sess[s].st
      BY <1>1, <1>3, <1>8, BeginKeeps DEF IsDisconnect, IsTerminal
    <2>2. conn'[w].at = s
      BY <1>3, <1>5, <1>8 DEF TypeOK
    <2>3. InHand(sess[conn[w].at], u)' /\ Shut(sess'[s])
      BY <1>2, <1>3, <1>8, <2>1, <2>2 DEF InHand, Shut, Autocommit
    <2> QED
      BY <1>2, <1>5, <1>6, <1>8, <2>3, StatementDurable
  <1> QED
    BY <1>6, <1>7, <1>8

\* DInv is inductive, too.
LEMMA InitDInv == Init => DInv
  <1> SUFFICES ASSUME Init PROVE DInv
    OBVIOUS
  <1>1. IInv
    BY InitIInv
  <1>2. Away.at = NoSession /\ Shut(Absent)
    BY AwayFields DEF Shut, Absent, Fresh, Closed
  <1>3. WorkInHand /\ Durability /\ LostOnlyToDeadAutocommit
    BY <1>2 DEF Init, WorkInHand, Durability, LostOnlyToDeadAutocommit
  <1> QED
    BY <1>1, <1>3 DEF DInv

LEMMA NextDInv == DInv /\ [Next]_vars => DInv'
  <1> SUFFICES ASSUME DInv, [Next]_vars PROVE DInv'
    OBVIOUS
  <1>1. IInv'
    BY NextIInv DEF DInv
  <1>2. CASE UNCHANGED vars
    BY <1>1, <1>2 DEF vars, DInv, WorkInHand, InHand, Durability, LostOnlyToDeadAutocommit
  <1>3. ASSUME NEW w \in Worker, Checkout(w) PROVE DInv'
    BY <1>1, <1>3, CheckoutDurable
  <1>4. ASSUME NEW w \in Worker, Work(w) PROVE DInv'
    BY <1>1, <1>4, RequestAutocommitDurable, ExecuteDurable, IngestDurable,
       StartTransactionDurable, CommitDurable, RollbackDurable DEF Work
  <1>5. ASSUME NEW w \in Worker, CloseConnection(w) \/ Collected(w) PROVE DInv'
    BY <1>1, <1>5, CloseDurable, CollectedDurable
  <1>6. ASSUME NEW s \in Session, TransportFails(s) PROVE DInv'
    BY <1>1, <1>6, TransportFailsDurable
  <1> QED
    BY <1>2, <1>3, <1>4, <1>5, <1>6 DEF Next

LEMMA DurableInvariance == Spec => []DInv
  BY InitDInv, NextDInv, PTL DEF Spec

\* What was reported as committed is durable: commit() of the wrapper may do
\* nothing only when no transaction is open.
THEOREM CommittedIsDurable == Spec => []Durability
  <1>1. DInv => Durability
    BY DEF DInv
  <1> QED
    BY <1>1, DurableInvariance, PTL

\* The pool loses a slot only to a session that died in autocommit mode.
THEOREM LostJustly == Spec => []LostOnlyToDeadAutocommit
  <1>1. DInv => LostOnlyToDeadAutocommit
    BY DEF DInv
  <1> QED
    BY <1>1, DurableInvariance, PTL

-----------------------------------------------------------------------------
(* SessionPool implements UnitOfWork.                                      *)

\* Shared conclusion: the step is one of the abstract contract, or none.
Maps == [UOW!Next]_(UOW!vars)

LEMMA StutterMaps == ASSUME UNCHANGED <<verdict, wrote, db>> PROVE Maps
  BY DEF Maps, UOW!vars

\* A unit, if there is one, is undone.
LEMMA UndoMaps ==
    ASSUME IInv, NEW w \in Worker, NEW v \in {"rolledback", "failed", "unsettled"},
           Settle(w, v), UNCHANGED <<wrote, db>>
    PROVE  Maps
  <1>1. CASE conn[w].unit = NoUnit
    <2>1. verdict' = verdict
      BY <1>1 DEF Settle
    <2> QED
      BY <2>1, StutterMaps
  <1>2. CASE conn[w].unit # NoUnit
    <2>1. conn[w].unit \in Unit /\ verdict[conn[w].unit] = "running"
          /\ verdict' = [verdict EXCEPT ![conn[w].unit] = v]
      BY <1>2 DEF IInv, TypeOK, ConnType, UnitOwnership, Settle
    <2>2. UOW!Undo(conn[w].unit, v) /\ v \in UOW!Verdict
      BY <2>1 DEF UOW!Undo, UOW!Verdict
    <2> QED
      BY <2>1, <2>2 DEF Maps, UOW!Next
  <1> QED
    BY <1>1, <1>2

\* Units nothing is certain about become durable.
LEMMA SurfaceMaps ==
    ASSUME NEW s \in SUBSET Unit, \A u \in s : verdict[u] = "unsettled",
           db' = db \cup s, UNCHANGED <<verdict, wrote>>
    PROVE  Maps
  <1>1. s \in SUBSET UOW!Undecided
    BY DEF UOW!Undecided
  <1>2. UOW!Surface
    BY <1>1 DEF UOW!Surface
  <1> QED
    BY <1>2 DEF Maps, UOW!Next

\* A statement begins its unit, or writes in it.
LEMMA StatementMaps ==
    ASSUME DInv, NEW w \in Worker, NEW u \in Unit \cup {NoUnit}, Begun(w, u),
           u = conn[w].unit \/ u = NoUnit \/ verdict[u] = "unused",
           wrote' = wrote \/ (u # NoUnit /\ wrote' = wrote \cup {u}), db' = db
    PROVE  Maps
  <1>1. CASE u = NoUnit
    <2>1. UNCHANGED <<verdict, wrote, db>>
      BY <1>1 DEF Begun
    <2> QED
      BY <2>1, StutterMaps
  <1>2. CASE u # NoUnit /\ verdict[u] = "unused"
    <2>1. u \in Unit /\ verdict' = [verdict EXCEPT ![u] = "running"]
      BY <1>2 DEF Begun
    <2>2. UOW!Begin(u)
      BY <1>2, <2>1 DEF UOW!Begin
    <2> QED
      BY <2>1, <2>2 DEF Maps, UOW!Next
  <1>3. CASE u # NoUnit /\ u = conn[w].unit
    <2>1. u \in Unit /\ verdict[u] = "running" /\ verdict' = verdict
      BY <1>3 DEF Begun, DInv, IInv, TypeOK, UnitOwnership
    <2>2. CASE wrote' = wrote
      BY <2>1, <2>2, StutterMaps
    <2>3. CASE wrote' = wrote \cup {u}
      <3>1. UOW!Write(u)
        BY <2>1, <2>3 DEF UOW!Write
      <3> QED
        BY <2>1, <3>1 DEF Maps, UOW!Next
    <2> QED
      BY <1>3, <2>2, <2>3
  <1> QED
    BY <1>1, <1>2, <1>3

LEMMA WorkMaps ==
    ASSUME DInv, NEW w \in Worker,
           \/ \E u \in Unit \cup {NoUnit} : Execute(w, u) \/ Ingest(w, u)
           \/ \E u \in Unit : StartTransaction(w, u)
    PROVE  Maps
  <1>1. ASSUME NEW u \in Unit \cup {NoUnit}, Execute(w, u) \/ Ingest(w, u) PROVE Maps
    <2>1. /\ Begun(w, u) /\ u \in UnitsFor(w) /\ db' = db
          /\ wrote' = wrote \/ (u # NoUnit /\ wrote' = wrote \cup {u})
      BY <1>1 DEF Execute, Ingest, Written
    <2>2. u = conn[w].unit \/ u = NoUnit \/ verdict[u] = "unused"
      BY <2>1 DEF UnitsFor
    <2> QED
      BY <2>1, <2>2, StatementMaps
  <1>2. ASSUME NEW u \in Unit, StartTransaction(w, u) PROVE Maps
    <2>1. Begun(w, u) /\ verdict[u] = "unused" /\ wrote' = wrote /\ db' = db
      BY <1>2 DEF StartTransaction
    <2> QED
      BY <2>1, StatementMaps
  <1> QED
    BY <1>1, <1>2

\* set_isolation_level commits what the session still holds.
LEMMA IsolationMaps == ASSUME DInv, NEW w \in Worker, RequestAutocommit(w) PROVE Maps
  <1>1. conn[w].at # NoSession /\ conn[w].sa # "active" /\ UNCHANGED <<verdict, wrote>>
    BY DEF RequestAutocommit, InUse
  <1>2. PICK o \in SetIsolationLevel(sess[conn[w].at], "AUTOCOMMIT") : db' = db \cup o.saved
    BY DEF RequestAutocommit
  <1>3. /\ sess[conn[w].at] \in Conn /\ SessionOK(sess[conn[w].at])
        /\ \A u \in sess[conn[w].at].work :
              u \in Unit /\ (verdict[u] = "unsettled" \/ u = conn[w].unit)
    BY <1>1, Holding DEF DInv
  <1>4. conn[w].unit = NoUnit
    BY <1>1 DEF DInv, IInv, UnitOwnership
  <1>5. o.saved \subseteq sess[conn[w].at].work
    BY <1>2, <1>3, IsolationContract
  <1>6. o.saved \in SUBSET Unit /\ \A u \in o.saved : verdict[u] = "unsettled"
    BY <1>3, <1>4, <1>5, NoUnitAssumption
  <1> QED
    BY <1>1, <1>2, <1>6, SurfaceMaps

\* commit(), by its contract and what the session holds.
LEMMA CommitMaps == ASSUME DInv, NEW w \in Worker, CommitUnit(w) PROVE Maps
  <1> DEFINE c == sess[conn[w].at]
             u == conn[w].unit
  <1>1. PICK o \in Commit(c) :
          /\ db' = db \cup o.saved
          /\ \/ o.err = "ok" /\ Settle(w, "committed")
             \/ o.err \in {"state25", "conflict"} /\ Settle(w, "failed")
             \/ o.err \in {"terminal", "io"} /\ Settle(w, "unknown")
    BY DEF CommitUnit
  <1>2. conn[w].at # NoSession /\ wrote' = wrote
    BY DEF CommitUnit, InUse
  <1>3. /\ c \in Conn /\ SessionOK(c) /\ conn[w] \in ConnType
        /\ \A x \in c.work : x \in Unit /\ (verdict[x] = "unsettled" \/ x = u)
        /\ InHand(c, u)
    BY <1>2, Holding DEF DInv, WorkInHand
  <1>4. /\ o.saved \subseteq c.work
        /\ o.err \in {"state25", "conflict"} => o.saved = {}
        /\ o.err = "ok" /\ ~Autocommit(c) => c.st = "live" /\ o.saved = c.work
    BY <1>1, <1>3, CommitContract, CommitKeeps
  <1> HIDE DEF c
  <1>5. CASE u = NoUnit
    <2>1. verdict' = verdict
      BY <1>1, <1>5 DEF Settle
    <2>2. o.saved \in SUBSET Unit /\ \A x \in o.saved : verdict[x] = "unsettled"
      BY <1>3, <1>4, <1>5, NoUnitAssumption
    <2> QED
      BY <1>1, <1>2, <2>1, <2>2, SurfaceMaps
  <1>6. CASE u # NoUnit
    <2>1. u \in Unit /\ verdict[u] = "running"
      BY <1>3, <1>6 DEF DInv, IInv, UnitOwnership, ConnType
    <2>2. o.saved \in SUBSET (UOW!Undecided \cup {u})
      BY <1>3, <1>4 DEF UOW!Undecided
    <2>3. CASE o.err = "ok" /\ Settle(w, "committed")
      <3>1. u \in wrote => u \in o.saved
        BY <1>3, <1>4, <1>6, <2>3 DEF InHand
      <3>2. verdict' = [verdict EXCEPT ![u] = "committed"]
        BY <1>6, <2>3 DEF Settle
      <3>3. UOW!Commit(u)
        BY <1>1, <1>2, <2>1, <2>2, <3>1, <3>2 DEF UOW!Commit
      <3> QED
        BY <2>1, <3>3 DEF Maps, UOW!Next
    <2>4. CASE o.err \in {"state25", "conflict"} /\ Settle(w, "failed")
      <3>1. db' = db /\ IInv
        BY <1>1, <1>4, <2>4 DEF DInv
      <3> QED
        BY <1>2, <2>4, <3>1, UndoMaps
    <2>5. CASE o.err \in {"terminal", "io"} /\ Settle(w, "unknown")
      <3>1. verdict' = [verdict EXCEPT ![u] = "unknown"]
        BY <1>6, <2>5 DEF Settle
      <3>2. UOW!CommitLost(u)
        BY <1>1, <1>2, <2>1, <2>2, <3>1 DEF UOW!CommitLost
      <3> QED
        BY <2>1, <3>2 DEF Maps, UOW!Next
    <2> QED
      BY <1>1, <2>3, <2>4, <2>5
  <1> QED
    BY <1>5, <1>6

\* rollback() undoes the unit, or leaves it unsettled.
LEMMA RollbackMaps == ASSUME DInv, NEW w \in Worker, RollbackUnit(w) PROVE Maps
  <1>1. UNCHANGED <<wrote, db>> /\ IInv
    BY DEF RollbackUnit, DInv
  <1>2. \/ verdict' = verdict
        \/ \E v \in {"rolledback", "failed", "unsettled"} : Settle(w, v)
    BY DEF RollbackUnit, RollbackRaises
  <1>3. CASE verdict' = verdict
    BY <1>1, <1>3, StutterMaps
  <1> QED
    BY <1>1, <1>2, <1>3, UndoMaps

\* Coming back, a session makes nothing durable.
LEMMA ResetSavesNothing ==
    ASSUME DInv, NEW w \in Worker, conn[w].at # NoSession, ResetAndCheckIn(w)
    PROVE  db' = db
  <1>1. PICK o \in Rollback(sess[conn[w].at]) : db' = db \/ (o.err = "ok" /\ CheckIn(w, o.c))
    BY DEF ResetAndCheckIn
  <1>2. conn[w].at \in Session /\ sess[conn[w].at] \in Conn /\ SessionOK(sess[conn[w].at])
        /\ (sess[conn[w].at].auto => conn[w].isolated) /\ TypeOK
    BY Holding DEF DInv, IInv
  <1>3. /\ o.c \in Conn /\ SessionOK(o.c) /\ o.c.auto = sess[conn[w].at].auto
        /\ o.err = "ok" => o.c.work = {} /\ (Closed(o.c) \/ o.c.txn = "none")
    BY <1>2, RollbackContract
  <1> QED
    BY <1>1, <1>2, <1>3, CheckInShape

LEMMA CloseMaps ==
    ASSUME DInv, NEW w \in Worker, CloseConnection(w) \/ Collected(w)
    PROVE  Maps
  <1> DEFINE s == conn[w].at
  <1>1. wrote' = wrote /\ IInv
    BY DEF CloseConnection, Collected, DInv
  <1>2. \/ verdict' = verdict
        \/ \E v \in {"rolledback", "failed", "unsettled"} : Settle(w, v)
    BY DEF CloseConnection, Collected, RollbackRaises
  <1>3. db' = db
    <2>1. CASE s = NoSession
      BY <2>1 DEF CloseConnection, Collected
    <2>2. CASE s # NoSession
      <3>1. s \in Session /\ sess[s] \in Conn /\ SessionOK(sess[s])
            /\ (sess[s].auto => conn[w].isolated) /\ TypeOK
        BY <2>2, Holding DEF DInv, IInv
      <3>2. ASSUME NEW o \in Rollback(sess[s]), o.err = "ok", CheckIn(w, o.c) PROVE db' = db
        <4>1. /\ o.c \in Conn /\ SessionOK(o.c) /\ o.c.auto = sess[s].auto
              /\ o.c.work = {} /\ (Closed(o.c) \/ o.c.txn = "none")
          BY <3>1, <3>2, RollbackContract
        <4> QED
          BY <3>1, <3>2, <4>1, CheckInShape
      <3>3. CASE conn[w].sa = "inactive" /\ CheckIn(w, sess[s])
        <4>1. sess[s].txn = "none" /\ sess[s].work = {}
          BY <2>2, <3>3 DEF DInv, IInv, FailedCommitEndsTransaction
        <4> QED
          BY <3>1, <3>3, <4>1, CheckInShape
      <3>4. CASE ResetAndCheckIn(w)
        BY <2>2, <3>4, ResetSavesNothing
      <3> QED
        BY <2>2, <3>2, <3>3, <3>4 DEF CloseConnection, Collected
    <2> QED
      BY <2>1, <2>2
  <1>4. CASE verdict' = verdict
    BY <1>1, <1>3, <1>4, StutterMaps
  <1> QED
    BY <1>1, <1>2, <1>3, <1>4, UndoMaps

LEMMA StepMaps == DInv /\ [Next]_vars => Maps
  <1> SUFFICES ASSUME DInv, [Next]_vars PROVE Maps
    OBVIOUS
  <1>1. CASE UNCHANGED vars
    BY <1>1, StutterMaps DEF vars
  <1>2. ASSUME NEW w \in Worker, Checkout(w) PROVE Maps
    <2>1. UNCHANGED <<verdict, wrote, db>>
      BY <1>2 DEF Checkout, CheckoutNew, CheckoutRecycled, CheckoutIdle, TakeIdle
    <2> QED
      BY <2>1, StutterMaps
  <1>3. ASSUME NEW w \in Worker, Work(w) PROVE Maps
    BY <1>3, WorkMaps, IsolationMaps, CommitMaps, RollbackMaps DEF Work
  <1>4. ASSUME NEW w \in Worker, CloseConnection(w) \/ Collected(w) PROVE Maps
    BY <1>4, CloseMaps
  <1>5. ASSUME NEW s \in Session, TransportFails(s) PROVE Maps
    BY <1>5, StutterMaps DEF TransportFails
  <1> QED
    BY <1>1, <1>2, <1>3, <1>4, <1>5 DEF Next

\* The sessions, the pool and the wrapper, with the dialect's hooks, keep the
\* contract that UnitOfWork states: every step is one of its steps, or none.
THEOREM PoolImplements == Spec => Implements
  <1>1. Init => UOW!Init
    BY DEF Init, UOW!Init
  <1>2. DInv /\ [Next]_vars => [UOW!Next]_(UOW!vars)
    BY StepMaps DEF Maps
  <1> QED
    BY <1>1, <1>2, DurableInvariance, PTL DEF Spec, Implements, UOW!Spec
-----------------------------------------------------------------------------
(* What goes back to the pool, and what is taken from a worker.            *)

\* Only close() closes a wrapper, and it releases the session.
Tight(c) == c.closed => c.st = "released"

\* A session in use is not one that its wrapper has given up.  A transaction of
\* SQLAlchemy without a unit of work is one under autocommit.
Trusted(c, n) ==
    /\ ~Closed(c)
    /\ n.sa = "active" /\ n.unit = NoUnit => Autocommit(c)

InGoodHands ==
    /\ \A s \in Session : Tight(sess[s])
    /\ \A w \in Worker : conn[w].at # NoSession => Trusted(sess[conn[w].at], conn[w])

GInv == DInv /\ InGoodHands

LEMMA CloseReleases ==
    ASSUME NEW c \in Conn, SessionOK(c), Tight(c), NEW k \in Close(c)
    PROVE  k.c \in Conn /\ SessionOK(k.c) /\ k.c.st = "released" /\ Tight(k.c)
  <1>1. k.c \in Conn /\ SessionOK(k.c)
    BY CloseContract
  <1>2. CASE c.closed
    BY <1>1, <1>2, OutcomeFields DEF Close, Tight
  <1>3. CASE ~c.closed
    <2>1. PICK o \in RawClose(c) :
            k = Outcome([o.c EXCEPT !.closed = TRUE, !.defunct = TRUE],
                        IF IsTerminal(o.err) THEN "ok" ELSE o.err, {})
      BY <1>3 DEF Close
    <2>2. o.c = [c EXCEPT !.st = "released", !.work = {}]
      BY <2>1, OutcomeFields DEF RawClose
    <2>3. k.c = [o.c EXCEPT !.closed = TRUE, !.defunct = TRUE]
      BY <2>1, OutcomeFields
    <2> QED
      BY <1>1, <2>2, <2>3 DEF Conn, Tight
  <1> QED
    BY <1>2, <1>3

\* rollback() on a session in use succeeds if it is alive or in autocommit mode.
LEMMA RollbackTrusted ==
    ASSUME NEW c \in Conn, SessionOK(c), ~Closed(c), NEW o \in Rollback(c)
    PROVE  /\ Tight(o.c)
           /\ o.err = "ok" => ~Closed(o.c) /\ (o.c.st = "live" \/ Autocommit(o.c))
           /\ c.st = "live" => ~IsDisconnect(o.err, o.c)
  <1>1. CASE Autocommit(c)
    <2>1. o.c = c /\ o.err = "ok"
      BY <1>1, OutcomeFields DEF Rollback
    <2> QED
      BY <1>1, <2>1 DEF Tight, Closed, IsDisconnect, IsTerminal
  <1>2. CASE ~Autocommit(c)
    <2>1. PICK r \in RawRollback(c) : o = [r EXCEPT !.c.defunct = @ \/ IsTerminal(r.err)]
      BY <1>2 DEF Rollback
    <2>2. CASE c.st # "live"
      <3>1. PICK e \in {"terminal", "io"} : r = Outcome(c, e, {})
        BY <2>1, <2>2 DEF RawRollback, RawFail
      <3>2. o.err = e /\ o.c = [c EXCEPT !.defunct = @ \/ IsTerminal(e)]
        BY <2>1, <3>1 DEF Outcome
      <3> QED
        BY <2>2, <3>2 DEF Conn, Tight, Closed
    <2>3. CASE c.st = "live"
      <3>1. PICK d \in {c, EndTxn(c)}, e \in {"ok", "refused"} : r = Outcome(d, e, {})
        BY <2>1, <2>3 DEF RawRollback
      <3>2. d.st = "live" /\ ~d.closed /\ ~d.defunct /\ d \in Conn
        BY <2>3 DEF EndTxn, Conn, Closed
      <3>3. ~IsTerminal(e)
        BY DEF IsTerminal
      <3>4. o.err = e /\ o.c = [d EXCEPT !.defunct = @ \/ IsTerminal(e)]
        BY <2>1, <3>1 DEF Outcome
      <3>5. o.c.st = "live" /\ ~o.c.closed /\ ~o.c.defunct
        BY <3>2, <3>3, <3>4 DEF Conn
      <3> QED
        BY <3>3, <3>4, <3>5 DEF Tight, Closed, IsDisconnect
    <2> QED
      BY <2>2, <2>3
  <1> QED
    BY <1>1, <1>2

LEMMA RawCommitOpen ==
    ASSUME NEW c \in Conn, SessionOK(c), ~Closed(c), NEW o \in RawCommit(c)
    PROVE  /\ o.c \in Conn /\ ~o.c.closed /\ ~o.c.defunct
           /\ o.err = "ok" => o.c.st = "live"
  <1>1. CASE o.c = c
    BY <1>1, RawCommitShape DEF Closed
  <1>2. CASE c.st = "live" /\ o.c = EndTxn(c)
    BY <1>2, EndTxnFields DEF Closed
  <1>3. CASE c.st = "live" /\ o.c = Lose(c) /\ o.err \in {"terminal", "io"}
    <2>1. ~Lose(c).closed /\ ~Lose(c).defunct
      BY DEF Lose, Closed, Conn
    <2> QED
      BY <1>3, <2>1, LoseFields
  <1>4. \/ o.c = c
        \/ c.st = "live" /\ o.c = EndTxn(c)
        \/ c.st = "live" /\ o.c = Lose(c) /\ o.err \in {"terminal", "io"}
    BY RawCommitShape
  <1> QED
    BY <1>1, <1>2, <1>3, <1>4

\* commit() of a session in use that is alive and not poisoned finds it lost
\* only when the transport fails on the way, with the outcome unknown.
LEMMA CommitTrusted ==
    ASSUME NEW c \in Conn, SessionOK(c), ~Closed(c), NEW o \in Commit(c)
    PROVE  /\ Tight(o.c)
           /\ o.err = "ok" => ~Closed(o.c)
           /\ c.st = "live" /\ c.txn # "poisoned" /\ IsDisconnect(o.err, o.c)
                 => o.err \in {"terminal", "io"} /\ ~Autocommit(c)
  <1>1. CASE Autocommit(c)
    <2>1. o.c = c /\ o.err = "ok"
      BY <1>1, OutcomeFields DEF Commit
    <2> QED
      BY <1>1, <2>1 DEF Tight, Closed, IsDisconnect, IsTerminal
  <1>2. CASE ~Autocommit(c) /\ o \in RawCommit(c) /\ o.err # "state25"
    <2>1. ~o.c.closed /\ ~o.c.defunct
      BY <1>2, RawCommitOpen
    <2>2. c.st = "live" /\ IsDisconnect(o.err, o.c) => o.err \in {"terminal", "io"}
      BY <2>1 DEF IsDisconnect, IsTerminal, Closed
    <2> QED
      BY <1>2, <2>1, <2>2 DEF Tight, Closed
  <1>3. CASE ~Autocommit(c) /\ \E q \in RawCommit(c) : q.err = "state25" /\ o \in CommitCleanup(q.c)
    <2>1. PICK q \in RawCommit(c) : q.err = "state25" /\ o \in CommitCleanup(q.c)
      BY <1>3
    <2>2. c.st = "live" /\ c.txn = "poisoned" /\ q.c = c
      BY <2>1, RawCommitShape
    <2>3. PICK r \in RawRollback(c) : \/ o = Outcome(r.c, "state25", {})
                                      \/ \E k \in Close(r.c) : o = Outcome(k.c, "state25", {})
      BY <2>1, <2>2 DEF CommitCleanup
    <2>4. r.c = c \/ r.c = EndTxn(c)
      BY <2>2, <2>3, OutcomeFields DEF RawRollback
    <2>5. r.c \in Conn /\ SessionOK(r.c) /\ Tight(r.c)
      BY <2>2, <2>4, EndTxnFields DEF Tight, Closed
    <2>6. Tight(o.c) /\ o.err = "state25"
      BY <2>3, <2>5, CloseReleases, OutcomeFields
    <2> QED
      BY <2>2, <2>6
  <1>4. \/ Autocommit(c)
        \/ ~Autocommit(c) /\ o \in RawCommit(c) /\ o.err # "state25"
        \/ ~Autocommit(c) /\ \E q \in RawCommit(c) : q.err = "state25" /\ o \in CommitCleanup(q.c)
    BY DEF Commit
  <1> QED
    BY <1>1, <1>2, <1>3, <1>4

\* A change of the isolation level closes nothing.  When check-in restores it,
\* the session is alive.
LEMMA IsolationTrusted ==
    ASSUME NEW c \in Conn, SessionOK(c), ~Closed(c),
           NEW level \in {"AUTOCOMMIT", "SERIALIZABLE"},
           NEW o \in SetIsolationLevel(c, level)
    PROVE  /\ ~Closed(o.c)
           /\ level = "SERIALIZABLE" /\ o.err = "ok" /\ (c.st = "live" \/ Autocommit(c))
                 => o.c.st = "live"
  <1> DEFINE value == level = "AUTOCOMMIT"
  <1>1. CASE Autocommit(c) = value
    <2>1. o = Outcome(c, "ok", {})
      BY <1>1 DEF SetIsolationLevel, SetAutocommit
    <2>2. o.c = c
      BY <2>1, OutcomeFields
    <2>3. level = "SERIALIZABLE" => ~Autocommit(c)
      BY <1>1
    <2> QED
      BY <2>2, <2>3
  <1>2. CASE Autocommit(c) # value
    <2>1. PICK q \in RawCommit(c) : o = [q EXCEPT !.c.auto = IF q.err = "ok" THEN value ELSE @]
      BY <1>2 DEF SetIsolationLevel, SetAutocommit, RawSetAutocommit
    <2>2. /\ q.c \in Conn /\ ~q.c.closed /\ ~q.c.defunct
          /\ q.err = "ok" => q.c.st = "live"
      BY <2>1, RawCommitOpen
    <2>3. q = Outcome(q.c, q.err, q.saved)
      BY <2>1 DEF RawCommit, RawFail, Outcome
    <2>4. o.err = q.err /\ \E a \in BOOLEAN : o.c = [q.c EXCEPT !.auto = a]
      BY <2>1, <2>2, <2>3 DEF Outcome, Conn
    <2> QED
      BY <2>2, <2>4 DEF Closed, Conn
  <1> QED
    BY <1>1, <1>2

\* A statement finds the session lost only if it was, and closes nothing.
LEMMA ExecuteTrusted ==
    ASSUME NEW c \in Conn, ~Closed(c), NEW us \in SUBSET Unit, NEW o \in RawExecute(c, us)
    PROVE  /\ ~Closed(o.c)
           /\ c.st = "live" => ~IsDisconnect(o.err, o.c)
           /\ Autocommit(c) => o.c = c
  <1>1. CASE c.st # "live"
    BY <1>1, OutcomeFields DEF RawExecute, RawFail
  <1>2. CASE c.st = "live" /\ Autocommit(c)
    <2>1. o = Outcome(c, "ok", {}) \/ o = Outcome(c, "stmt", {})
      BY <1>2 DEF RawExecute, Autocommit
    <2> QED
      BY <2>1, OutcomeFields DEF IsDisconnect, IsTerminal
  <1>3. CASE c.st = "live" /\ ~Autocommit(c)
    <2>1. /\ o.err \in {"ok", "stmt", "state25"}
          /\ \/ o.c = c
             \/ o.c = [c EXCEPT !.work = @ \cup us]
             \/ o.c = [c EXCEPT !.txn = "open", !.work = @ \cup us]
             \/ o.c = [c EXCEPT !.txn = "open"]
             \/ o.c = [c EXCEPT !.txn = "poisoned"]
      BY <1>3, OutcomeFields DEF RawExecute
    <2>2. ~o.c.closed /\ ~o.c.defunct
      BY <2>1 DEF Closed, Conn
    <2> QED
      BY <1>3, <2>1, <2>2 DEF Closed, IsDisconnect, IsTerminal
  <1> QED
    BY <1>1, <1>2, <1>3

LEMMA BeginTrusted ==
    ASSUME NEW c \in Conn, ~Closed(c), NEW o \in RawBegin(c)
    PROVE  /\ ~Closed(o.c)
           /\ c.st = "live" => ~IsDisconnect(o.err, o.c)
  <1>1. CASE c.st # "live"
    BY <1>1, OutcomeFields DEF RawBegin, RawFail
  <1>2. CASE c.st = "live"
    <2>1. o.c = [c EXCEPT !.txn = "open"] /\ o.err = "ok"
      BY <1>2, OutcomeFields DEF RawBegin
    <2> QED
      BY <1>2, <2>1 DEF Closed, Conn, IsDisconnect, IsTerminal
  <1> QED
    BY <1>1, <1>2

\* What pre-ping lets through is fit for its next user.
Fit(c) == c.st = "live" /\ c.work = {} /\ ~c.auto /\ c.txn # "poisoned"

LEMMA PingFit ==
    ASSUME NEW c \in Conn, ~Closed(c), Clean(c), NEW o \in DoPing(c), o.err = "ok"
    PROVE  Fit(o.c) /\ ~Closed(o.c)
  <1>1. c.st = "live"
    <2>1. CASE c.st # "live"
      BY <2>1, OutcomeFields DEF DoPing, RawFail
    <2> QED
      BY <2>1
  <1>2. o.c = [c EXCEPT !.txn = IF c.auto THEN @ ELSE "open"]
    BY <1>1, OutcomeFields DEF DoPing
  <1> QED
    BY <1>1, <1>2 DEF Clean, Fit, Closed, Conn

Justified(w) ==
    \/ sess[conn[w].at].st = "dead"
    \/ sess[conn[w].at].txn = "poisoned"
    \/ \E u \in Unit : verdict'[u] = "unknown" /\ verdict[u] # "unknown"

\* A step of worker w that leaves it with the connection n.
GoodStep(w, n) ==
    /\ conn' = [conn EXCEPT ![w] = n]
    /\ \A r \in Session : r # conn[w].at /\ r # n.at => sess'[r] = sess[r]
    /\ \A r \in Session : sess'[r] = sess[r] \/ Tight(sess'[r])
    /\ n.at # NoSession => Trusted(sess'[n.at], n)
    /\ idle' \subseteq idle \cup {conn[w].at}
    /\ conn[w].at \in idle' \ idle =>
          sess'[conn[w].at].st # "dead" \/ conn[w].sa = "inactive"
    /\ PrePing /\ conn[w].phase = "in" /\ n.phase = "out" => Fit(sess'[n.at])
    /\ conn[w].phase = "out" /\ conn[w].at # NoSession /\ n.phase = "out" /\ n.at = NoSession
          => Justified(w)

\* The bodies of the two action properties.
ReturnedAlive ==
    /\ \A s \in idle' \ idle : sess'[s].st = "dead" =>
          \E w \in Worker : conn[w].at = s /\ conn[w].sa = "inactive"
    /\ \A w \in Worker : PrePing /\ conn[w].phase = "in" /\ conn'[w].phase = "out" =>
          Fit(sess'[conn'[w].at])
TakenJustly == \A w \in Worker : GivenUp(w) => Justified(w)

LEMMA GoodStepKeeps ==
    ASSUME GInv, IInv', NEW w \in Worker, NEW n, GoodStep(w, n)
    PROVE  InGoodHands' /\ ReturnedAlive /\ TakenJustly
  <1>1. conn'[w] = n /\ \A v \in Worker \ {w} : conn'[v] = conn[v]
    BY DEF GoodStep, GInv, DInv, IInv, TypeOK
  <1>2. (\A s \in Session : Tight(sess[s]))'
    BY DEF GoodStep, GInv, InGoodHands, Tight
  <1>3. ASSUME NEW v \in Worker, conn'[v].at # NoSession
        PROVE  Trusted(sess[conn[v].at], conn[v])'
    <2>1. CASE v = w
      BY <1>1, <1>3, <2>1 DEF GoodStep, Trusted
    <2>2. CASE v # w
      <3>1. conn'[v] = conn[v] /\ conn[v].at \in Session
        BY <1>1, <1>3, <2>2 DEF GInv, DInv, IInv, TypeOK, ConnType
      <3>2. conn[v].at # conn[w].at
        BY <1>3, <2>2, <3>1 DEF GInv, DInv, IInv, Ownership
      <3>3. conn[v].at # n.at
        BY <1>1, <1>3, <2>2, <3>1 DEF IInv, Ownership
      <3>4. sess'[conn[v].at] = sess[conn[v].at]
        BY <3>1, <3>2, <3>3 DEF GoodStep
      <3>5. Trusted(sess[conn[v].at], conn[v])
        BY <1>3, <3>1 DEF GInv, InGoodHands
      <3> QED
        BY <3>1, <3>4, <3>5 DEF Trusted
    <2> QED
      BY <2>1, <2>2
  <1>4. InGoodHands'
    BY <1>2, <1>3 DEF InGoodHands
  <1>5. ReturnedAlive
    BY <1>1 DEF GoodStep, ReturnedAlive
  <1>6. TakenJustly
    BY <1>1 DEF GoodStep, TakenJustly, GivenUp
  <1> QED
    BY <1>4, <1>5, <1>6

\* What a slot that is put back holds.
LEMMA PutBackGood ==
    ASSUME TypeOK, NEW s \in Session, NEW c \in Conn, SessionOK(c), Tight(c), PutBack(s, c)
    PROVE  /\ sess'[s] = c \/ sess'[s].st = "released"
           /\ Tight(sess'[s])
           /\ \A r \in Session \ {s} : sess'[r] = sess[r]
           /\ idle' \subseteq idle \cup {s}
  <1>1. CASE Cardinality(idle) < PoolSize
    BY <1>1 DEF PutBack, TypeOK
  <1>2. CASE ~(Cardinality(idle) < PoolSize)
    <2>1. PICK k \in Close(c) : sess' = [sess EXCEPT ![s] = k.c] /\ idle' = idle
      BY <1>2 DEF PutBack
    <2> QED
      BY <2>1, CloseReleases DEF TypeOK
  <1> QED
    BY <1>1, <1>2

\* A session that is closed and put back is released.
LEMMA ClosedAndPutBack ==
    ASSUME TypeOK, NEW s \in Session, NEW c \in Conn, SessionOK(c), Tight(c),
           \E k \in Close(c) : PutBack(s, k.c)
    PROVE  /\ sess'[s].st = "released" /\ Tight(sess'[s])
           /\ \A r \in Session \ {s} : sess'[r] = sess[r]
           /\ idle' \subseteq idle \cup {s}
  <1>1. PICK k \in Close(c) : PutBack(s, k.c)
    OBVIOUS
  <1>2. k.c \in Conn /\ SessionOK(k.c) /\ k.c.st = "released" /\ Tight(k.c)
    BY CloseReleases
  <1> QED
    BY <1>1, <1>2, PutBackGood

\* An error that SQLAlchemy handles, leaving next if the session is kept.
LEMMA HandleErrorGood ==
    ASSUME TypeOK, NEW w \in Worker, conn[w].at \in Session, conn[w].phase # "in",
           NEW next \in ConnType, next.at = conn[w].at,
           NEW o, o.c \in Conn, SessionOK(o.c), Tight(o.c),
           ~IsDisconnect(o.err, o.c) => Trusted(o.c, next),
           IsDisconnect(o.err, o.c) /\ next.phase = "out" => Justified(w),
           HandleError(w, o, next)
    PROVE  \E n : GoodStep(w, n)
  <1> USE NoSessionAssumption
  <1>1. CASE IsDisconnect(o.err, o.c)
    <2> DEFINE n == [next EXCEPT !.at = NoSession]
    <2>1. (\E k \in Close(o.c) : PutBack(conn[w].at, k.c)) /\ conn' = [conn EXCEPT ![w] = n]
      BY <1>1 DEF HandleError, Disconnect
    <2>2. n.at = NoSession /\ n.phase = next.phase
      BY DEF ConnType
    <2> HIDE DEF n
    <2>3. /\ sess'[conn[w].at].st = "released" /\ Tight(sess'[conn[w].at])
          /\ \A r \in Session \ {conn[w].at} : sess'[r] = sess[r]
          /\ idle' \subseteq idle \cup {conn[w].at}
      BY <2>1, ClosedAndPutBack
    <2>4. \A r \in Session : sess'[r] = sess[r] \/ Tight(sess'[r])
      BY <2>3
    <2>5. sess'[conn[w].at].st # "dead"
      BY <2>3
    <2>6. GoodStep(w, n)
      BY <1>1, <2>1, <2>2, <2>3, <2>4, <2>5 DEF GoodStep
    <2> QED
      BY <2>6
  <1>2. CASE ~IsDisconnect(o.err, o.c)
    <2>1. sess' = [sess EXCEPT ![conn[w].at] = o.c] /\ conn' = [conn EXCEPT ![w] = next]
          /\ idle' = idle
      BY <1>2 DEF HandleError
    <2>2. sess'[conn[w].at] = o.c /\ \A r \in Session \ {conn[w].at} : sess'[r] = sess[r]
      BY <2>1 DEF TypeOK
    <2>3. GoodStep(w, next)
      BY <1>2, <2>1, <2>2 DEF GoodStep
    <2> QED
      BY <2>3
  <1> QED
    BY <1>1, <1>2

\* A session that check-in puts in the queue is alive, unless its commit failed.
LEMMA CheckInGood ==
    ASSUME TypeOK, NEW w \in Worker, conn[w].at \in Session, conn[w].phase # "in",
           NEW c \in Conn, SessionOK(c), ~Closed(c), c.auto => conn[w].isolated,
           c.st = "live" \/ Autocommit(c) \/ conn[w].sa = "inactive", CheckIn(w, c)
    PROVE  \E n : GoodStep(w, n)
  <1> USE NoSessionAssumption
  <1> DEFINE s == conn[w].at
             Restored == IF conn[w].isolated THEN SetIsolationLevel(c, "SERIALIZABLE")
                                             ELSE {Outcome(c, "ok", {})}
             closing == [Away EXCEPT !.phase = "closing"]
  <1>1. PICK f \in Restored :
          \/ /\ f.err = "ok" /\ PutBack(s, f.c)
             /\ conn' = [conn EXCEPT ![w] = Away]
          \/ /\ sess' = [sess EXCEPT ![s] = f.c] /\ idle' = idle
             /\ conn' = [conn EXCEPT ![w] = closing]
    BY DEF CheckIn
  <1>2. /\ f.c \in Conn /\ SessionOK(f.c) /\ ~Closed(f.c)
        /\ f.err = "ok" => f.c.st = "live" \/ conn[w].sa = "inactive"
    <2>1. CASE conn[w].isolated
      <3>1. f \in SetIsolationLevel(c, "SERIALIZABLE")
        BY <2>1
      <3> QED
        BY <3>1, IsolationTrusted, IsolationContract
    <2>2. CASE ~conn[w].isolated
      BY <2>2, OutcomeFields DEF Autocommit
    <2> QED
      BY <2>1, <2>2
  <1> HIDE DEF Restored
  <1>3. Tight(f.c)
    BY <1>2 DEF Tight, Closed
  <1>4. /\ Away.at = NoSession /\ Away.phase = "in"
        /\ closing.at = NoSession /\ closing.phase = "closing"
    BY DEF Away
  <1> HIDE DEF closing
  <1>5. CASE f.err = "ok" /\ PutBack(s, f.c) /\ conn' = [conn EXCEPT ![w] = Away]
    <2>1. /\ sess'[s] = f.c \/ sess'[s].st = "released"
          /\ Tight(sess'[s])
          /\ \A r \in Session \ {s} : sess'[r] = sess[r]
          /\ idle' \subseteq idle \cup {s}
      BY <1>2, <1>3, <1>5, PutBackGood
    <2>2. sess'[s].st # "dead" \/ conn[w].sa = "inactive"
      BY <1>2, <1>5, <2>1
    <2>3. \A r \in Session : sess'[r] = sess[r] \/ Tight(sess'[r])
      BY <2>1
    <2>4. GoodStep(w, Away)
      BY <1>4, <1>5, <2>1, <2>2, <2>3 DEF GoodStep
    <2> QED
      BY <2>4
  <1>6. CASE /\ sess' = [sess EXCEPT ![s] = f.c] /\ idle' = idle
             /\ conn' = [conn EXCEPT ![w] = closing]
    <2>1. \A r \in Session : sess'[r] = sess[r] \/ (r = s /\ sess'[r] = f.c)
      BY <1>6 DEF TypeOK
    <2>2. GoodStep(w, closing)
      BY <1>3, <1>4, <1>6, <2>1 DEF GoodStep
    <2> QED
      BY <2>2
  <1> QED
    BY <1>1, <1>5, <1>6

\* What GInv says of the session in a worker's hands.
LEMMA InGood ==
    ASSUME GInv, NEW w \in Worker, conn[w].at # NoSession
    PROVE  /\ TypeOK /\ conn[w] \in ConnType /\ conn[w].at \in Session /\ conn[w].phase # "in"
           /\ sess[conn[w].at] \in Conn /\ SessionOK(sess[conn[w].at])
           /\ sess[conn[w].at].st \in {"live", "dead"}
           /\ ~Closed(sess[conn[w].at])
           /\ sess[conn[w].at].auto => conn[w].isolated
           /\ conn[w].sa = "active" /\ conn[w].unit = NoUnit => Autocommit(sess[conn[w].at])
  <1>1. /\ TypeOK /\ conn[w] \in ConnType /\ conn[w].at \in Session /\ conn[w].phase # "in"
        /\ sess[conn[w].at] \in Conn /\ SessionOK(sess[conn[w].at])
        /\ sess[conn[w].at].auto => conn[w].isolated
    BY Holding DEF GInv, DInv, IInv
  <1>2. sess[conn[w].at].st # "released"
    BY DEF GInv, DInv, WorkInHand, InHand
  <1>3. Trusted(sess[conn[w].at], conn[w])
    BY DEF GInv, InGoodHands
  <1> QED
    BY <1>1, <1>2, <1>3 DEF Trusted, Conn

LEMMA CheckoutGood ==
    ASSUME GInv, NEW w \in Worker, Checkout(w)
    PROVE  \E n : GoodStep(w, n)
  <1> USE NoSessionAssumption
  <1> PICK s \in Session : CheckoutNew(w, s) \/ CheckoutRecycled(w, s) \/ CheckoutIdle(w, s)
    BY DEF Checkout
  <1> DEFINE n == [Away EXCEPT !.phase = "out", !.at = s]
  <1>1. TypeOK /\ conn[w].phase = "in" /\ conn' = [conn EXCEPT ![w] = n] /\ idle' \subseteq idle
    BY DEF CheckoutNew, CheckoutRecycled, CheckoutIdle, TakeIdle, Occupy, GInv, DInv, IInv
  <1>2. conn[w].at = NoSession
    BY <1>1 DEF GInv, DInv, IInv, Ownership
  <1>3. n.at = s /\ n.sa = "none"
    BY DEF Away
  <1> HIDE DEF n
  <1>4. ASSUME NEW c \in Conn, sess' = [sess EXCEPT ![s] = c], ~Closed(c), PrePing => Fit(c)
        PROVE  GoodStep(w, n)
    <2>1. sess'[s] = c /\ \A r \in Session \ {s} : sess'[r] = sess[r]
      BY <1>1, <1>4 DEF TypeOK
    <2>2. Tight(c) /\ Trusted(c, n)
      BY <1>3, <1>4 DEF Tight, Trusted, Closed
    <2> QED
      BY <1>1, <1>2, <1>3, <1>4, <2>1, <2>2 DEF GoodStep
  <1>5. Fresh \in Conn /\ ~Closed(Fresh) /\ Fit(Fresh)
    BY DEF Fresh, Conn, Closed, Fit
  <1>6. CASE sess' = [sess EXCEPT ![s] = Fresh]
    BY <1>4, <1>5, <1>6
  <1>7. CASE CheckoutIdle(w, s)
    <2>1. /\ sess[s] \in Conn /\ ~Closed(sess[s]) /\ Clean(sess[s])
      BY <1>1, <1>7 DEF CheckoutIdle, TakeIdle, Recycled, GInv, DInv, IInv, TypeOK
    <2>2. CASE ~PrePing /\ sess' = sess
      <3>1. sess' = [sess EXCEPT ![s] = sess[s]]
        BY <1>1, <2>2 DEF TypeOK
      <3> QED
        BY <1>4, <2>1, <2>2, <3>1
    <2>3. CASE \E p \in DoPing(sess[s]) : p.err = "ok" /\ sess' = [sess EXCEPT ![s] = p.c]
      <3>1. PICK p \in DoPing(sess[s]) : p.err = "ok" /\ sess' = [sess EXCEPT ![s] = p.c]
        BY <2>3
      <3>2. Fit(p.c) /\ ~Closed(p.c)
        BY <2>1, <3>1, PingFit
      <3>3. p.c \in Conn
        BY <2>1, <3>1, PingContract DEF GInv, DInv, IInv
      <3> QED
        BY <1>4, <3>1, <3>2, <3>3
    <2> QED
      BY <1>6, <1>7, <2>2, <2>3 DEF CheckoutIdle
  <1> QED
    BY <1>6, <1>7 DEF CheckoutNew, CheckoutRecycled

LEMMA RequestAutocommitGood ==
    ASSUME GInv, NEW w \in Worker, RequestAutocommit(w)
    PROVE  \E n : GoodStep(w, n)
  <1> DEFINE s == conn[w].at
  <1>1. PICK o \in SetIsolationLevel(sess[s], "AUTOCOMMIT") :
          /\ sess' = [sess EXCEPT ![s] = o.c]
          /\ conn' = [conn EXCEPT ![w].isolated = (o.err = "ok")]
    BY DEF RequestAutocommit
  <1>2. s # NoSession /\ conn[w].sa # "active" /\ idle' = idle
    BY DEF RequestAutocommit, InUse
  <1> DEFINE n == [conn[w] EXCEPT !.isolated = (o.err = "ok")]
  <1>3. /\ TypeOK /\ conn[w] \in ConnType /\ s \in Session /\ conn[w].phase # "in"
        /\ sess[s] \in Conn /\ SessionOK(sess[s]) /\ ~Closed(sess[s])
    BY <1>2, InGood
  <1>4. o.c \in Conn /\ ~Closed(o.c)
    BY <1>1, <1>3, IsolationContract, IsolationTrusted
  <1>5. conn' = [conn EXCEPT ![w] = n] /\ n.at = s /\ n.sa # "active" /\ n.phase = conn[w].phase
    BY <1>1, <1>2, <1>3 DEF ConnType, TypeOK
  <1> HIDE DEF n
  <1>6. sess'[s] = o.c /\ \A r \in Session \ {s} : sess'[r] = sess[r]
    BY <1>1, <1>3 DEF TypeOK
  <1>7. Tight(o.c) /\ Trusted(o.c, n)
    BY <1>4, <1>5 DEF Tight, Trusted, Closed
  <1>8. GoodStep(w, n)
    BY <1>2, <1>3, <1>5, <1>6, <1>7 DEF GoodStep
  <1> QED
    BY <1>8

\* A statement that leaves the worker in a transaction with unit u.
LEMMA ActiveTrusted ==
    ASSUME GInv, NEW w \in Worker, NEW u \in UnitsFor(w), InUse(w), u \in Unit \cup {NoUnit},
           NEW o \in RawExecute(sess[conn[w].at], {u} \ {NoUnit})
    PROVE  /\ o.c \in Conn /\ SessionOK(o.c) /\ Tight(o.c) /\ Trusted(o.c, Active(w, u))
           /\ IsDisconnect(o.err, o.c) => Justified(w)
  <1> DEFINE s == conn[w].at
  <1>1. /\ conn[w] \in ConnType /\ sess[s] \in Conn /\ SessionOK(sess[s]) /\ ~Closed(sess[s])
        /\ sess[s].st \in {"live", "dead"}
    BY InGood DEF InUse
  <1>2. o.c \in Conn /\ SessionOK(o.c)
    BY <1>1, ExecuteContract
  <1>3. /\ ~Closed(o.c) /\ (sess[s].st = "live" => ~IsDisconnect(o.err, o.c))
        /\ Autocommit(sess[s]) => o.c = sess[s]
    BY <1>1, ExecuteTrusted
  <1>4. Active(w, u).unit = u
    BY <1>1, ActiveFields
  <1>5. u = NoUnit => Autocommit(sess[s])
    BY NoUnitAssumption DEF UnitsFor
  <1> QED
    BY <1>1, <1>2, <1>3, <1>4, <1>5 DEF Tight, Trusted, Closed, Justified

LEMMA ExecuteGood ==
    ASSUME GInv, NEW w \in Worker, NEW u \in Unit \cup {NoUnit}, Execute(w, u)
    PROVE  \E n : GoodStep(w, n)
  <1>1. PICK o \in RawExecute(sess[conn[w].at], {u} \ {NoUnit}) : HandleError(w, o, Active(w, u))
    BY DEF Execute
  <1>2. InUse(w) /\ u \in UnitsFor(w) /\ conn[w].at # NoSession
    BY DEF Execute, Begun, InUse
  <1>3. TypeOK /\ conn[w] \in ConnType /\ conn[w].at \in Session /\ conn[w].phase # "in"
    BY <1>2, InGood
  <1>4. Active(w, u) \in ConnType /\ Active(w, u).at = conn[w].at
    BY <1>3, ActiveFields
  <1>5. /\ o.c \in Conn /\ SessionOK(o.c) /\ Tight(o.c) /\ Trusted(o.c, Active(w, u))
        /\ IsDisconnect(o.err, o.c) => Justified(w)
    BY <1>1, <1>2, ActiveTrusted
  <1> QED
    BY <1>1, <1>3, <1>4, <1>5, HandleErrorGood

LEMMA IngestGood ==
    ASSUME GInv, NEW w \in Worker, NEW u \in Unit \cup {NoUnit}, Ingest(w, u)
    PROVE  \E n : GoodStep(w, n)
  <1> DEFINE m == Active(w, u)
  <1>1. PICK o \in RawExecute(sess[conn[w].at], {u} \ {NoUnit}) :
           sess' = [sess EXCEPT ![conn[w].at] = o.c]
    BY DEF Ingest
  <1>2. /\ InUse(w) /\ u \in UnitsFor(w) /\ conn[w].at # NoSession
        /\ conn' = [conn EXCEPT ![w] = m] /\ idle' = idle
    BY DEF Ingest, Begun, InUse
  <1>3. TypeOK /\ conn[w] \in ConnType /\ conn[w].at \in Session /\ conn[w].phase # "in"
    BY <1>2, InGood
  <1>4. m.at = conn[w].at
    BY <1>3, ActiveFields
  <1>5. Tight(o.c) /\ Trusted(o.c, m)
    BY <1>1, <1>2, ActiveTrusted
  <1> HIDE DEF m
  <1>6. sess'[conn[w].at] = o.c /\ \A r \in Session \ {conn[w].at} : sess'[r] = sess[r]
    BY <1>1, <1>3 DEF TypeOK
  <1>7. GoodStep(w, m)
    BY <1>2, <1>3, <1>4, <1>5, <1>6 DEF GoodStep
  <1> QED
    BY <1>7

LEMMA StartTransactionGood ==
    ASSUME GInv, NEW w \in Worker, NEW u \in Unit, StartTransaction(w, u)
    PROVE  \E n : GoodStep(w, n)
  <1> DEFINE c == sess[conn[w].at]
  <1>1. PICK o \in RawBegin(c) : HandleError(w, o, Active(w, u))
    BY DEF StartTransaction
  <1>2. conn[w].at # NoSession
    BY DEF StartTransaction, Begun, InUse
  <1>3. /\ TypeOK /\ conn[w] \in ConnType /\ conn[w].at \in Session /\ conn[w].phase # "in"
        /\ c \in Conn /\ SessionOK(c) /\ ~Closed(c) /\ c.st \in {"live", "dead"}
    BY <1>2, InGood
  <1>4. /\ Active(w, u) \in ConnType /\ Active(w, u).at = conn[w].at /\ Active(w, u).unit # NoUnit
    BY <1>3, ActiveFields, NoUnitAssumption
  <1>5. /\ o.c \in Conn /\ SessionOK(o.c) /\ ~Closed(o.c)
        /\ c.st = "live" => ~IsDisconnect(o.err, o.c)
    BY <1>1, <1>3, BeginContract, BeginTrusted
  <1>6. /\ Tight(o.c) /\ Trusted(o.c, Active(w, u))
        /\ IsDisconnect(o.err, o.c) => Justified(w)
    BY <1>3, <1>4, <1>5 DEF Tight, Trusted, Closed, Justified
  <1> QED
    BY <1>1, <1>3, <1>4, <1>5, <1>6, HandleErrorGood

LEMMA CommitGood ==
    ASSUME GInv, NEW w \in Worker, CommitUnit(w)
    PROVE  \E n : GoodStep(w, n)
  <1> DEFINE c == sess[conn[w].at]
  <1>1. PICK o \in Commit(c) :
          \/ /\ o.err = "ok" /\ idle' = idle
             /\ sess' = [sess EXCEPT ![conn[w].at] = o.c]
             /\ conn' = [conn EXCEPT ![w] = Ended(w, "none")]
          \/ /\ o.err \in {"state25", "conflict"}
             /\ HandleError(w, o, Ended(w, "inactive"))
          \/ /\ o.err \in {"terminal", "io"} /\ Settle(w, "unknown")
             /\ HandleError(w, o, Ended(w, "inactive"))
    BY DEF CommitUnit
  <1>2. conn[w].at # NoSession /\ conn[w].sa = "active"
    BY DEF CommitUnit, InUse
  <1>3. /\ TypeOK /\ conn[w] \in ConnType /\ conn[w].at \in Session /\ conn[w].phase # "in"
        /\ c \in Conn /\ SessionOK(c) /\ ~Closed(c) /\ c.st \in {"live", "dead"}
        /\ conn[w].unit = NoUnit => Autocommit(c)
    BY <1>2, InGood
  <1>4. \A x \in {"none", "inactive"} :
           Ended(w, x) \in ConnType /\ Ended(w, x).at = conn[w].at /\ Ended(w, x).sa = x
           /\ Ended(w, x).phase = conn[w].phase
    BY <1>3, EndedFields
  <1>5. /\ o.c \in Conn /\ SessionOK(o.c) /\ Tight(o.c)
        /\ o.err = "ok" => ~Closed(o.c)
        /\ c.st = "live" /\ c.txn # "poisoned" /\ IsDisconnect(o.err, o.c)
              => o.err \in {"terminal", "io"} /\ ~Autocommit(c)
    BY <1>1, <1>3, CommitContract, CommitTrusted
  <1>6. CASE /\ o.err = "ok" /\ idle' = idle
             /\ sess' = [sess EXCEPT ![conn[w].at] = o.c]
             /\ conn' = [conn EXCEPT ![w] = Ended(w, "none")]
    <2> DEFINE n == Ended(w, "none")
    <2>1. n.at = conn[w].at /\ n.sa = "none" /\ conn' = [conn EXCEPT ![w] = n]
      BY <1>4, <1>6
    <2> HIDE DEF n
    <2>2. Trusted(o.c, n)
      BY <1>5, <1>6, <2>1 DEF Trusted
    <2>3. sess'[conn[w].at] = o.c /\ \A r \in Session \ {conn[w].at} : sess'[r] = sess[r]
      BY <1>3, <1>6 DEF TypeOK
    <2>4. GoodStep(w, n)
      BY <1>2, <1>3, <1>5, <1>6, <2>1, <2>2, <2>3 DEF GoodStep
    <2> QED
      BY <2>4
  <1>7. CASE /\ HandleError(w, o, Ended(w, "inactive"))
             /\ o.err \in {"terminal", "io"} => Settle(w, "unknown")
    <2>1. ASSUME IsDisconnect(o.err, o.c), c.st # "dead", c.txn # "poisoned"
          PROVE  \E u \in Unit : verdict'[u] = "unknown" /\ verdict[u] # "unknown"
      <3>1. o.err \in {"terminal", "io"} /\ ~Autocommit(c)
        BY <1>3, <1>5, <2>1
      <3>2. conn[w].unit \in Unit /\ conn[w].unit # NoUnit
        BY <1>3, <3>1 DEF ConnType
      <3>3. verdict[conn[w].unit] = "running"
        BY <3>2 DEF GInv, DInv, IInv, UnitOwnership
      <3>4. verdict' = [verdict EXCEPT ![conn[w].unit] = "unknown"]
        BY <1>7, <3>1, <3>2 DEF Settle
      <3>5. verdict'[conn[w].unit] = "unknown"
        BY <1>3, <3>2, <3>4 DEF TypeOK
      <3> QED
        BY <3>2, <3>3, <3>5
    <2>2. IsDisconnect(o.err, o.c) => Justified(w)
      BY <2>1 DEF Justified
    <2> DEFINE next == Ended(w, "inactive")
    <2>3. next \in ConnType /\ next.at = conn[w].at /\ next.sa = "inactive"
          /\ HandleError(w, o, next)
      BY <1>4, <1>7
    <2> HIDE DEF next
    <2>4. ~IsDisconnect(o.err, o.c) => Trusted(o.c, next)
      BY <2>3 DEF IsDisconnect, Trusted
    <2> QED
      BY <1>3, <1>5, <2>2, <2>3, <2>4, HandleErrorGood
  <1> QED
    BY <1>1, <1>6, <1>7

\* A rollback() that raises.
LEMMA RollbackErrorGood ==
    ASSUME GInv, NEW w \in Worker, conn[w].at # NoSession,
           NEW o \in Rollback(sess[conn[w].at]),
           NEW next \in ConnType, next.at = conn[w].at, next.sa = "none",
           RollbackRaises(w, o, next)
    PROVE  \E n : GoodStep(w, n)
  <1> DEFINE c == sess[conn[w].at]
  <1>1. /\ TypeOK /\ conn[w].at \in Session /\ conn[w].phase # "in"
        /\ c \in Conn /\ SessionOK(c) /\ ~Closed(c) /\ c.st \in {"live", "dead"}
    BY InGood
  <1>2. /\ o.c \in Conn /\ SessionOK(o.c) /\ Tight(o.c)
        /\ c.st = "live" => ~IsDisconnect(o.err, o.c)
    BY <1>1, RollbackContract, RollbackTrusted
  <1>3. IsDisconnect(o.err, o.c) => Justified(w)
    BY <1>1, <1>2 DEF Justified
  <1>4. ~IsDisconnect(o.err, o.c) => Trusted(o.c, next)
    BY DEF IsDisconnect, Trusted
  <1>5. HandleError(w, o, next)
    BY DEF RollbackRaises
  <1> QED
    BY <1>1, <1>2, <1>3, <1>4, <1>5, HandleErrorGood

LEMMA RollbackGood ==
    ASSUME GInv, NEW w \in Worker, RollbackUnit(w)
    PROVE  \E n : GoodStep(w, n)
  <1> DEFINE c == sess[conn[w].at]
  <1>1. conn[w].at # NoSession
    BY DEF RollbackUnit, InUse
  <1>2. /\ TypeOK /\ conn[w] \in ConnType /\ conn[w].at \in Session /\ conn[w].phase # "in"
        /\ c \in Conn /\ SessionOK(c) /\ ~Closed(c)
    BY <1>1, InGood
  <1> DEFINE n == Ended(w, "none")
  <1>3. n \in ConnType /\ n.at = conn[w].at /\ n.sa = "none"
    BY <1>2, EndedFields
  <1>4. ASSUME NEW o \in Rollback(c), RollbackRaises(w, o, n)
        PROVE  \E m : GoodStep(w, m)
    <2> HIDE DEF n
    <2> QED
      BY <1>1, <1>3, <1>4, RollbackErrorGood
  <1>5. ASSUME NEW m, m.at = conn[w].at, m.sa = "none", conn' = [conn EXCEPT ![w] = m],
               NEW d \in Conn, ~Closed(d), idle' = idle,
               sess' = [sess EXCEPT ![conn[w].at] = d]
        PROVE  GoodStep(w, m)
    <2>1. sess'[conn[w].at] = d /\ \A r \in Session \ {conn[w].at} : sess'[r] = sess[r]
      BY <1>2, <1>5 DEF TypeOK
    <2>2. Tight(d) /\ Trusted(d, m)
      BY <1>5 DEF Tight, Trusted, Closed
    <2> QED
      BY <1>1, <1>2, <1>5, <2>1, <2>2 DEF GoodStep
  <1>6. ASSUME NEW o \in Rollback(c), o.err = "ok", idle' = idle,
               sess' = [sess EXCEPT ![conn[w].at] = o.c], conn' = [conn EXCEPT ![w] = n]
        PROVE  \E m : GoodStep(w, m)
    <2>1. o.c \in Conn /\ ~Closed(o.c)
      BY <1>2, <1>6, RollbackContract, RollbackTrusted
    <2> HIDE DEF n
    <2> QED
      BY <1>3, <1>5, <1>6, <2>1
  <1>7. ASSUME conn' = [conn EXCEPT ![w].sa = "none"], sess' = sess, idle' = idle
        PROVE  \E m : GoodStep(w, m)
    <2> DEFINE m == [conn[w] EXCEPT !.sa = "none"]
    <2>1. conn' = [conn EXCEPT ![w] = m] /\ m.at = conn[w].at /\ m.sa = "none"
      BY <1>2, <1>7 DEF ConnType, TypeOK
    <2>2. sess' = [sess EXCEPT ![conn[w].at] = c]
      BY <1>2, <1>7 DEF TypeOK
    <2> HIDE DEF m
    <2> QED
      BY <1>2, <1>5, <1>7, <2>1, <2>2
  <1> QED
    BY <1>4, <1>6, <1>7 DEF RollbackUnit

\* The pool resets the session and takes it back.
LEMMA ResetGood ==
    ASSUME GInv, NEW w \in Worker, conn[w].at # NoSession, ResetAndCheckIn(w)
    PROVE  \E n : GoodStep(w, n)
  <1> DEFINE c == sess[conn[w].at]
  <1>1. PICK o \in Rollback(c) :
          \/ o.err = "ok" /\ CheckIn(w, o.c)
          \/ /\ \E k \in Close(o.c) : PutBack(conn[w].at, k.c)
             /\ conn' = [conn EXCEPT ![w] = Away]
    BY DEF ResetAndCheckIn
  <1>2. /\ TypeOK /\ conn[w].at \in Session /\ conn[w].phase # "in"
        /\ c \in Conn /\ SessionOK(c) /\ ~Closed(c)
        /\ c.auto => conn[w].isolated
    BY InGood
  <1>3. /\ o.c \in Conn /\ SessionOK(o.c) /\ o.c.auto = c.auto /\ Tight(o.c)
        /\ o.err = "ok" => ~Closed(o.c) /\ (o.c.st = "live" \/ Autocommit(o.c))
    BY <1>1, <1>2, RollbackContract, RollbackTrusted
  <1>4. CASE o.err = "ok" /\ CheckIn(w, o.c)
    BY <1>2, <1>3, <1>4, CheckInGood
  <1>5. CASE /\ \E k \in Close(o.c) : PutBack(conn[w].at, k.c)
             /\ conn' = [conn EXCEPT ![w] = Away]
    <2>1. /\ sess'[conn[w].at].st = "released" /\ Tight(sess'[conn[w].at])
          /\ \A r \in Session \ {conn[w].at} : sess'[r] = sess[r]
          /\ idle' \subseteq idle \cup {conn[w].at}
      BY <1>2, <1>3, <1>5, ClosedAndPutBack
    <2>2. Away.at = NoSession /\ Away.phase = "in"
      BY DEF Away
    <2>3. /\ \A r \in Session : sess'[r] = sess[r] \/ Tight(sess'[r])
          /\ sess'[conn[w].at].st # "dead"
      BY <2>1
    <2>4. GoodStep(w, Away)
      BY <1>2, <1>5, <2>1, <2>2, <2>3 DEF GoodStep
    <2> QED
      BY <2>4
  <1> QED
    BY <1>1, <1>4, <1>5

LEMMA CloseGood ==
    ASSUME GInv, NEW w \in Worker, CloseConnection(w) \/ Collected(w)
    PROVE  \E n : GoodStep(w, n)
  <1> DEFINE c == sess[conn[w].at]
  <1>1. CASE /\ conn[w].at = NoSession /\ conn[w].phase # "in"
             /\ conn' = [conn EXCEPT ![w] = Away] /\ UNCHANGED <<sess, idle>>
    <2>1. Away.at = NoSession /\ Away.phase = "in"
      BY DEF Away
    <2>2. GoodStep(w, Away)
      BY <1>1, <2>1 DEF GoodStep
    <2> QED
      BY <2>2
  <1>2. CASE conn[w].at # NoSession /\ ResetAndCheckIn(w)
    BY <1>2, ResetGood
  <1>3. ASSUME conn[w].at # NoSession
        PROVE  /\ TypeOK /\ conn[w] \in ConnType /\ conn[w].at \in Session
               /\ conn[w].phase # "in" /\ c \in Conn /\ SessionOK(c) /\ ~Closed(c)
               /\ c.auto => conn[w].isolated
    BY <1>3, InGood
  <1>4. ASSUME conn[w].at # NoSession, NEW o \in Rollback(c), o.err = "ok", CheckIn(w, o.c)
        PROVE  \E n : GoodStep(w, n)
    <2>1. /\ o.c \in Conn /\ SessionOK(o.c) /\ o.c.auto = c.auto
          /\ ~Closed(o.c) /\ (o.c.st = "live" \/ Autocommit(o.c))
      BY <1>3, <1>4, RollbackContract, RollbackTrusted
    <2> QED
      BY <1>3, <1>4, <2>1, CheckInGood
  <1>5. ASSUME conn[w].at # NoSession, NEW o \in Rollback(c),
               RollbackRaises(w, o, [Ended(w, "none") EXCEPT !.phase = "closing"])
        PROVE  \E n : GoodStep(w, n)
    <2> DEFINE next == [Ended(w, "none") EXCEPT !.phase = "closing"]
    <2>1. next \in ConnType /\ next.at = conn[w].at /\ next.sa = "none"
      BY <1>3, <1>5, EndedFields DEF ConnType
    <2>2. RollbackRaises(w, o, next)
      BY <1>5
    <2> HIDE DEF next
    <2> QED
      BY <1>5, <2>1, <2>2, RollbackErrorGood
  <1>6. CASE conn[w].at # NoSession /\ conn[w].sa = "inactive" /\ CheckIn(w, c)
    BY <1>3, <1>6, CheckInGood
  <1>7. CASE Collected(w)
    BY <1>2, <1>7 DEF Collected
  <1>8. CASE CloseConnection(w)
    BY <1>1, <1>2, <1>4, <1>5, <1>6, <1>8 DEF CloseConnection
  <1> QED
    BY <1>7, <1>8

\* A failure of the transport moves no session.
LEMMA TransportFailsGood ==
    ASSUME GInv, NEW s \in Session, TransportFails(s)
    PROVE  InGoodHands' /\ ReturnedAlive /\ TakenJustly
  <1>1. TypeOK /\ sess[s] \in Conn /\ sess[s].st = "live"
        /\ sess' = [sess EXCEPT ![s] = Lose(sess[s])] /\ UNCHANGED <<idle, conn>>
    BY DEF TransportFails, GInv, DInv, IInv, TypeOK
  <1>2. /\ Lose(sess[s]).closed = sess[s].closed /\ Lose(sess[s]).defunct = sess[s].defunct
        /\ Autocommit(Lose(sess[s])) = Autocommit(sess[s])
    BY <1>1 DEF Lose, Conn, Autocommit
  <1>3. ~Lose(sess[s]).closed
    BY <1>1, <1>2 DEF GInv, InGoodHands, Tight
  <1>4. sess'[s] = Lose(sess[s]) /\ \A r \in Session \ {s} : sess'[r] = sess[r]
    BY <1>1 DEF TypeOK
  <1>5. ASSUME NEW r \in Session PROVE Tight(sess'[r])
    <2>1. CASE r = s
      BY <1>3, <1>4, <2>1 DEF Tight
    <2>2. CASE r # s
      BY <1>4, <2>2 DEF GInv, InGoodHands
    <2> QED
      BY <2>1, <2>2
  <1>6. ASSUME NEW w \in Worker, conn[w].at # NoSession
        PROVE  Trusted(sess'[conn[w].at], conn[w])
    <2>1. Trusted(sess[conn[w].at], conn[w]) /\ conn[w].at \in Session
      BY <1>6, InGood DEF GInv, InGoodHands
    <2>2. CASE conn[w].at = s
      <3>1. Trusted(Lose(sess[s]), conn[w])
        BY <1>2, <2>1, <2>2 DEF Trusted, Closed
      <3> QED
        BY <1>4, <2>2, <3>1
    <2>3. CASE conn[w].at # s
      BY <1>4, <2>1, <2>3
    <2> QED
      BY <2>2, <2>3
  <1>7. InGoodHands'
    BY <1>1, <1>5, <1>6 DEF InGoodHands, Trusted, Tight
  <1>8. ReturnedAlive /\ TakenJustly
    BY <1>1 DEF ReturnedAlive, TakenJustly, GivenUp
  <1> QED
    BY <1>7, <1>8

LEMMA InitGInv == Init => GInv
  <1> SUFFICES ASSUME Init PROVE GInv
    OBVIOUS
  <1>1. DInv
    BY InitDInv
  <1>2. Away.at = NoSession /\ Tight(Absent)
    BY DEF Away, Tight, Absent, Fresh
  <1>3. InGoodHands
    BY <1>2 DEF Init, InGoodHands
  <1> QED
    BY <1>1, <1>3 DEF GInv

LEMMA NextGInv == GInv /\ [Next]_vars => GInv' /\ ReturnedAlive /\ TakenJustly
  <1> SUFFICES ASSUME GInv, [Next]_vars PROVE InGoodHands' /\ ReturnedAlive /\ TakenJustly
    BY NextDInv DEF GInv
  <1>1. IInv'
    BY NextIInv DEF GInv, DInv
  <1>2. CASE UNCHANGED vars
    <2>1. InGoodHands'
      BY <1>2 DEF vars, GInv, InGoodHands, Tight, Trusted
    <2>2. ReturnedAlive /\ TakenJustly
      BY <1>2 DEF vars, ReturnedAlive, TakenJustly, GivenUp
    <2> QED
      BY <2>1, <2>2
  <1>3. ASSUME NEW w \in Worker, Checkout(w) \/ Work(w) \/ CloseConnection(w) \/ Collected(w)
        PROVE  \E n : GoodStep(w, n)
    <2>1. CASE Checkout(w)
      BY <2>1, CheckoutGood
    <2>2. CASE Work(w)
      BY <2>2, RequestAutocommitGood, ExecuteGood, IngestGood, StartTransactionGood,
         CommitGood, RollbackGood DEF Work
    <2>3. CASE CloseConnection(w) \/ Collected(w)
      BY <2>3, CloseGood
    <2> QED
      BY <1>3, <2>1, <2>2, <2>3
  <1>4. ASSUME NEW w \in Worker, Checkout(w) \/ Work(w) \/ CloseConnection(w) \/ Collected(w)
        PROVE  InGoodHands' /\ ReturnedAlive /\ TakenJustly
    <2>1. PICK n : GoodStep(w, n)
      BY <1>3, <1>4
    <2> QED
      BY <1>1, <2>1, GoodStepKeeps
  <1>5. ASSUME NEW s \in Session, TransportFails(s)
        PROVE  InGoodHands' /\ ReturnedAlive /\ TakenJustly
    BY <1>5, TransportFailsGood
  <1> QED
    BY <1>2, <1>4, <1>5 DEF Next

LEMMA GoodInvariance == Spec => []GInv
  BY InitGInv, NextGInv, PTL DEF Spec

\* A session that its last user found dead does not wait in the queue, unless it
\* died after its commit failed; and pre-ping hands out no session that is dead,
\* holds work or is in autocommit mode.
THEOREM NoDeadReturned == Spec => DeadNotPooled
  <1>1. GInv /\ [Next]_vars =>
          [/\ \A s \in idle' \ idle : sess'[s].st = "dead" =>
                 \E w \in Worker : conn[w].at = s /\ conn[w].sa = "inactive"
           /\ \A w \in Worker : PrePing /\ conn[w].phase = "in" /\ conn'[w].phase = "out" =>
                 LET c == sess'[conn'[w].at]
                 IN c.st = "live" /\ c.work = {} /\ ~c.auto /\ c.txn # "poisoned"]_vars
    BY NextGInv DEF ReturnedAlive, Fit
  <1> QED
    BY <1>1, GoodInvariance, PTL DEF Spec, DeadNotPooled

\* A worker's session is taken from it only if it was dead, was poisoned, or was
\* lost during a commit() whose outcome is reported as unknown.
THEOREM TakenForAReason == Spec => InvalidationJustified
  <1>1. GInv /\ [Next]_vars =>
          [\A w \in Worker : GivenUp(w) =>
              \/ sess[conn[w].at].st = "dead"
              \/ sess[conn[w].at].txn = "poisoned"
              \/ \E u \in Unit : verdict'[u] = "unknown" /\ verdict[u] # "unknown"]_vars
    BY NextGInv DEF TakenJustly, Justified
  <1> QED
    BY <1>1, GoodInvariance, PTL DEF Spec, InvalidationJustified
=============================================================================

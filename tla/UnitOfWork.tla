----------------------------- MODULE UnitOfWork -----------------------------
(***************************************************************************)
(* What an application may rely on, without sessions, pools or wrappers:   *)
(* the verdict it was given on each unit of work, the units it wrote in,   *)
(* and the units that are durable in the database.  SessionPool is shown   *)
(* to implement it.                                                        *)
(***************************************************************************)
CONSTANT Unit
VARIABLES verdict, \* what the application was told about each unit
          wrote,   \* the units with a write that succeeded
          db       \* the units whose writes are durable

vars == <<verdict, wrote, db>>

\* unknown: the transport failed during commit(); unsettled: rollback()
\* itself was refused, so the application was told that nothing is certain.
Verdict == {"unused", "running", "committed", "rolledback", "failed",
            "unknown", "unsettled"}

Init == /\ verdict = [u \in Unit |-> "unused"]
        /\ wrote = {} /\ db = {}

\* The writes of a unit of an earlier transaction may have been left behind.
Undecided == {u \in Unit : verdict[u] = "unsettled"}

Begin(u) == /\ verdict[u] = "unused"
            /\ verdict' = [verdict EXCEPT ![u] = "running"]
            /\ wrote' \in {wrote, wrote \cup {u}}
            /\ UNCHANGED db

Write(u) == /\ verdict[u] = "running"
            /\ wrote' = wrote \cup {u}
            /\ UNCHANGED <<verdict, db>>

\* Commit reports success: what the unit wrote is durable.
Commit(u) == /\ verdict[u] = "running"
             /\ verdict' = [verdict EXCEPT ![u] = "committed"]
             /\ \E s \in SUBSET (Undecided \cup {u}) :
                    /\ u \in wrote => u \in s
                    /\ db' = db \cup s
             /\ UNCHANGED wrote

\* The answer to a commit is lost.
CommitLost(u) == /\ verdict[u] = "running"
                 /\ verdict' = [verdict EXCEPT ![u] = "unknown"]
                 /\ \E s \in SUBSET (Undecided \cup {u}) : db' = db \cup s
                 /\ UNCHANGED wrote

\* The unit is undone: no part of it becomes durable, now or later.
Undo(u, v) == /\ verdict[u] = "running"
              /\ v \in {"rolledback", "failed", "unsettled"}
              /\ verdict' = [verdict EXCEPT ![u] = v]
              /\ UNCHANGED <<wrote, db>>

\* A unit nothing is certain about turns out to be durable.
Surface == /\ \E s \in SUBSET Undecided : db' = db \cup s
           /\ UNCHANGED <<verdict, wrote>>

Next == \/ \E u \in Unit : Begin(u) \/ Write(u) \/ Commit(u) \/ CommitLost(u)
        \/ \E u \in Unit, v \in Verdict : Undo(u, v)
        \/ Surface

Spec == Init /\ [][Next]_vars
=============================================================================

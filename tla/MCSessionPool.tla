--------------------------- MODULE MCSessionPool ---------------------------
(* Small instances of SessionPool. *)
EXTENDS SessionPool, TLC

\* Workers are interchangeable, and so are units; slots are too.
Symmetry == Permutations(Worker) \cup Permutations(Session) \cup Permutations(Unit)
=============================================================================

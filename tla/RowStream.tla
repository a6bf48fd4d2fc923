------------------------------ MODULE RowStream ------------------------------
(***************************************************************************)
(* What the fetch methods promise, without batches, buffers or readers:    *)
(* the rows of the statement executed last, in order, each one once, and   *)
(* none missing unless the application has seen an exception.  After one   *)
(* that execute() raised, what a fetch finds may be the rest of the result *)
(* before it: no row twice even then.                                      *)
(***************************************************************************)
EXTENDS Naturals, Sequences

VARIABLES statement, \* number of the statement executed last
          query,  \* number of the statement that the rows are of
          total,  \* rows of its result
          got,    \* those delivered to the application
          ended,  \* the application was told that there are no more
          failed  \* a call on this result has raised an exception

vars == <<statement, query, total, got, ended, failed>>

Init == /\ statement = 0 /\ query = 0 /\ total = 0
        /\ got = <<>> /\ ended = FALSE /\ failed = FALSE

Row(i) == <<query, i>>

Last == IF got = <<>> THEN 0 ELSE got[Len(got)][2]

\* Only an exception discards rows: after one, rows may have been skipped.
InOrder(rows) ==
    \A j \in 1..Len(rows) :
        LET before == IF j = 1 THEN Last ELSE rows[j - 1][2]
        IN /\ rows[j] \in {Row(i) : i \in 1..total}
           /\ rows[j][2] > before
           /\ ~failed => rows[j] = Row(before + 1)

Execute == /\ statement' = statement + 1 /\ ended' = FALSE
           /\ \/ query' = statement' /\ total' \in Nat /\ got' = <<>> /\ failed' \in BOOLEAN
              \/ failed' = TRUE /\ UNCHANGED <<query, total, got>>

Extends(old, new) == Len(new) >= Len(old) /\ SubSeq(new, 1, Len(old)) = old

\* An answer: more rows, or the end, or both.
Deliver == /\ Extends(got, got')
           /\ InOrder(SubSeq(got', Len(got) + 1, Len(got')))
           /\ ended' => failed \/ Len(got') = total
           /\ UNCHANGED <<statement, query, total, failed>>

Raise == failed' = TRUE /\ UNCHANGED <<statement, query, total, got, ended>>

Next == Execute \/ Deliver \/ Raise

Spec == Init /\ [][Next]_vars
=============================================================================

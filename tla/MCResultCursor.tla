--------------------------- MODULE MCResultCursor ---------------------------
(* Small instances of ResultCursor. *)
EXTENDS ResultCursor
=============================================================================

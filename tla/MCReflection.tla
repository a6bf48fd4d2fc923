---------------------------- MODULE MCReflection ----------------------------
(* Small instances of KeyReflection and SequenceReflection.  The keys and   *)
(* indexes of a database and its sequences have no state in common, so that *)
(* one behaviour moves the ones or the others.                              *)
(*                                                                          *)
(* Two tables of one name, in the current schema and in another, and a      *)
(* second one in the current schema, where the names of indexes can meet;   *)
(* sequences of one name in two schemas.                                    *)
EXTENDS KeyReflection, SequenceReflection, TLC

CONSTANTS a, b

MCTable == {[schema |-> "app", name |-> "t"], [schema |-> "other", name |-> "t"],
            [schema |-> "app", name |-> "u"]}
MCColumns == {<<a>>, <<a, b>>, <<b, a>>}

Symmetry == Permutations(TableColumn) \cup Permutations(SequenceName)

MCInit == Init /\ SequenceInit

MCNext == \/ Next /\ SequenceInit /\ UNCHANGED sequenceVars
          \/ SequenceNext /\ Init /\ UNCHANGED vars

MCSpec == MCInit /\ [][MCNext]_<<vars, sequenceVars>>
=============================================================================

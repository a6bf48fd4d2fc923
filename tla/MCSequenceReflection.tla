------------------------ MODULE MCSequenceReflection ------------------------
(* Small instances of SequenceReflection. *)
EXTENDS SequenceReflection, TLC

Symmetry == Permutations(TableColumn) \cup Permutations(SequenceName)
=============================================================================

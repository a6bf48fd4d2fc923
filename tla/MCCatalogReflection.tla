------------------------ MODULE MCCatalogReflection ------------------------
(* Small instances of CatalogReflection. *)
EXTENDS CatalogReflection, TLC

\* Tables or views only, what MetaData.reflect() asks for, temporary tables.
MCChoice == {<<{"DEFAULT"}, {"TABLE"}>>, <<{"DEFAULT"}, {"VIEW"}>>,
             <<{"DEFAULT", "TEMPORARY"}, {"TABLE", "VIEW"}>>, <<{"TEMPORARY"}, {"TABLE"}>>}

Symmetry == Permutations(Name)
=============================================================================

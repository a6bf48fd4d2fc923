---------------------------- MODULE MCForeignKeys ----------------------------
EXTENDS ForeignKeys, TLC

\* Every way to declare the foreign keys.
AllShapes == [from : Table, to : Table, useAlter : BOOLEAN]

OneChoice == {[ondelete |-> "CASCADE", onupdate |-> "SET NULL"]}

\* Both bytes of the action column, with an action, without one, and with those
\* that autogenerate has to normalise: two choices differ in nothing else.
ThreeChoices == {[ondelete |-> None, onupdate |-> "SET DEFAULT"],
                 [ondelete |-> "CASCADE", onupdate |-> "NO ACTION"],
                 [ondelete |-> "CASCADE", onupdate |-> None]}

Symmetry == Permutations(Table) \cup Permutations(ForeignKey)
=============================================================================

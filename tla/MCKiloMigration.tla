-------------------------- MODULE MCKiloMigration --------------------------
(* Instances of KiloMigration for TLC. *)
EXTENDS KiloMigration, TLC

\* Ids and values are interchangeable.
Symmetry == Permutations(Id) \cup Permutations(Value)
=============================================================================

------------------------------ MODULE MCLinks ------------------------------
(* Instances of Links for TLC.  Ids are interchangeable. *)
EXTENDS Links, TLC

IdSymmetry == Permutations(Id)
=============================================================================

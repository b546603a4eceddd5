--------------------------- MODULE MCFrozenPrompt ---------------------------
(* Instances of FrozenPrompt for TLC. *)
EXTENDS FrozenPrompt, TLC

\* Requests are interchangeable.
Symmetry == Permutations(Call)
=============================================================================

----------------------------- MODULE MCRecall ------------------------------
(* Instances of Recall for TLC. *)
EXTENDS Recall, TLC

MCUserIds == {CHOOSE i \in Id : TRUE}

\* Requests are interchangeable, and so are bodies.
Symmetry == Permutations(Request) \cup Permutations(Text)
=============================================================================

--------------------------- MODULE MCMemoryStore ---------------------------
(***************************************************************************)
(* Instances of MemoryStore for TLC.  Pages are enumerated kind by kind,   *)
(* in the order of their ids within a directory, and flat leftovers last   *)
(* (enumeratePages).                                                       *)
(***************************************************************************)
EXTENDS MemoryStore, TLC

MCId   == {1, 2}
MCId1  == {1}
MCName1 == {1, 3}   \* 3 is made for no entry
MCKind == {"k1", "k2"}
MCFlat == "flat"

DirOrder == [k1 |-> 0, k2 |-> 1, flat |-> 2]

MCPageOrder == [p \in Path |-> DirOrder[p[1]] * 3 + p[2]]

\* Bodies are interchangeable.
TextSymmetry == Permutations(Text)
=============================================================================

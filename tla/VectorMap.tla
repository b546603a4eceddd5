----------------------------- MODULE VectorMap ------------------------------
(***************************************************************************)
(* What the vector index promises its users, the embedding queue and the   *)
(* vector leg: a map from entries to the vectors of one text, by one       *)
(* model, with one copy of the metadata.  An entry is replaced, removed or *)
(* forgotten with all others, but never held in part.  VectorIndex         *)
(* implements it (interface VectorIndex, src/core/domain/types.ts).        *)
(***************************************************************************)
CONSTANTS
    Entry,   \* entries
    Model,   \* embedding models
    Value,   \* what is stored of an entry: its text and the copy of its metadata
    None     \* nothing is stored

VARIABLE map \* Entry -> what is stored

MapInit == map = [e \in Entry |-> None]

Put(e) ==
    \E m \in Model, v \in Value : map' = [map EXCEPT ![e] = [model |-> m, value |-> v]]

Remove(e) == map' = [map EXCEPT ![e] = None]

Clear == map' = [e \in Entry |-> None]

MapNext == Clear \/ \E e \in Entry : Put(e) \/ Remove(e)

MapSpec == MapInit /\ [][MapNext]_map

=============================================================================

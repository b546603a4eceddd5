--------------------------- MODULE MCVectorIndex ----------------------------
\* VectorIndex for TLC: a short and a long text, two models, one of them in two
\* precisions.
EXTENDS VectorIndex, TLC

CONSTANTS e1, short, long, m1, m2, float1, int1, float2

ChunksMC == short :> 1 @@ long :> 2
ModelMC  == float1 :> m1 @@ int1 :> m1 @@ float2 :> m2

=============================================================================

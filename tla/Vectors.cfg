SPECIFICATION Spec
CONSTANTS
    e1 = e1  short = short  long = long  m1 = m1  m2 = m2
    float1 = float1  int1 = int1  float2 = float2
    Entry = {e1}
    Text = {short, long}
    Meta = {0, 1}
    Chunks <- ChunksMC
    Model = {m1, m2}
    Space = {float1, int1, float2}
    ModelOf <- ModelMC
    None = None
INVARIANT MirrorFollows
PROPERTY CacheIsMap

---------------------------- MODULE VectorIndex -----------------------------
(***************************************************************************)
(* The vector index of a store (src/core/infrastructure/vector-index.ts)   *)
(* as the embedding queue and the vector leg use it.                       *)
(*                                                                         *)
(* memory_vectors, the cache, holds the vectors of every chunk; with the   *)
(* sqlite-vec backend memory_vec, the derived table, mirrors the rows of   *)
(* one model, and a marker in memory_vec_meta says of which model and      *)
(* precision.  Cache, table and marker are written one after the other, so *)
(* an exception or a crash may leave them apart; a leg that was closed may *)
(* still write the batch it was embedding.                                 *)
(***************************************************************************)
EXTENDS Naturals

CONSTANTS
    Entry,      \* entries
    Text,       \* texts of entries
    Meta,       \* values of the copied metadata (scope, project, kind, tier, status)
    Chunks,     \* Text -> number of chunks it is split into
    Model,      \* embedding models, all of one dimension
    Space,      \* what a marker can say: model, dimension and precision
    ModelOf,    \* Space -> Model
    None        \* no row, no marker, no leg

ASSUME IndexAssumption ==
    /\ Text # {} /\ Chunks \in [Text -> Nat \ {0}]
    /\ ModelOf \in [Space -> Model]
    /\ None \notin Space /\ None \notin Model
    /\ None \notin [model : Model, value : [text : Text, meta : Meta]]
    /\ None \notin [space : Space, backend : {"js", "vec"}]

Value == [text : Text, meta : Meta]
Row   == [model : Model, value : Value]
Index == UNION {0..(Chunks[t] - 1) : t \in Text}
Chunk == Entry \X Index
Leg   == [space : Space, backend : {"js", "vec"}]
Step  == {"idle", "uncache", "untable", "cache", "mirror", "wipe", "drop", "unmark",
          "create", "mark", "fill"}

VARIABLES
    cache,    \* Chunk -> row of memory_vectors
    table,    \* Chunk -> row of memory_vec
    hasTable, \* memory_vec exists
    marker,   \* the space memory_vec was made for
    leg,      \* the open leg's index
    late,     \* the index of a closed leg whose last batch is still being embedded
    call,     \* the call in progress: who calls, what, with which arguments
    pc,       \* its next statement
    clean     \* history: since the table was last filled, all that changed the cache
              \* also changed the table

vars == <<cache, table, hasTable, marker, leg, late, call, pc, clean>>

Empty == [c \in Chunk |-> None]
NoCall == [by |-> None, op |-> "none", entry |-> None, row |-> None]

TypeOK ==
    /\ cache \in [Chunk -> Row \cup {None}]
    /\ table \in [Chunk -> Row \cup {None}]
    /\ hasTable \in BOOLEAN
    /\ marker \in Space \cup {None}
    /\ leg \in Leg \cup {None} /\ late \in Leg \cup {None}
    /\ call \in [by : Leg \cup {None}, op : {"none", "open", "embed", "drop", "refresh",
                 "clear", "rebuild", "ensure"}, entry : Entry \cup {None}, row : Row \cup {None}]
    /\ pc \in Step
    /\ clean \in BOOLEAN

-----------------------------------------------------------------------------
(* The calls.  Each names the first of its statements; an index of the js  *)
(* backend has no table and runs those of the cache only.                  *)

Idle == pc = "idle"

Begin(l, op, e, r, s) ==
    /\ Idle
    /\ pc' = s
    /\ call' = IF s = "idle" THEN NoCall ELSE [by |-> l, op |-> op, entry |-> e, row |-> r]

\* createVectorIndex; the backend is js when it is configured so or when the
\* extension cannot be loaded.  ensureTable has nothing to do when the marker says
\* that the table is ours.
Open(s, b) ==
    /\ leg = None
    /\ leg' = [space |-> s, backend |-> b]
    /\ Begin(leg', "open", None, None, IF b = "js" \/ marker = s THEN "idle" ELSE "drop")
    /\ UNCHANGED <<cache, table, hasTable, marker, late, clean>>

\* VectorLeg.close: a batch that is being embedded finishes on its own.
Close ==
    /\ Idle /\ leg # None
    /\ leg' = None
    /\ late' \in {None, leg}
    /\ UNCHANGED <<cache, table, hasTable, marker, call, pc, clean>>

\* The batch of a closed leg is written entry by entry: each of its calls may be
\* the last.
Uses(l) ==
    /\ l # None
    /\ \/ l = leg /\ UNCHANGED late
       \/ l = late /\ late' \in {late, None}

\* The row of each chunk of a text, as leg l's model embeds it.
NewRow(l, t, x) == [model |-> ModelOf[l.space], value |-> [text |-> t, meta |-> x]]

\* Mutant of Embed: the rows of the old text are not removed first.
EmbedOver(l, e, t, x) ==
    /\ Uses(l)
    /\ Begin(l, "embed", e, NewRow(l, t, x), "cache")
    /\ UNCHANGED <<cache, table, hasTable, marker, leg, clean>>

\* embedEntries: the rows of an entry are removed, then those of its text written.
Embed(l, e, t, x) ==
    /\ Uses(l)
    /\ Begin(l, "embed", e, NewRow(l, t, x), "uncache")
    /\ UNCHANGED <<cache, table, hasTable, marker, leg, clean>>

\* An entry that is gone (the queue), or whose rows are damaged, orphaned or of
\* another model (repair).
Drop(l, e) ==
    /\ Uses(l)
    /\ Begin(l, "drop", e, None, "uncache")
    /\ UNCHANGED <<cache, table, hasTable, marker, leg, clean>>

\* refreshMetadata and repair: the rows of this model are written again with the
\* entry's metadata.
Refresh(l, e, x) ==
    /\ Uses(l)
    /\ cache[<<e, 0>>] # None
    /\ cache[<<e, 0>>].model = ModelOf[l.space]
    /\ cache[<<e, 0>>].value.meta # x
    /\ Begin(l, "refresh", e, NewRow(l, cache[<<e, 0>>].value.text, x), "cache")
    /\ UNCHANGED <<cache, table, hasTable, marker, leg, clean>>

\* VectorLeg.rebuild: clear(), after which the queue embeds every entry again.
Clear ==
    /\ leg # None
    /\ Begin(leg, "clear", None, None, "wipe")
    /\ UNCHANGED <<cache, table, hasTable, marker, leg, late, clean>>

\* VectorLeg.rebuildAnnIndex.
Rebuild ==
    /\ leg # None /\ leg.backend = "vec"
    /\ Begin(leg, "rebuild", None, None, "drop")
    /\ UNCHANGED <<cache, table, hasTable, marker, leg, late, clean>>

-----------------------------------------------------------------------------
(* The statements.  Each runs in a transaction of its own.                 *)

Run(s, next) ==
    /\ pc = s /\ pc' = next
    /\ call' = IF next = "idle" THEN NoCall ELSE call
    /\ UNCHANGED <<leg, late>>

Mirrored == call.by.backend = "vec"

\* The table keeps up with a change of the cache when the caller mirrors it there.
Mirrors == Mirrored /\ call.by.space = marker

\* The rows of one entry, whatever model they are of.
Without(f) == [c \in Chunk |-> IF c[1] = call.entry THEN None ELSE f[c]]

\* The rows of one entry written over f.
With(f) ==
    [c \in Chunk |->
        IF c[1] = call.entry /\ c[2] < Chunks[call.row.value.text] THEN call.row ELSE f[c]]

\* What the table of space s has to hold.
Mirror(s) ==
    [c \in Chunk |-> IF cache[c] # None /\ cache[c].model = ModelOf[s] THEN cache[c] ELSE None]

Uncache ==
    /\ Run("uncache", IF Mirrored THEN "untable" ELSE IF call.op = "embed" THEN "cache" ELSE "idle")
    /\ cache' = Without(cache)
    /\ clean' = (clean /\ Mirrors)
    /\ UNCHANGED <<table, hasTable, marker>>

\* Mutant of Untable: the table keeps the rows.
UntableNot ==
    /\ Run("untable", IF call.op = "embed" THEN "cache" ELSE "idle") /\ hasTable
    /\ UNCHANGED <<cache, table, hasTable, marker, clean>>

Untable ==
    /\ Run("untable", IF call.op = "embed" THEN "cache" ELSE "idle") /\ hasTable
    /\ table' = Without(table)
    /\ UNCHANGED <<cache, hasTable, marker, clean>>

CacheRows ==
    /\ Run("cache", IF Mirrored THEN "mirror" ELSE "idle")
    /\ cache' = With(cache)
    /\ clean' = (clean /\ Mirrors)
    /\ UNCHANGED <<table, hasTable, marker>>

MirrorRows ==
    /\ Run("mirror", "idle") /\ hasTable
    /\ table' = With(table)
    /\ UNCHANGED <<cache, hasTable, marker, clean>>

Wipe ==
    /\ Run("wipe", IF Mirrored THEN "drop" ELSE "idle")
    /\ cache' = Empty
    /\ clean' = FALSE
    /\ UNCHANGED <<table, hasTable, marker>>

DropTable ==
    /\ Run("drop", IF call.op \in {"open", "ensure"} THEN "create" ELSE "unmark")
    /\ hasTable' = FALSE /\ table' = Empty
    /\ clean' = FALSE
    /\ UNCHANGED <<cache, marker>>

Unmark ==
    /\ Run("unmark", "create")
    /\ marker' = None
    /\ UNCHANGED <<cache, table, hasTable, clean>>

CreateTable ==
    /\ Run("create", "mark")
    /\ hasTable' = TRUE /\ table' = Empty
    /\ UNCHANGED <<cache, marker, clean>>

Mark ==
    /\ Run("mark", "fill")
    /\ marker' = call.by.space
    /\ UNCHANGED <<cache, table, hasTable, clean>>

Fill ==
    /\ Run("fill", "idle")
    /\ table' = Mirror(call.by.space)
    /\ clean' = TRUE
    /\ UNCHANGED <<cache, hasTable, marker>>

-----------------------------------------------------------------------------
(* Failures                                                                *)

\* A statement throws (as untable and mirror do when an earlier call left no table)
\* and the rest of the call does not run, nor does the rest of a closed leg's batch.
\* createVectorIndex falls back to the js index.
Abort ==
    /\ leg' = IF call.op = "open" THEN [space |-> call.by.space, backend |-> "js"] ELSE leg
    /\ pc' = "idle" /\ call' = NoCall
    /\ clean' = FALSE
    /\ late' = IF call.by = leg THEN late ELSE None
    /\ UNCHANGED <<cache, table, hasTable, marker>>

Throw == ~Idle /\ Abort

\* rebuildAnn swallows a failure to clear the table and goes on with ensureTable,
\* which does nothing while the marker is there.
ClearFails ==
    /\ call.op = "rebuild" /\ pc \in {"drop", "unmark"}
    /\ pc' = IF marker = call.by.space THEN "idle" ELSE "drop"
    /\ call' = IF pc' = "idle" THEN NoCall
                ELSE [by |-> call.by, op |-> "ensure", entry |-> None, row |-> None]
    /\ clean' = FALSE
    /\ UNCHANGED <<cache, table, hasTable, marker, leg, late>>

Crash ==
    /\ leg # None
    /\ leg' = None /\ late' = None
    /\ call' = NoCall /\ pc' = "idle"
    /\ clean' = (clean /\ Idle)
    /\ UNCHANGED <<cache, table, hasTable, marker>>

Init ==
    /\ cache = Empty /\ table = Empty /\ hasTable = FALSE /\ marker = None
    /\ leg = None /\ late = None /\ call = NoCall /\ pc = "idle"
    /\ clean = FALSE

Next ==
    \/ \E s \in Space, b \in {"js", "vec"} : Open(s, b)
    \/ Close
    \/ \E l \in {leg, late}, e \in Entry :
           \/ \E t \in Text, x \in Meta : Embed(l, e, t, x)
           \/ Drop(l, e)
           \/ \E x \in Meta : Refresh(l, e, x)
    \/ Clear \/ Rebuild
    \/ Uncache \/ Untable \/ CacheRows \/ MirrorRows
    \/ Wipe \/ DropTable \/ Unmark \/ CreateTable \/ Mark \/ Fill
    \/ Throw \/ ClearFails \/ Crash

Spec == Init /\ [][Next]_vars

-----------------------------------------------------------------------------
(* Properties                                                              *)

\* A search of sqlite-vec answers from the table: as long as every writer since the
\* table was filled mirrored its writes and none was cut off, it holds exactly the
\* cached rows of the model it was made for, whatever legs, models and precisions
\* came and went, and rebuilding it makes that true again after any fault.
\* (ensureTable, write, remove, clear, rebuildAnn; search does not look at the model.)
MirrorFollows ==
    (Idle /\ clean /\ marker # None) => hasTable /\ table = Mirror(marker)

\* All chunks of entry e are of row r, and no chunk is missing.
Holds(e, r) ==
    \A i \in Index : cache[<<e, i>>] = (IF i < Chunks[r.value.text] THEN r ELSE None)

\* What is stored of an entry: nothing, one row, or a mixture no map holds.
Stored ==
    [e \in Entry |->
        IF \A i \in Index : cache[<<e, i>>] = None THEN None
        ELSE IF \E r \in Row : Holds(e, r) THEN CHOOSE r \in Row : Holds(e, r)
        ELSE [model |-> None, value |-> None]]

Map == INSTANCE VectorMap WITH map <- Stored

\* The cache implements VectorMap: the vectors of an entry are replaced or removed as
\* a whole, in spite of crashes, exceptions and late batches; chunks of two texts, two
\* models or two copies of the metadata never stand side by side.
\* (VectorCache.upsert, remove and clear; embedEntries and refreshMetadata.)
CacheIsMap == Map!MapSpec

=============================================================================

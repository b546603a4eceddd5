--------------------------- MODULE KiloMigration ----------------------------
(***************************************************************************)
(* The migration of a database the old Kilo plugin has made                *)
(* (src/adapters/kilo/migrate.ts, src/core/infrastructure/schema.ts), the  *)
(* store that opens and writes it (src/core/infrastructure/store.ts), and  *)
(* the old plugin, which may still be running.                             *)
(*                                                                         *)
(* The core has names of its own for some columns; the migration adds them *)
(* and copies the values once.  Every statement commits by itself: the     *)
(* script may die, or a statement throw, between any two, and is then      *)
(* started again.                                                          *)
(***************************************************************************)
EXTENDS Naturals

CONSTANTS
    Id,        \* ids of entries
    Column,    \* columns the core has under another name than Kilo
    Mirrored,  \* those of them the core also writes under Kilo's name
    Value,     \* their values
    Blank,     \* the default of an added column, and an empty Kilo value
    None,      \* no row
    MaxWrites, \* bound on the writes of core and plugin
    MaxStops   \* bound on migrations that stop halfway

Cells == [Column -> Value \cup {Blank}]
Row   == [kilo : Cells, core : Cells]
Empty == [c \in Column |-> Blank]

ASSUME MigrationAssumption ==
    /\ Mirrored \subseteq Column
    /\ Blank \notin Value
    /\ None \notin Row /\ None \notin Cells
    /\ MaxWrites \in Nat /\ MaxStops \in Nat

VARIABLES
    rows,     \* Id -> row: the cells under Kilo's names and under the core's
    columns,  \* the columns of the core that exist
    extended, \* the columns only the core has exist (schema v2)
    part,     \* the part of the migration that runs
    todo,     \* the columns this part has still to do
    migrated, \* a migration has reached its end
    store,    \* the core's handle: closed, open, used, or broken (its opening threw)
    said,     \* Id -> cells the core wrote last (history)
    apart,    \* ids the last whole migration had no chance to carry over (history)
    recent,   \* ids the one under way has no chance to carry over (history)
    writes, stops

vars == <<rows, columns, extended, part, todo, migrated, store, said, apart, recent, writes, stops>>
table  == <<rows, said>>
script == <<columns, extended, part, todo, migrated, stops>>

TypeOK ==
    /\ rows \in [Id -> Row \cup {None}]
    /\ columns \subseteq Column
    /\ extended \in BOOLEAN
    /\ part \in {"idle", "add", "fill", "extend", "finish"}
    /\ todo \subseteq Column
    /\ migrated \in BOOLEAN
    /\ store \in {"closed", "open", "used", "broken"}
    /\ said \in [Id -> Cells \cup {None}]
    /\ apart \subseteq Id /\ recent \subseteq Id
    /\ writes \in 0..MaxWrites /\ stops \in 0..MaxStops

-----------------------------------------------------------------------------
(* migrateKiloStore                                                        *)

\* On to the next part once the columns of this one are done.
Goes(this, left, next, all) ==
    IF left = {} THEN part' = next /\ todo' = all ELSE part' = this /\ todo' = left

\* Rows whose cells hold something else already: the migration leaves them alone.
Taken == {i \in Id : rows[i] # None /\
              \E c \in Column : rows[i].core[c] \notin {Blank, rows[i].kilo[c]}}

\* Mutant of Migrate: values are copied only when a column is added.
MigrateAdded ==
    /\ part = "idle"
    /\ IF Column \subseteq columns THEN part' = "extend" /\ todo' = {}
       ELSE Goes("add", Column \ columns, "fill", Column)
    /\ recent' = Taken
    /\ UNCHANGED <<table, columns, extended, migrated, store, apart, writes, stops>>

\* Looks which columns are missing.
Migrate ==
    /\ part = "idle"
    /\ Goes("add", Column \ columns, "fill", Column)
    /\ recent' = Taken
    /\ UNCHANGED <<table, columns, extended, migrated, store, apart, writes, stops>>

\* ALTER TABLE ... ADD COLUMN ... DEFAULT.
AddColumn(c) ==
    /\ part = "add" /\ c \in todo
    /\ columns' = columns \cup {c}
    /\ Goes("add", todo \ {c}, "fill", Column)
    /\ UNCHANGED <<table, extended, migrated, store, apart, recent, writes, stops>>

\* Mutant of Backfill: Kilo's values replace those of the core.
BackfillAll(c) ==
    /\ part = "fill" /\ c \in todo
    /\ rows' = [i \in Id |->
                  IF rows[i] # None /\ rows[i].kilo[c] # Blank
                  THEN [rows[i] EXCEPT !.core[c] = rows[i].kilo[c]]
                  ELSE rows[i]]
    /\ Goes("fill", todo \ {c}, "extend", {})
    /\ UNCHANGED <<said, columns, extended, migrated, store, apart, recent, writes, stops>>

\* UPDATE ... SET <core's name> = <Kilo's name> where the one is blank.
Backfill(c) ==
    /\ part = "fill" /\ c \in todo
    /\ rows' = [i \in Id |->
                  IF rows[i] # None /\ rows[i].core[c] = Blank
                  THEN [rows[i] EXCEPT !.core[c] = rows[i].kilo[c]]
                  ELSE rows[i]]
    /\ Goes("fill", todo \ {c}, "extend", {})
    /\ UNCHANGED <<said, columns, extended, migrated, store, apart, recent, writes, stops>>

\* ensureSchemaV2: the columns in one transaction.
Extend ==
    /\ part = "extend"
    /\ extended' = TRUE
    /\ part' = "finish"
    /\ UNCHANGED <<table, columns, todo, migrated, store, apart, recent, writes, stops>>

\* Indexes, revisions table and report.
Finish ==
    /\ part = "finish"
    /\ migrated' = TRUE
    /\ part' = "idle"
    /\ apart' = recent
    /\ UNCHANGED <<table, columns, extended, todo, store, recent, writes, stops>>

\* A statement throws (the database is busy), or the process dies.
Stop ==
    /\ part # "idle"
    /\ stops < MaxStops /\ stops' = stops + 1
    /\ part' = "idle" /\ todo' = {}
    /\ UNCHANGED <<table, columns, extended, migrated, store, apart, recent, writes>>

-----------------------------------------------------------------------------
(* The store                                                               *)

\* ensureSchema throws at the index on a column that is missing, with the handle
\* already kept; the columns it would add come after that.
Open ==
    /\ store = "closed"
    /\ store' = IF extended THEN "open" ELSE "broken"
    /\ UNCHANGED <<table, script, apart, recent, writes>>

Close ==
    /\ store # "closed" /\ store' = "closed"
    /\ UNCHANGED <<table, script, apart, recent, writes>>

\* The first use reads the pages if the table is empty, or if a flat page was moved
\* and no row has a fingerprint: the table is then made anew, and keeps nothing a
\* page does not say.  Pages say what they like.
Rebuild ==
    /\ \A i \in Id : said[i] = None
    /\ said' \in [Id -> Cells \cup {None}]
    /\ rows' = [i \in Id |->
                  IF said'[i] = None THEN None
                  ELSE [core |-> said'[i],
                        kilo |-> [c \in Column |-> IF c \in Mirrored THEN said'[i][c] ELSE Blank]]]

\* ensureReady.  The incremental pass over rows with fingerprints is in MemoryStore.
FirstUse ==
    /\ store = "open" /\ store' = "used"
    /\ \/ Rebuild
       \/ (\E i \in Id : rows[i] # None) /\ UNCHANGED table
    /\ UNCHANGED <<script, apart, recent, writes>>

\* writeRow, with Kilo's names beside the core's own.  On a broken handle it throws,
\* Kilo's columns being left out.
Upsert(i, v) ==
    /\ store = "used"
    /\ writes < MaxWrites /\ writes' = writes + 1
    /\ rows' = [rows EXCEPT ![i] =
                  [core |-> v,
                   kilo |-> [c \in Column |->
                               IF c \in Mirrored THEN v[c]
                               ELSE IF rows[i] = None THEN Blank ELSE rows[i].kilo[c]]]]
    /\ said' = [said EXCEPT ![i] = v]
    /\ UNCHANGED <<script, store, apart, recent>>

-----------------------------------------------------------------------------

\* The old plugin inserts or updates a row; it knows none of the core's columns.
KiloWrite(i, v) ==
    /\ writes < MaxWrites /\ writes' = writes + 1
    /\ rows' = [rows EXCEPT ![i] =
                  [kilo |-> v, core |-> IF rows[i] = None THEN Empty ELSE rows[i].core]]
    /\ apart' = apart \cup {i} /\ recent' = recent \cup {i}
    /\ UNCHANGED <<said, script, store>>

Init ==
    /\ rows \in [Id -> {r \in Row : r.core = Empty} \cup {None}]
    /\ columns = {} /\ extended = FALSE
    /\ part = "idle" /\ todo = {} /\ migrated = FALSE
    /\ store = "closed"
    /\ said = [i \in Id |-> None] /\ apart = {} /\ recent = {}
    /\ writes = 0 /\ stops = 0

Next ==
    \/ Migrate
    \/ \E c \in Column : AddColumn(c) \/ Backfill(c)
    \/ Extend \/ Finish \/ Stop
    \/ Open \/ Close \/ FirstUse
    \/ \E i \in Id, v \in Cells : Upsert(i, v) \/ KiloWrite(i, v)

Spec == Init /\ [][Next]_vars

-----------------------------------------------------------------------------
(* Properties                                                              *)

\* Once a migration has reached its end, however many stopped halfway before it or
\* since, the core reads of every row what Kilo has stored there, unless the core or
\* a page has written the row since, the plugin wrote it after that migration began,
\* or the row held another value already.  (translateBaseColumns: the values are
\* copied in every run, not only when a column is added.)
Carried ==
    migrated =>
        \A i \in Id :
            rows[i] # None /\ said[i] = None /\ i \notin apart =>
                rows[i].core = rows[i].kilo

\* What the core has written into a row no later migration, whole or cut, and no
\* write of the plugin takes away; only a value the core left blank may be filled
\* from Kilo's again.  (the conditions of the UPDATE statements)
CoreWins ==
    \A i \in Id :
        said[i] # None =>
            /\ rows[i] # None
            /\ \A c \in Column : said[i][c] # Blank => rows[i].core[c] = said[i][c]

=============================================================================

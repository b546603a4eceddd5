------------------------------- MODULE Backup -------------------------------
(***************************************************************************)
(* Backups of a store and their restore                                    *)
(* (src/core/infrastructure/backup.ts, and the calls of it in              *)
(* src/core/application/memory-service.ts and                              *)
(* src/adapters/dsh/ui-bridge.ts).                                         *)
(*                                                                         *)
(* A backup is one file: a snapshot of the database and a copy of every    *)
(* page.  A restore closes the store, backs the present state up, replaces *)
(* the database, writes the archived pages over the present ones and opens *)
(* the store again; when a step throws, it unpacks its own backup.  Any    *)
(* file operation may fail and the process may die between two of them.    *)
(***************************************************************************)
EXTENDS Integers, FiniteSets

CONSTANTS
    Entry,       \* entries, each with one page and one row
    Journal,     \* the name of the write-ahead log next to the database
    MaxVersion,  \* bound on the writes: each gives its page a new version
    MaxArchives, \* bound on the archives ever made
    MaxFaults,   \* bound on failing file operations and damaged archives
    MaxCrashes   \* bound on crashes

ASSUME BackupAssumption ==
    /\ Journal \notin Entry
    /\ MaxVersion \in Nat /\ MaxArchives \in Nat
    /\ MaxFaults \in Nat /\ MaxCrashes \in Nat

Absent  == 0                    \* no page, no row
Torn    == -1                   \* a page file that was cut off while it was written
Version == 1..MaxVersion
Rows    == [Entry -> Version \cup {Absent}]
Pages   == [Entry -> Version \cup {Absent, Torn}]
Name    == 1..MaxArchives       \* file names carry the time they were made
NoName  == 0

\* An archive file: whole until something damages it, listed until it is deleted.
Content == [rows : Rows, pages : Pages, journal : BOOLEAN]
Archive == [rows : Rows, pages : Pages, journal : BOOLEAN, whole : BOOLEAN, listed : BOOLEAN]

VARIABLES
    pages,    \* Entry -> version of the page on disk
    rows,     \* Entry -> version of the row in the database (none: no database)
    db,       \* the database file: none, ok, or bad (cannot be read)
    journal,  \* its write-ahead log: none, own, or foreign (of another database file)
    open,     \* the store is open
    archive,  \* Name -> archive (not listed: the name is not in use)
    made,     \* the last name used
    step,     \* where the call in progress stands
    source,   \* the archive it restores (NoName: it only makes a backup)
    cur,      \* the archive being unpacked
    pre,      \* the backup made before the restore
    draft,    \* content of the archive being made
    todo,     \* files of cur not written yet
    outcome,  \* how the call ends
    before,   \* rows, pages and database when the restore began (history)
    written,  \* versions given out
    faults, crashes

disk  == <<pages, rows, db, journal>>
past  == <<archive, made>>
call  == <<source, cur, pre, draft, todo, outcome, before>>
limit == <<written, faults, crashes>>
vars  == <<pages, rows, db, journal, open, archive, made, step, source, cur, pre,
           draft, todo, outcome, before, written, faults, crashes>>

NoRows  == [e \in Entry |-> Absent]
Nothing == [rows |-> NoRows, pages |-> NoRows, db |-> "none"]
Blank   == [rows |-> NoRows, pages |-> NoRows, journal |-> FALSE]

\* An archive that cannot be read any more, or does not exist any more.
Lost(listed) ==
    [rows |-> NoRows, pages |-> NoRows, journal |-> FALSE, whole |-> FALSE, listed |-> listed]

\* No call is in progress: nothing of the last one is left.
Returned ==
    /\ step' = "idle"
    /\ source' = NoName /\ cur' = NoName /\ pre' = NoName
    /\ draft' = Blank /\ todo' = {} /\ outcome' = "none" /\ before' = Nothing

TypeOK ==
    /\ pages \in Pages
    /\ rows \in Rows
    /\ db \in {"none", "ok", "bad"}
    /\ journal \in {"none", "own", "foreign"}
    /\ open \in BOOLEAN
    /\ made \in 0..MaxArchives
    /\ archive \in [Name -> Archive]
    /\ step \in {"idle", "snapshot", "walk", "publish", "log",
                 "remove", "copy", "files", "record", "end"}
    /\ source \in 0..made /\ cur \in 0..made /\ pre \in 0..made
    /\ draft \in Content
    /\ todo \subseteq Entry \cup {Journal}
    /\ outcome \in {"none", "restored", "rolledBack", "failed"}
    /\ before \in [rows : Rows, pages : Pages, db : {"none", "ok", "bad"}]
    /\ written \in 0..MaxVersion
    /\ faults \in 0..MaxFaults /\ crashes \in 0..MaxCrashes

-----------------------------------------------------------------------------
(* The store (modelled in full by MemoryStore): a write changes page and   *)
(* row and leaves frames in the log; closing the database empties the log. *)

Writable == open /\ step \in {"idle", "walk"} /\ (step = "walk" => source = NoName)

\* save and update of an entry, by this process or another one with the store open.
Write(e) ==
    /\ Writable
    /\ written < MaxVersion /\ written' = written + 1
    /\ pages' = [pages EXCEPT ![e] = written']
    /\ rows' = [rows EXCEPT ![e] = written']
    /\ journal' = "own"
    /\ UNCHANGED <<db, open, past, step, call, faults, crashes>>

\* MemoryStore.delete: row and page.
Delete(e) ==
    /\ Writable
    /\ rows[e] # Absent
    /\ rows' = [rows EXCEPT ![e] = Absent]
    /\ pages' = [pages EXCEPT ![e] = Absent]
    /\ journal' = "own"
    /\ UNCHANGED <<db, open, past, step, call, limit>>

\* A reconcile pass: rows follow the pages; a page that cannot be decoded keeps its row.
Reconcile ==
    /\ open /\ step = "idle"
    /\ rows' = [e \in Entry |-> IF pages[e] = Torn THEN rows[e] ELSE pages[e]]
    /\ journal' = IF rows' = rows THEN journal ELSE "own"
    /\ UNCHANGED <<pages, db, open, past, step, call, limit>>

\* Opening the database file.  SQLite replays a log it finds next to the file: its
\* own log is part of the content, that of another file may ruin it.  A missing
\* database is created and, being empty, filled from the pages.
OpenStore ==
    \/ /\ db # "bad"
       /\ rows' = IF db = "ok" THEN rows
                  ELSE [e \in Entry |-> IF pages[e] = Torn THEN Absent ELSE pages[e]]
       /\ db' = "ok"
       /\ journal' = IF db = "ok" /\ journal = "none" THEN "none" ELSE "own"
       /\ open' = TRUE
    \/ /\ db = "bad" \/ (db = "ok" /\ journal = "foreign")
       /\ db' = "bad"
       /\ open' = FALSE
       /\ UNCHANGED <<rows, journal>>

Start ==
    /\ step = "idle" /\ ~open /\ db # "bad"
    /\ OpenStore
    /\ UNCHANGED <<pages, past, step, call, limit>>

Stop ==
    /\ step = "idle" /\ open
    /\ open' = FALSE
    /\ journal' = "none"
    /\ UNCHANGED <<pages, rows, db, past, step, call, limit>>

-----------------------------------------------------------------------------
(* createBackup                                                            *)

StartCreate ==
    /\ step = "idle" /\ made < MaxArchives
    /\ db # "none"
    /\ step' = "snapshot"
    /\ UNCHANGED <<disk, open, past, call, limit>>

\* Where a call that throws while it makes a backup goes: a restore has not
\* touched anything yet and ends in its finally block.
GiveUpCreate ==
    IF source = NoName THEN Returned
    ELSE /\ step' = "end" /\ outcome' = "failed"
         /\ UNCHANGED <<source, cur, pre, draft, todo, before>>

\* snapshotDb: VACUUM INTO a temporary file.  When nobody else has the database
\* open, closing it removes the log.
Snapshot ==
    /\ step = "snapshot"
    /\ db = "ok"
    /\ draft' = [draft EXCEPT !.rows = rows]
    /\ journal' = IF open THEN journal ELSE "none"
    /\ step' = "walk"
    /\ UNCHANGED <<pages, rows, db, open, past, source, cur, pre, todo, outcome, before, limit>>

\* The snapshot of a database that cannot be read throws.
SnapshotFails ==
    /\ step = "snapshot"
    /\ db = "bad" \/ (db = "ok" /\ journal = "foreign")
    /\ db' = "bad"
    /\ GiveUpCreate
    /\ UNCHANGED <<pages, rows, journal, open, past, limit>>

\* Mutant of Walk: the archive is written in place, under its final name.
WalkInPlace ==
    /\ step = "walk"
    /\ draft' = [draft EXCEPT !.pages = pages, !.journal = (journal = "own")]
    /\ made' = made + 1
    /\ archive' = [archive EXCEPT ![made'] = Lost(TRUE)]
    /\ step' = "publish"
    /\ UNCHANGED <<disk, open, source, cur, pre, todo, outcome, before, limit>>

\* walk over the store and the project pages.  It skips the database file but not
\* the log beside it.  The archive is written under a name that is not listed.
Walk ==
    /\ step = "walk"
    /\ draft' = [draft EXCEPT !.pages = pages, !.journal = (journal = "own")]
    /\ step' = "publish"
    /\ UNCHANGED <<disk, open, past, source, cur, pre, todo, outcome, before, limit>>

\* renameSync of the finished archive to its name.
Publish ==
    /\ step = "publish"
    /\ made' = made + 1
    /\ archive' = [archive EXCEPT ![made'] =
                      [rows |-> draft.rows, pages |-> draft.pages,
                       journal |-> draft.journal, whole |-> TRUE, listed |-> TRUE]]
    /\ draft' = Blank
    /\ step' = "log"
    /\ UNCHANGED <<disk, open, source, cur, pre, todo, outcome, before, limit>>

\* appendHistory; a backup made for a restore is followed by the restore.
Log ==
    /\ step = "log"
    /\ IF source = NoName THEN Returned
       ELSE /\ step' = "remove" /\ cur' = source /\ pre' = made
            /\ UNCHANGED <<source, draft, todo, outcome, before>>
    /\ UNCHANGED <<disk, open, past, limit>>

\* Any file operation of createBackup may fail.
CreateFails ==
    /\ step \in {"snapshot", "walk", "publish", "log"}
    /\ faults < MaxFaults /\ faults' = faults + 1
    /\ GiveUpCreate
    /\ UNCHANGED <<disk, open, past, written, crashes>>

-----------------------------------------------------------------------------
(* restoreBackup                                                           *)

Restorable(a) == archive[a].listed /\ archive[a].whole

\* Mutant of StartRestore: the backup before the restore is left out.
StartRestoreBare(a) ==
    /\ step = "idle" /\ made < MaxArchives
    /\ a \in 1..made /\ Restorable(a)
    /\ open' = FALSE
    /\ journal' = IF open THEN "none" ELSE journal
    /\ source' = a
    /\ before' = [rows |-> rows, pages |-> pages, db |-> db]
    /\ step' = "remove" /\ cur' = a
    /\ UNCHANGED <<pages, rows, db, past, pre, draft, todo, outcome, limit>>

\* Mutant of StartRestore: the store stays open.
StartRestoreOpen(a) ==
    /\ step = "idle" /\ made < MaxArchives
    /\ a \in 1..made /\ Restorable(a)
    /\ source' = a
    /\ before' = [rows |-> rows, pages |-> pages, db |-> db]
    /\ IF db # "none"
       THEN step' = "snapshot" /\ cur' = NoName
       ELSE step' = "remove" /\ cur' = a
    /\ UNCHANGED <<disk, open, past, pre, draft, todo, outcome, limit>>

\* The callers close the store; the archive is verified; a backup of the present
\* state comes first, unless there is no database.
StartRestore(a) ==
    /\ step = "idle" /\ made < MaxArchives
    /\ a \in 1..made /\ Restorable(a)
    /\ open' = FALSE
    /\ journal' = IF open THEN "none" ELSE journal
    /\ source' = a
    /\ before' = [rows |-> rows, pages |-> pages, db |-> db]
    /\ IF db # "none"
       THEN step' = "snapshot" /\ cur' = NoName
       ELSE step' = "remove" /\ cur' = a
    /\ UNCHANGED <<pages, rows, db, past, pre, draft, todo, outcome, limit>>

Files(a) == {e \in Entry : archive[a].pages[e] # Absent}
                \cup (IF archive[a].journal THEN {Journal} ELSE {})

\* replaceDb, first half: the database and its log are removed ...
RemoveDb ==
    /\ step = "remove"
    /\ db' = "none" /\ journal' = "none"
    /\ rows' = NoRows
    /\ todo' = Files(cur)
    /\ step' = "copy"
    /\ UNCHANGED <<pages, open, past, source, cur, pre, draft, outcome, before, limit>>

\* ... second half: the staged snapshot is copied to their place.
CopyDb ==
    /\ step = "copy"
    /\ db' = "ok" /\ rows' = archive[cur].rows
    /\ step' = "files"
    /\ UNCHANGED <<pages, journal, open, past, call, limit>>

\* The loop over the archived files; pages the archive does not hold stay.
WriteFile(f) ==
    /\ step = "files" /\ f \in todo
    /\ todo' = todo \ {f}
    /\ IF f = Journal
       THEN journal' = "foreign" /\ UNCHANGED pages
       ELSE pages' = [pages EXCEPT ![f] = archive[cur].pages[f]] /\ UNCHANGED journal
    /\ UNCHANGED <<rows, db, open, past, step, source, cur, pre, draft, outcome, before, limit>>

\* What follows an unpacked archive: the history entry, or the end of a rollback.
Unpacked ==
    IF cur = source
    THEN step' = "record" /\ UNCHANGED outcome
    ELSE step' = "end" /\ outcome' = "rolledBack"

\* Mutant of Failed: a failed restore ends without the rollback.
FailedFlat == step' = "end" /\ outcome' = "rolledBack" /\ UNCHANGED cur

\* What follows an exception: the backup made before is unpacked, once.
Failed ==
    IF pre # NoName /\ cur = source
    THEN cur' = pre /\ step' = "remove" /\ UNCHANGED outcome
    ELSE step' = "end" /\ outcome' = "failed" /\ UNCHANGED cur

\* The schema is brought up to date, integrity and counts are read, the database is
\* closed.  A foreign log may do no harm, go unnoticed, or make a statement throw.
CheckDb ==
    /\ step = "files" /\ todo = {}
    /\ \/ /\ Unpacked /\ UNCHANGED <<cur, db>>
          /\ journal' = "none"
       \/ /\ journal = "foreign"
          /\ db' = "bad" /\ journal' = "none"
          /\ Unpacked /\ UNCHANGED cur
       \/ /\ journal = "foreign"
          /\ db' = "bad" /\ UNCHANGED journal
          /\ Failed
    /\ UNCHANGED <<pages, rows, open, past, source, pre, draft, todo, before, limit>>

\* appendHistory of the restore.
Record ==
    /\ step = "record"
    /\ step' = "end" /\ outcome' = "restored"
    /\ UNCHANGED <<disk, open, past, source, cur, pre, draft, todo, before, limit>>

\* What a file operation that stops halfway leaves: a database that was being
\* copied, or a page that was being written, is cut off.
Interrupted ==
    \/ UNCHANGED <<db, pages>>
    \/ step = "copy" /\ db' = "bad" /\ UNCHANGED pages
    \/ /\ step = "files"
       /\ \E e \in todo \ {Journal} : pages' = [pages EXCEPT ![e] = Torn]
       /\ UNCHANGED db

RestoreFails ==
    /\ step \in {"remove", "copy", "files", "record"}
    /\ faults < MaxFaults /\ faults' = faults + 1
    /\ Interrupted
    /\ Failed
    /\ UNCHANGED <<rows, journal, open, past, source, pre, draft, todo, before, written, crashes>>

\* finally: the store is opened again, which may throw.
End ==
    /\ step = "end"
    /\ OpenStore
    /\ Returned
    /\ UNCHANGED <<pages, past, limit>>

-----------------------------------------------------------------------------
(* Outside                                                                 *)

Crash ==
    /\ crashes < MaxCrashes /\ crashes' = crashes + 1
    /\ open \/ step # "idle"
    /\ Interrupted
    /\ open' = FALSE
    /\ Returned
    /\ UNCHANGED <<rows, journal, past, written, faults>>

\* Somebody removes a database that cannot be read; nothing in the code does.
DiscardDb ==
    /\ step = "idle" /\ ~open /\ db = "bad"
    /\ db' = "none" /\ journal' = "none" /\ rows' = NoRows
    /\ UNCHANGED <<pages, open, past, step, call, limit>>

\* deleteBackup, with its typed confirmation.
DeleteArchive(a) ==
    /\ step = "idle"
    /\ a \in 1..made /\ archive[a].listed
    /\ archive' = [archive EXCEPT ![a] = Lost(FALSE)]
    /\ UNCHANGED <<disk, open, made, step, call, limit>>

\* The file of an archive is damaged (a disk, a copy that was cut off).
Damage(a) ==
    /\ step = "idle"
    /\ a \in 1..made /\ archive[a].whole
    /\ faults < MaxFaults /\ faults' = faults + 1
    /\ archive' = [archive EXCEPT ![a] = Lost(TRUE)]
    /\ UNCHANGED <<disk, open, made, step, call, written, crashes>>

Init ==
    /\ pages = NoRows /\ rows = NoRows
    /\ db = "none" /\ journal = "none" /\ open = FALSE
    /\ archive = [a \in Name |-> Lost(FALSE)] /\ made = 0
    /\ step = "idle" /\ source = NoName /\ cur = NoName /\ pre = NoName
    /\ draft = Blank /\ todo = {} /\ outcome = "none" /\ before = Nothing
    /\ written = 0 /\ faults = 0 /\ crashes = 0

Next ==
    \/ \E e \in Entry : Write(e) \/ Delete(e)
    \/ Reconcile \/ Start \/ Stop
    \/ StartCreate \/ Snapshot \/ SnapshotFails \/ Walk \/ Publish \/ Log \/ CreateFails
    \/ \E a \in 1..made : StartRestore(a)
    \/ RemoveDb \/ CopyDb
    \/ \E f \in Entry \cup {Journal} : WriteFile(f)
    \/ CheckDb \/ Record \/ RestoreFails \/ End
    \/ Crash \/ DiscardDb
    \/ \E a \in 1..made : DeleteArchive(a) \/ Damage(a)

Spec == Init /\ [][Next]_vars

-----------------------------------------------------------------------------
(* Properties                                                              *)

\* Entry e on disk after archive a was written over what was there before.
Overlaid(a, e) ==
    IF archive[a].pages[e] # Absent THEN archive[a].pages[e] ELSE before.pages[e]

\* The outcome a restore reports is what it leaves: "restored" means the database and
\* every page as archived, over the pages the archive does not hold; "rolledBack"
\* means the rows of before and every page of before; a call that failed before it
\* unpacked anything changed nothing.  (restoreBackup and restoreFromArchive.  An
\* archive that carries a log is left out: see RestoredReadable.)
OutcomeTrue ==
    step = "end" =>
        /\ (outcome = "restored" /\ ~archive[source].journal) =>
               /\ db = "ok" /\ rows = archive[source].rows
               /\ \A e \in Entry : pages[e] = Overlaid(source, e)
        /\ outcome = "rolledBack" =>
               /\ db = "ok" /\ rows = before.rows
               /\ \A e \in Entry : before.pages[e] # Absent => pages[e] = before.pages[e]
        /\ (outcome = "failed" /\ cur = NoName) =>
               pages = before.pages /\ rows = before.rows

\* The backup a restore falls back on is whole and holds exactly the rows and pages
\* from before it, without a log, for as long as the restore runs: whatever the
\* restore overwrites, and wherever it dies, that state can be had again.
\* (createBackup as restoreBackup calls it.)
FallbackExact ==
    (step \in {"remove", "copy", "files", "record", "end"} /\ pre # NoName) =>
        /\ archive[pre].whole /\ ~archive[pre].journal
        /\ archive[pre].rows = before.rows
        /\ archive[pre].pages = before.pages

\* No step of a restore, not even of one that fails or is being rolled back, takes
\* away the only copy of a page: what it overwrites is in an archive that is whole,
\* unless it found no database and so made no backup.  (restoreFromArchive; the
\* backup is skipped when the database file does not exist.)
KeepsCopies ==
    [][step = "files" /\ before.db # "none" =>
        \A e \in Entry :
            pages[e] \notin {Absent, Torn, pages'[e]} =>
                \E a \in 1..made : archive[a].whole /\ archive[a].pages[e] = pages[e]]_vars

\* A file in the list of backups is an archive somebody finished, whatever crashed
\* while it was made: there are never more unreadable ones than faults (damage from
\* outside, failing operations).  (createBackup writes under another name and renames.)
ListedWhole ==
    Cardinality({a \in 1..made : archive[a].listed /\ ~archive[a].whole}) <= faults

\* The database of a restore that reports success can be read: docs/backup.md:9 keeps
\* the log out of the archive.
RestoredReadable == (step = "end" /\ outcome = "restored") => db = "ok"

=============================================================================

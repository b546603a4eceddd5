---------------------------- MODULE Backup_proofs ----------------------------
(***************************************************************************)
(* Proofs about Backup, for every set of entries and any number of writes, *)
(* archives, failures and crashes.                                         *)
(***************************************************************************)
EXTENDS Backup, FiniteSetTheorems, TLAPS

Creating  == {"snapshot", "walk", "publish", "log"}
Restoring == {"remove", "copy", "files", "record"}

\* Archive a is what the restore in progress found.
Exact(a) ==
    /\ a \in 1..made
    /\ archive[a].whole /\ ~archive[a].journal
    /\ archive[a].rows = before.rows /\ archive[a].pages = before.pages

\* Where a call stands.
Calls ==
    /\ step = "idle" => source = NoName /\ pre = NoName /\ cur = NoName /\ outcome = "none"
    /\ step \in {"snapshot", "walk", "publish"} => made < MaxArchives
    /\ step \in Creating => pre = NoName /\ cur = NoName /\ outcome = "none"
    /\ step \in Restoring => source # NoName /\ cur # NoName /\ cur \in {source, pre} /\ outcome = "none"
    /\ step = "end" => source # NoName
    /\ source # NoName => ~open /\ archive[source].whole

\* The backup made before the restore is what the restore found.
Fallback ==
    /\ pre # NoName => Exact(pre) /\ pre # source
    /\ (step \in Restoring /\ before.db # "none") => pre # NoName

\* A restore that makes that backup has not touched anything.
Untouched ==
    (step \in Creating /\ source # NoName) =>
        /\ pages = before.pages /\ rows = before.rows
        /\ step = "walk" => journal = "none" /\ draft.rows = before.rows
        /\ step = "publish" => draft.rows = before.rows /\ draft.pages = before.pages /\ ~draft.journal
        /\ step = "log" => Exact(made) /\ made # source

\* How far an archive is unpacked.
Unpacking ==
    /\ (step \in {"remove", "copy"} /\ cur = source) => pages = before.pages
    /\ step \in {"copy", "files"} => journal = "none" \/ archive[cur].journal
    /\ step = "copy" => todo = Files(cur)
    /\ step = "files" =>
           /\ todo \subseteq Files(cur)
           /\ db = "ok" /\ rows = archive[cur].rows
           /\ cur = source =>
                  \A e \in Entry : pages[e] = IF e \in todo THEN before.pages[e] ELSE Overlaid(source, e)
           /\ cur # source =>
                  \A e \in Entry : (e \notin todo /\ before.pages[e] # Absent) => pages[e] = before.pages[e]
    /\ step = "record" =>
           /\ cur = source /\ rows = archive[source].rows
           /\ db = "ok" \/ archive[source].journal
           /\ \A e \in Entry : pages[e] = Overlaid(source, e)
    /\ step \in Restoring =>
           \A e \in Entry : pages[e] \in {before.pages[e], archive[source].pages[e], Torn}

CallInv == TypeOK /\ Calls /\ Fallback /\ Untouched /\ Unpacking /\ OutcomeTrue

USE BackupAssumption DEF NoName

-----------------------------------------------------------------------------
(* Types                                                                   *)

\* A lost archive is an archive.
LEMMA LostTyped == \A b \in BOOLEAN : Lost(b) \in Archive
  BY DEF Lost, Archive, Rows, Pages, NoRows, Absent

\* A table is a set of pages too, the empty one included.
LEMMA RowsArePages == Rows \subseteq Pages /\ NoRows \in Rows /\ NoRows \in Pages
  BY DEF Rows, Pages, NoRows

\* The empty contents are contents.
LEMMA BlankTyped == Blank \in Content /\ Nothing \in [rows : Rows, pages : Pages, db : {"none", "ok", "bad"}]
  BY RowsArePages DEF Blank, Content, Nothing

\* A call that returns leaves well-typed fields behind.
LEMMA ReturnedTyped ==
    ASSUME Returned, made' \in Nat
    PROVE  /\ step' = "idle" /\ source' \in 0..made' /\ cur' \in 0..made' /\ pre' \in 0..made'
           /\ draft' \in Content /\ todo' = {} /\ outcome' = "none"
           /\ before' \in [rows : Rows, pages : Pages, db : {"none", "ok", "bad"}]
  BY BlankTyped DEF Returned

\* Opening a store keeps types.
LEMMA OpenTyped ==
    ASSUME TypeOK, OpenStore
    PROVE  rows' \in Rows /\ db' \in {"ok", "bad"} /\ journal' \in {"none", "own", "foreign"} /\ open' \in BOOLEAN
<1>1. [e \in Entry |-> IF pages[e] = Torn THEN Absent ELSE pages[e]] \in Rows
  BY DEF TypeOK, Rows, Pages, Torn, Absent
<1> QED
  BY <1>1 DEF OpenStore, TypeOK

\* A replacement cut short keeps types.
LEMMA InterruptedTyped ==
    ASSUME TypeOK, Interrupted
    PROVE  pages' \in Pages /\ db' \in {"none", "ok", "bad"}
<1>1. \A e \in Entry : [pages EXCEPT ![e] = Torn] \in Pages
  BY DEF TypeOK, Pages
<1>2. todo \ {Journal} \subseteq Entry
  BY DEF TypeOK
<1> QED
  BY <1>1, <1>2 DEF Interrupted, TypeOK

\* Types hold initially.
LEMMA InitTypes == Init => TypeOK
<1> SUFFICES ASSUME Init PROVE TypeOK
  OBVIOUS
<1>1. archive \in [Name -> Archive]
  BY LostTyped DEF Init
<1>2. pages \in Pages /\ rows \in Rows
  BY RowsArePages DEF Init
<1>3. made \in 0..MaxArchives /\ 0 \in 0..made /\ 0 \in 0..MaxVersion /\ 0 \in 0..MaxFaults /\ 0 \in 0..MaxCrashes
  BY DEF Init
<1>4. draft \in Content /\ before \in [rows : Rows, pages : Pages, db : {"none", "ok", "bad"}]
  BY BlankTyped DEF Init
<1> QED
  BY <1>1, <1>2, <1>3, <1>4 DEF Init, TypeOK

\* Giving up a backup keeps types.
LEMMA GiveUpTyped ==
    ASSUME TypeOK, GiveUpCreate, UNCHANGED made
    PROVE  /\ step' \in {"idle", "end"} /\ source' \in 0..made' /\ cur' \in 0..made' /\ pre' \in 0..made'
           /\ draft' \in Content /\ todo' \subseteq Entry \cup {Journal}
           /\ outcome' \in {"none", "restored", "rolledBack", "failed"}
           /\ before' \in [rows : Rows, pages : Pages, db : {"none", "ok", "bad"}]
<1>1. made' \in Nat
  BY DEF TypeOK
<1>2. CASE source = NoName
  BY <1>1, <1>2, ReturnedTyped DEF GiveUpCreate
<1>3. CASE source # NoName
  BY <1>3 DEF GiveUpCreate, TypeOK
<1> QED
  BY <1>2, <1>3

\* Every step keeps types; what a call has to hold while it runs is needed for its source.
LEMMA NextTypes == TypeOK /\ Calls /\ [Next]_vars => TypeOK'
<1> SUFFICES ASSUME TypeOK, Calls, [Next]_vars PROVE TypeOK'
  OBVIOUS
<1>n. made \in Nat /\ MaxArchives \in Nat /\ 0..made \subseteq Nat
  BY DEF TypeOK
<1>1. ASSUME NEW e \in Entry, Write(e) PROVE TypeOK'
  <2>1. written' \in Version /\ written' \in 0..MaxVersion
    BY <1>1 DEF Write, TypeOK, Version
  <2>2. pages' \in Pages /\ rows' \in Rows
    BY <1>1, <2>1 DEF Write, TypeOK, Pages, Rows
  <2> QED
    BY <1>1, <2>1, <2>2 DEF Write, TypeOK, past, call
<1>2. ASSUME NEW e \in Entry, Delete(e) PROVE TypeOK'
  <2>1. pages' \in Pages /\ rows' \in Rows
    BY <1>2 DEF Delete, TypeOK, Pages, Rows
  <2> QED
    BY <1>2, <2>1 DEF Delete, TypeOK, past, call, limit
<1>3. ASSUME Reconcile PROVE TypeOK'
  <2>1. rows' \in Rows
    BY <1>3 DEF Reconcile, TypeOK, Rows, Pages
  <2> QED
    BY <1>3, <2>1 DEF Reconcile, TypeOK, past, call, limit
<1>4. ASSUME Start PROVE TypeOK'
  BY <1>4, OpenTyped DEF Start, TypeOK, past, call, limit
<1>5. ASSUME Stop PROVE TypeOK'
  BY <1>5 DEF Stop, TypeOK, past, call, limit
<1>6. ASSUME StartCreate PROVE TypeOK'
  BY <1>6 DEF StartCreate, TypeOK, disk, past, call, limit
<1>7. ASSUME Snapshot PROVE TypeOK'
  <2>1. draft' \in Content
    BY <1>7 DEF Snapshot, TypeOK, Content
  <2> QED
    BY <1>7, <2>1 DEF Snapshot, TypeOK, past, limit
<1>8. ASSUME SnapshotFails PROVE TypeOK'
  BY <1>8, <1>n, GiveUpTyped DEF SnapshotFails, TypeOK, past, limit
<1>9. ASSUME Walk PROVE TypeOK'
  <2>1. draft' \in Content
    BY <1>9 DEF Walk, TypeOK, Content
  <2> QED
    BY <1>9, <2>1 DEF Walk, TypeOK, disk, past, limit
<1>10. ASSUME Publish PROVE TypeOK'
  <2>1. made' \in 0..MaxArchives /\ made' \in Name /\ 0..made \subseteq 0..made'
    BY <1>10, <1>n DEF Publish, TypeOK, Calls, Name
  <2>2. [rows |-> draft.rows, pages |-> draft.pages, journal |-> draft.journal,
         whole |-> TRUE, listed |-> TRUE] \in Archive
    BY DEF TypeOK, Content, Archive
  <2>3. archive' \in [Name -> Archive]
    BY <1>10, <2>1, <2>2 DEF Publish, TypeOK
  <2> QED
    BY <1>10, <2>1, <2>3, BlankTyped DEF Publish, TypeOK, disk, limit
<1>11. ASSUME Log PROVE TypeOK'
  <2>1. CASE source = NoName
    BY <1>11, <1>n, <2>1, ReturnedTyped DEF Log, TypeOK, disk, past, limit
  <2>2. CASE source # NoName
    BY <1>11, <1>n, <2>2 DEF Log, TypeOK, disk, past, limit
  <2> QED
    BY <2>1, <2>2
<1>12. ASSUME CreateFails PROVE TypeOK'
  BY <1>12, <1>n, GiveUpTyped DEF CreateFails, TypeOK, disk, past
<1>13. ASSUME NEW a \in 1..made, StartRestore(a) PROVE TypeOK'
  <2>1. a \in 0..made /\ 0 \in 0..made
    BY <1>n
  <2> QED
    BY <1>13, <2>1 DEF StartRestore, TypeOK, past, limit
<1>14. ASSUME RemoveDb PROVE TypeOK'
  BY <1>14, RowsArePages DEF RemoveDb, TypeOK, Files, past, limit
<1>15. ASSUME CopyDb PROVE TypeOK'
  <2>1. cur \in Name
    BY <1>15, <1>n DEF CopyDb, Calls, Restoring, TypeOK, Name
  <2> QED
    BY <1>15, <2>1 DEF CopyDb, TypeOK, Archive, past, call, limit
<1>16. ASSUME NEW f \in Entry \cup {Journal}, WriteFile(f) PROVE TypeOK'
  <2>1. cur \in Name
    BY <1>16, <1>n DEF WriteFile, Calls, Restoring, TypeOK, Name
  <2>2. f # Journal => archive[cur].pages[f] \in Version \cup {Absent, Torn}
    BY <2>1 DEF TypeOK, Archive, Pages
  <2>3. pages' \in Pages
    BY <1>16, <2>2 DEF WriteFile, TypeOK, Pages
  <2> QED
    BY <1>16, <2>3 DEF WriteFile, TypeOK, past, limit
<1>17. ASSUME CheckDb PROVE TypeOK'
  BY <1>17 DEF CheckDb, Unpacked, Failed, TypeOK, past, limit
<1>18. ASSUME Record PROVE TypeOK'
  BY <1>18 DEF Record, TypeOK, disk, past, limit
<1>19. ASSUME RestoreFails PROVE TypeOK'
  BY <1>19, InterruptedTyped DEF RestoreFails, Failed, TypeOK, past
<1>20. ASSUME End PROVE TypeOK'
  BY <1>20, <1>n, OpenTyped, ReturnedTyped DEF End, TypeOK, past, limit
<1>21. ASSUME Crash PROVE TypeOK'
  <2>1. crashes' \in 0..MaxCrashes
    BY <1>21 DEF Crash, TypeOK
  <2>2. pages' \in Pages /\ db' \in {"none", "ok", "bad"} /\ UNCHANGED <<rows, journal, archive, made, written, faults>>
    BY <1>21, InterruptedTyped DEF Crash, past
  <2>3. Returned /\ made' \in Nat /\ open' = FALSE
    BY <1>21, <1>n, <2>2 DEF Crash
  <2> HIDE <1>21
  <2> QED
    BY <2>1, <2>2, <2>3, ReturnedTyped DEF TypeOK
<1>22. ASSUME DiscardDb PROVE TypeOK'
  BY <1>22, RowsArePages DEF DiscardDb, TypeOK, past, call, limit
<1>23. ASSUME NEW a \in 1..made, DeleteArchive(a) PROVE TypeOK'
  BY <1>23, LostTyped DEF DeleteArchive, TypeOK, disk, call, limit
<1>24. ASSUME NEW a \in 1..made, Damage(a) PROVE TypeOK'
  <2>1. faults' \in 0..MaxFaults
    BY <1>24 DEF Damage, TypeOK
  <2>2. archive' \in [Name -> Archive]
    BY <1>24, LostTyped DEF Damage, TypeOK
  <2>3. UNCHANGED <<disk, open, made, step, call, written, crashes>>
    BY <1>24 DEF Damage
  <2> QED
    BY <2>1, <2>2, <2>3 DEF TypeOK, disk, call
<1>25. ASSUME UNCHANGED vars PROVE TypeOK'
  BY <1>25 DEF vars, TypeOK
<1> QED
  BY <1>1, <1>2, <1>3, <1>4, <1>5, <1>6, <1>7, <1>8, <1>9, <1>10, <1>11, <1>12, <1>13, <1>14,
     <1>15, <1>16, <1>17, <1>18, <1>19, <1>20, <1>21, <1>22, <1>23, <1>24, <1>25 DEF Next

-----------------------------------------------------------------------------
(* Calls                                                                   *)

\* Between calls nothing is claimed.
LEMMA AtRest ==
    ASSUME TypeOK', step' = "idle", source' = NoName, pre' = NoName, cur' = NoName, outcome' = "none"
    PROVE  CallInv'
  BY DEF CallInv, Calls, Fallback, Untouched, Unpacking, OutcomeTrue, Creating, Restoring

\* The invariant holds initially: no call runs.
LEMMA InitCall == Init => CallInv
<1> SUFFICES ASSUME Init PROVE CallInv
  OBVIOUS
<1>1. TypeOK
  BY InitTypes
<1>2. step = "idle" /\ source = NoName /\ pre = NoName /\ cur = NoName /\ outcome = "none"
  BY DEF Init
<1> QED
  BY <1>1, <1>2 DEF CallInv, Calls, Fallback, Untouched, Unpacking, OutcomeTrue, Creating, Restoring

\* A step of a call that only makes a backup.
LEMMA Making ==
    ASSUME CallInv, TypeOK', source' = NoName, pre' = NoName, cur' = NoName, outcome' = "none",
           step' \in Creating, step' # "log" => made' < MaxArchives
    PROVE  CallInv'
  BY DEF CallInv, Calls, Fallback, Untouched, Unpacking, OutcomeTrue, Creating, Restoring

\* A call that gives up while it makes a backup.
LEMMA GivesUp ==
    ASSUME CallInv, TypeOK', GiveUpCreate, step \in Creating,
           UNCHANGED <<pages, rows, open, archive, made>>
    PROVE  CallInv'
<1>1. CASE source = NoName
  BY <1>1, AtRest DEF GiveUpCreate, Returned
<1>2. CASE source # NoName
  <2>1. /\ step' = "end" /\ outcome' = "failed"
        /\ UNCHANGED <<source, cur, pre, before>>
    BY <1>2 DEF GiveUpCreate
  <2>2. cur = NoName /\ pre = NoName /\ pages = before.pages /\ rows = before.rows
    BY <1>2 DEF CallInv, Calls, Untouched, Creating
  <2>3. ~open /\ archive[source].whole
    BY <1>2 DEF CallInv, Calls
  <2>4. Calls' /\ Fallback' /\ Untouched' /\ Unpacking'
    BY <1>2, <2>1, <2>2, <2>3 DEF Calls, Fallback, Untouched, Unpacking, Creating, Restoring
  <2>5. OutcomeTrue'
    BY <2>1, <2>2 DEF OutcomeTrue
  <2> QED
    BY <2>4, <2>5 DEF CallInv
<1> QED
  BY <1>1, <1>2

\* The start of a restore: its snapshot comes first, if there is a database.
LEMMA StartRestoreStep ==
    ASSUME CallInv, TypeOK', NEW a \in 1..made, StartRestore(a)
    PROVE  CallInv'
<1>1. /\ step = "idle" /\ made < MaxArchives /\ open' = FALSE /\ source' = a
      /\ before' = [rows |-> rows, pages |-> pages, db |-> db]
      /\ UNCHANGED <<pages, rows, archive, made, pre, draft, todo, outcome>>
      /\ archive[a].whole
  BY DEF StartRestore, past, Restorable
<1>2. pre = NoName /\ cur = NoName /\ outcome = "none" /\ a # NoName
  BY <1>1 DEF CallInv, Calls
<1>3. CASE db # "none"
  <2>1. step' = "snapshot" /\ cur' = NoName
    BY <1>3 DEF StartRestore
  <2> QED
    BY <1>1, <1>2, <2>1 DEF CallInv, Calls, Fallback, Untouched, Unpacking, OutcomeTrue, Creating, Restoring
<1>4. CASE db = "none"
  <2>1. step' = "remove" /\ cur' = a
    BY <1>4 DEF StartRestore
  <2>2. Calls' /\ Fallback' /\ Untouched'
    BY <1>1, <1>2, <1>4, <2>1 DEF Calls, Fallback, Untouched, Creating, Restoring
  <2>3. Unpacking' /\ OutcomeTrue'
    BY <1>1, <1>2, <2>1 DEF Unpacking, OutcomeTrue, Restoring
  <2> QED
    BY <2>2, <2>3 DEF CallInv
<1> QED
  BY <1>3, <1>4

\* The snapshot of a restore holds the rows there are.
LEMMA SnapshotStep ==
    ASSUME CallInv, TypeOK', Snapshot
    PROVE  CallInv'
<1>1. /\ step = "snapshot" /\ step' = "walk"
      /\ UNCHANGED <<pages, rows, open, archive, made, source, cur, pre, outcome, before>>
      /\ draft' = [draft EXCEPT !.rows = rows]
  BY DEF Snapshot, past
<1>2. CASE source = NoName
  BY <1>1, <1>2, Making DEF CallInv, Calls, Creating
<1>3. CASE source # NoName
  <2>1. journal' = "none"
    BY <1>3 DEF Snapshot, CallInv, Calls
  <2>2. draft'.rows = before.rows
    BY <1>1, <1>3 DEF CallInv, TypeOK, Content, Untouched, Creating
  <2>3. Calls' /\ Fallback' /\ Unpacking' /\ OutcomeTrue'
    BY <1>1, <1>3 DEF CallInv, Calls, Fallback, Unpacking, OutcomeTrue, Creating, Restoring
  <2>4. Untouched'
    BY <1>1, <2>1, <2>2 DEF CallInv, Untouched, Creating
  <2> QED
    BY <2>3, <2>4 DEF CallInv
<1> QED
  BY <1>2, <1>3

\* The walk adds the pages there are.
LEMMA WalkStep ==
    ASSUME CallInv, TypeOK', Walk
    PROVE  CallInv'
<1>1. /\ step = "walk" /\ step' = "publish"
      /\ UNCHANGED <<pages, rows, journal, open, archive, made, source, cur, pre, outcome, before>>
      /\ draft' = [draft EXCEPT !.pages = pages, !.journal = (journal = "own")]
  BY DEF Walk, past, disk
<1>2. CASE source = NoName
  BY <1>1, <1>2, Making DEF CallInv, Calls, Creating
<1>3. CASE source # NoName
  <2>1. journal = "none" /\ draft.rows = before.rows /\ pages = before.pages
    BY <1>1, <1>3 DEF CallInv, Untouched, Creating
  <2>2. draft'.rows = before.rows /\ draft'.pages = before.pages /\ ~draft'.journal
    BY <1>1, <2>1 DEF CallInv, TypeOK, Content
  <2>3. Calls' /\ Fallback' /\ Unpacking' /\ OutcomeTrue'
    BY <1>1, <1>3 DEF CallInv, Calls, Fallback, Unpacking, OutcomeTrue, Creating, Restoring
  <2>4. Untouched'
    BY <1>1, <2>2 DEF CallInv, Untouched, Creating
  <2> QED
    BY <2>3, <2>4 DEF CallInv
<1> QED
  BY <1>2, <1>3

\* The archive of a restore is listed with what the walk has read.
LEMMA PublishStep ==
    ASSUME CallInv, TypeOK', Publish
    PROVE  CallInv'
<1>1. /\ step = "publish" /\ step' = "log" /\ made' = made + 1
      /\ UNCHANGED <<pages, rows, open, source, cur, pre, outcome, before>>
      /\ archive' = [archive EXCEPT ![made'] =
                        [rows |-> draft.rows, pages |-> draft.pages,
                         journal |-> draft.journal, whole |-> TRUE, listed |-> TRUE]]
  BY DEF Publish, disk
<1>2. CASE source = NoName
  BY <1>1, <1>2, Making DEF CallInv, Calls, Creating
<1>3. CASE source # NoName
  <2>1. made \in Nat /\ made' \in Name /\ made' \in 1..made' /\ source \in 1..made /\ source # made'
    BY <1>1, <1>3 DEF CallInv, TypeOK, Name, Calls
  <2>2. archive'[source] = archive[source]
    BY <1>1, <2>1 DEF CallInv, TypeOK, Name
  <2>3. archive'[made'] = [rows |-> draft.rows, pages |-> draft.pages,
                           journal |-> draft.journal, whole |-> TRUE, listed |-> TRUE]
    BY <1>1, <2>1 DEF CallInv, TypeOK
  <2>4. draft.rows = before.rows /\ draft.pages = before.pages /\ ~draft.journal
    BY <1>1, <1>3 DEF CallInv, Untouched, Creating
  <2>5. Exact(made)'
    BY <1>1, <2>1, <2>3, <2>4 DEF Exact
  <2>6. Calls' /\ Fallback' /\ Unpacking' /\ OutcomeTrue'
    BY <1>1, <1>3, <2>2 DEF CallInv, Calls, Fallback, Unpacking, OutcomeTrue, Creating, Restoring
  <2>7. Untouched'
    BY <1>1, <1>3, <2>1, <2>5 DEF CallInv, Untouched, Creating
  <2> QED
    BY <2>6, <2>7 DEF CallInv
<1> QED
  BY <1>2, <1>3

\* The restore goes on, to fall back on the archive just listed.
LEMMA LogStep ==
    ASSUME CallInv, TypeOK', Log
    PROVE  CallInv'
<1>1. step = "log" /\ UNCHANGED <<pages, rows, db, journal, open, archive, made>>
  BY DEF Log, disk, past
<1>2. CASE source = NoName
  BY <1>2, AtRest DEF Log, Returned
<1>3. CASE source # NoName
  <2>1. step' = "remove" /\ cur' = source /\ pre' = made /\ UNCHANGED <<source, outcome, before>>
    BY <1>3 DEF Log
  <2>2. Exact(made) /\ made # source /\ pages = before.pages
    BY <1>1, <1>3 DEF CallInv, Untouched, Creating
  <2>3. Calls'
    BY <1>1, <1>3, <2>1 DEF CallInv, Calls, Creating, Restoring
  <2>4. Fallback' /\ Untouched'
    BY <1>1, <1>3, <2>1, <2>2 DEF Fallback, Untouched, Exact, Creating, Restoring
  <2>5. Unpacking' /\ OutcomeTrue'
    BY <1>1, <2>1, <2>2 DEF Unpacking, OutcomeTrue, Restoring
  <2> QED
    BY <2>3, <2>4, <2>5 DEF CallInv
<1> QED
  BY <1>2, <1>3

-----------------------------------------------------------------------------
(* Unpacking                                                               *)

\* What every step of a restore before its end leaves alone.
Kept == UNCHANGED <<open, archive, made, source, pre, before>>

\* What a restore knows of its two archives.
LEMMA Archives ==
    ASSUME CallInv, step \in Restoring
    PROVE  /\ source \in 1..made /\ cur \in {source, pre} /\ cur \in 1..made
           /\ archive[source].whole
           /\ cur # source => pre # NoName /\ cur = pre
           /\ pre # NoName => Exact(pre)
           /\ before.db # "none" => pre # NoName
  BY DEF CallInv, TypeOK, Calls, Fallback, Exact

\* Calls, Fallback and Untouched do not depend on what is unpacked.
LEMMA StillRestoring ==
    ASSUME CallInv, Kept, step \in Restoring, step' \in Restoring,
           outcome' = outcome, cur' \in {source, pre}, cur' # NoName
    PROVE  Calls' /\ Fallback' /\ Untouched' /\ OutcomeTrue'
<1>1. Calls' /\ Untouched' /\ OutcomeTrue'
  BY DEF Kept, CallInv, Calls, Untouched, OutcomeTrue, Creating, Restoring
<1>2. Fallback'
  BY DEF Kept, CallInv, Fallback, Exact
<1> QED
  BY <1>1, <1>2

\* A restore that comes to its end has only its outcome to prove.
LEMMA Ending ==
    ASSUME CallInv, TypeOK', Kept, step \in Restoring, step' = "end", OutcomeTrue'
    PROVE  CallInv'
<1>1. Calls' /\ Untouched' /\ Unpacking'
  BY DEF Kept, CallInv, Calls, Untouched, Unpacking, Creating, Restoring
<1>2. Fallback'
  BY DEF Kept, CallInv, Fallback, Exact, Restoring
<1> QED
  BY <1>1, <1>2 DEF CallInv

\* A failure of a restore: the backup made before is unpacked, or the call ends.
LEMMA FailedStep ==
    ASSUME CallInv, TypeOK', Kept, step \in Restoring, Failed, rows' = rows,
           \A e \in Entry : pages'[e] \in {pages[e], Torn}
    PROVE  CallInv'
<1>1. CASE pre # NoName /\ cur = source
  <2>1. cur' = pre /\ step' = "remove" /\ outcome' = outcome
    BY <1>1 DEF Failed
  <2>2. Calls' /\ Fallback' /\ Untouched' /\ OutcomeTrue'
    BY <1>1, <2>1, StillRestoring DEF Restoring
  <2>3. pre # source
    BY <1>1 DEF CallInv, Fallback
  <2>4. \A e \in Entry : pages'[e] \in {before.pages[e], archive[source].pages[e], Torn}
    BY DEF CallInv, Unpacking
  <2>5. Unpacking'
    BY <2>1, <2>3, <2>4 DEF Kept, Unpacking
  <2> QED
    BY <2>2, <2>5 DEF CallInv
<1>2. CASE ~(pre # NoName /\ cur = source)
  <2>1. step' = "end" /\ outcome' = "failed" /\ cur' = cur /\ cur # NoName
    BY <1>2 DEF Failed, CallInv, Calls
  <2>2. OutcomeTrue'
    BY <2>1 DEF OutcomeTrue
  <2> QED
    BY <2>1, <2>2, Ending
<1> QED
  BY <1>1, <1>2

\* The database goes; from here on a fallback is needed.
LEMMA RemoveDbStep ==
    ASSUME CallInv, TypeOK', RemoveDb
    PROVE  CallInv'
<1>1. /\ step = "remove" /\ step' = "copy" /\ todo' = Files(cur) /\ journal' = "none"
      /\ UNCHANGED <<pages, cur, outcome>> /\ Kept
  BY DEF RemoveDb, Kept, past
<1>2. Calls' /\ Fallback' /\ Untouched' /\ OutcomeTrue'
  BY <1>1, Archives, StillRestoring DEF Restoring, CallInv, Calls
<1>3. Unpacking'
  BY <1>1 DEF Kept, CallInv, Unpacking, Files, Restoring
<1> QED
  BY <1>2, <1>3 DEF CallInv

\* The archive's database takes its place.
LEMMA CopyDbStep ==
    ASSUME CallInv, TypeOK', CopyDb
    PROVE  CallInv'
<1>1. /\ step = "copy" /\ step' = "files" /\ db' = "ok" /\ rows' = archive[cur].rows
      /\ UNCHANGED <<pages, journal, cur, todo, outcome>> /\ Kept
  BY DEF CopyDb, Kept, past, call
<1>2. Calls' /\ Fallback' /\ Untouched' /\ OutcomeTrue'
  BY <1>1, Archives, StillRestoring DEF Restoring, CallInv, Calls
<1>a. /\ cur \in {source, pre} /\ (cur # source => Exact(cur))
  BY <1>1, Archives DEF Restoring
<1>3. todo = Files(cur) /\ (journal = "none" \/ archive[cur].journal)
  BY <1>1 DEF CallInv, Unpacking
<1>4. ASSUME cur = source
      PROVE  \A e \in Entry : pages[e] = IF e \in todo THEN before.pages[e] ELSE Overlaid(source, e)
  <2>1. pages = before.pages
    BY <1>1, <1>4 DEF CallInv, Unpacking
  <2> QED
    BY <1>3, <1>4, <2>1 DEF Files, Overlaid
<1>5. ASSUME cur # source
      PROVE  \A e \in Entry : (e \notin todo /\ before.pages[e] # Absent) => pages[e] = before.pages[e]
  BY <1>3, <1>5, <1>a DEF Files, Exact
<1>6. \A e \in Entry : pages[e] \in {before.pages[e], archive[source].pages[e], Torn}
  BY <1>1 DEF CallInv, Unpacking, Restoring
<1>7. \A e \in Entry : Overlaid(source, e)' = Overlaid(source, e)
  BY <1>1 DEF Overlaid, Kept
<1>8. Files(cur)' = Files(cur)
  BY <1>1 DEF Files, Kept
<1>9. Unpacking'
  <2>1. step' = "files" /\ todo' = Files(cur) /\ cur' = cur /\ source' = source /\ archive' = archive
        /\ before' = before /\ pages' = pages /\ journal' = journal /\ db' = "ok" /\ rows' = archive[cur].rows
        /\ todo' = todo
    BY <1>1, <1>3 DEF Kept
  <2> QED
    BY <2>1, <1>3, <1>4, <1>5, <1>6, <1>7, <1>8 DEF Unpacking
<1> QED
  BY <1>2, <1>9 DEF CallInv

\* One file of the archive is written over the disk.
LEMMA WriteFileStep ==
    ASSUME CallInv, TypeOK', NEW f \in Entry \cup {Journal}, WriteFile(f)
    PROVE  CallInv'
<1>1. /\ step = "files" /\ step' = "files" /\ f \in todo /\ todo' = todo \ {f}
      /\ UNCHANGED <<db, rows, cur, outcome>> /\ Kept
  BY DEF WriteFile, Kept, past
<1>2. Calls' /\ Fallback' /\ Untouched' /\ OutcomeTrue'
  BY <1>1, Archives, StillRestoring DEF Restoring, CallInv, Calls
<1>3. cur \in {source, pre} /\ (cur # source => Exact(cur))
  BY <1>1, Archives DEF Restoring
<1>4. /\ todo \subseteq Files(cur) /\ db = "ok" /\ rows = archive[cur].rows
      /\ journal = "none" \/ archive[cur].journal
      /\ cur = source =>
             \A e \in Entry : pages[e] = IF e \in todo THEN before.pages[e] ELSE Overlaid(source, e)
      /\ cur # source =>
             \A e \in Entry : (e \notin todo /\ before.pages[e] # Absent) => pages[e] = before.pages[e]
      /\ \A e \in Entry : pages[e] \in {before.pages[e], archive[source].pages[e], Torn}
  BY <1>1 DEF CallInv, Unpacking, Restoring
<1>5. f = Journal => archive[cur].journal
  BY <1>1, <1>4 DEF Files
<1>6. f # Journal => archive[cur].pages[f] # Absent
  BY <1>1, <1>4 DEF Files
<1>7. journal' = "none" \/ archive[cur].journal
  BY <1>4, <1>5 DEF WriteFile
<1>8. \A e \in Entry : pages'[e] = IF e = f THEN archive[cur].pages[e] ELSE pages[e]
  BY DEF WriteFile, CallInv, TypeOK, Pages
<1>9. \A e \in Entry : Overlaid(source, e)' = Overlaid(source, e)
  BY <1>1 DEF Overlaid, Kept
<1>10. Files(cur)' = Files(cur)
  BY <1>1 DEF Files, Kept
<1>11. ASSUME cur = source
       PROVE  \A e \in Entry : pages'[e] = IF e \in todo' THEN before.pages[e] ELSE Overlaid(source, e)
  BY <1>1, <1>4, <1>6, <1>8, <1>11 DEF Overlaid
<1>12. ASSUME cur # source
       PROVE  \A e \in Entry : (e \notin todo' /\ before.pages[e] # Absent) => pages'[e] = before.pages[e]
  BY <1>1, <1>3, <1>4, <1>8, <1>12 DEF Exact
<1>13. \A e \in Entry : pages'[e] \in {before.pages[e], archive[source].pages[e], Torn}
  BY <1>3, <1>4, <1>8 DEF Exact
<1>14. Unpacking'
  <2>1. step' = "files" /\ todo' \subseteq Files(cur) /\ cur' = cur /\ source' = source /\ archive' = archive
        /\ before' = before /\ db' = "ok" /\ rows' = archive[cur].rows
    BY <1>1, <1>4 DEF Kept
  <2> QED
    BY <2>1, <1>7, <1>9, <1>10, <1>11, <1>12, <1>13 DEF Unpacking
<1> QED
  BY <1>2, <1>14 DEF CallInv

\* The check of the database ends the restore or the rollback.
LEMMA CheckDbStep ==
    ASSUME CallInv, TypeOK', CheckDb
    PROVE  CallInv'
<1>1. /\ step = "files" /\ todo = {} /\ Kept /\ UNCHANGED <<pages, rows>>
  BY DEF CheckDb, Kept, past
<1>2. /\ cur \in {source, pre} /\ (cur # source => Exact(cur))
  BY <1>1, Archives DEF Restoring
<1>3. /\ db = "ok" /\ rows = archive[cur].rows
      /\ journal = "none" \/ archive[cur].journal
      /\ cur = source => \A e \in Entry : pages[e] = Overlaid(source, e)
      /\ cur # source => \A e \in Entry : before.pages[e] # Absent => pages[e] = before.pages[e]
      /\ \A e \in Entry : pages[e] \in {before.pages[e], archive[source].pages[e], Torn}
  BY <1>1 DEF CallInv, Unpacking, Restoring
<1>4. CASE Unpacked /\ cur' = cur /\ (db' = db \/ journal = "foreign")
  <2>1. CASE cur = source
    <3>1. step' = "record" /\ outcome' = outcome
      BY <1>4, <2>1 DEF Unpacked
    <3>2. Calls' /\ Fallback' /\ Untouched' /\ OutcomeTrue'
      BY <1>1, <1>4, <2>1, <3>1, StillRestoring DEF Restoring, CallInv, Calls
    <3>3. db' = "ok" \/ archive[source].journal
      BY <1>3, <1>4, <2>1
    <3>4. \A e \in Entry : Overlaid(source, e)' = Overlaid(source, e)
      BY <1>1 DEF Overlaid, Kept
    <3>5. Unpacking'
      BY <1>1, <1>3, <1>4, <2>1, <3>1, <3>3, <3>4 DEF Unpacking, Kept
    <3> QED
      BY <3>2, <3>5 DEF CallInv
  <2>2. CASE cur # source
    <3>1. step' = "end" /\ outcome' = "rolledBack"
      BY <1>4, <2>2 DEF Unpacked
    <3>2. db' = "ok" /\ rows' = before.rows
      BY <1>1, <1>2, <1>3, <1>4, <2>2 DEF Exact
    <3>3. OutcomeTrue'
      BY <1>1, <1>3, <2>2, <3>1, <3>2 DEF OutcomeTrue, Kept
    <3> QED
      BY <1>1, <3>1, <3>3, Ending DEF Restoring
  <2> QED
    BY <2>1, <2>2
<1>5. CASE Failed
  BY <1>1, <1>5, FailedStep DEF Restoring
<1> QED
  BY <1>4, <1>5 DEF CheckDb

\* The entry in the journal of backups.
LEMMA RecordStep ==
    ASSUME CallInv, TypeOK', Record
    PROVE  CallInv'
<1>1. /\ step = "record" /\ step' = "end" /\ outcome' = "restored" /\ Kept
      /\ UNCHANGED <<pages, rows, db>>
  BY DEF Record, Kept, past, disk
<1>2. /\ rows = archive[source].rows
      /\ db = "ok" \/ archive[source].journal
      /\ \A e \in Entry : pages[e] = Overlaid(source, e)
  BY <1>1 DEF CallInv, Unpacking
<1>3. \A e \in Entry : Overlaid(source, e)' = Overlaid(source, e)
  BY <1>1 DEF Overlaid, Kept
<1>4. OutcomeTrue'
  BY <1>1, <1>2, <1>3 DEF OutcomeTrue, Kept
<1> QED
  BY <1>1, <1>4, Ending DEF Restoring

\* A file operation that fails starts the rollback, or ends it.
LEMMA RestoreFailsStep ==
    ASSUME CallInv, TypeOK', RestoreFails
    PROVE  CallInv'
<1>1. step \in Restoring /\ Kept /\ rows' = rows /\ Failed
  BY DEF RestoreFails, Kept, past, Restoring
<1>2. \A e \in Entry : pages'[e] \in {pages[e], Torn}
  <2>1. pages \in Pages /\ todo \ {Journal} \subseteq Entry
    BY DEF CallInv, TypeOK
  <2> QED
    BY <2>1 DEF RestoreFails, Interrupted, Pages
<1> QED
  BY <1>1, <1>2, FailedStep

\* Every step keeps the invariant.
LEMMA NextCall == CallInv /\ [Next]_vars => CallInv'
<1> SUFFICES ASSUME CallInv, [Next]_vars PROVE CallInv'
  OBVIOUS
<1>0. TypeOK'
  BY NextTypes DEF CallInv
<1>i. step = "idle" => source = NoName /\ pre = NoName /\ cur = NoName /\ outcome = "none"
  BY DEF CallInv, Calls
<1>1. ASSUME NEW e \in Entry, Write(e) PROVE CallInv'
  <2>1. UNCHANGED <<step, source, pre, cur, outcome, made>>
    BY <1>1 DEF Write, past, call
  <2>2. CASE step = "idle"
    BY <1>0, <1>i, <2>1, <2>2, AtRest
  <2>3. CASE step = "walk" /\ source = NoName
    BY <1>0, <2>1, <2>3, Making DEF CallInv, Calls, Creating
  <2> QED
    BY <1>1, <2>2, <2>3 DEF Write, Writable
<1>2. ASSUME NEW e \in Entry, Delete(e) PROVE CallInv'
  <2>1. UNCHANGED <<step, source, pre, cur, outcome, made>>
    BY <1>2 DEF Delete, past, call
  <2>2. CASE step = "idle"
    BY <1>0, <1>i, <2>1, <2>2, AtRest
  <2>3. CASE step = "walk" /\ source = NoName
    BY <1>0, <2>1, <2>3, Making DEF CallInv, Calls, Creating
  <2> QED
    BY <1>2, <2>2, <2>3 DEF Delete, Writable
<1>3. ASSUME Reconcile \/ Start \/ Stop \/ DiscardDb PROVE CallInv'
  BY <1>0, <1>3, <1>i, AtRest DEF Reconcile, Start, Stop, DiscardDb, call
<1>4. ASSUME NEW a \in 1..made, DeleteArchive(a) \/ Damage(a) PROVE CallInv'
  BY <1>0, <1>4, <1>i, AtRest DEF DeleteArchive, Damage, call
<1>5. ASSUME End \/ Crash PROVE CallInv'
  BY <1>0, <1>5, AtRest DEF End, Crash, Returned
<1>6. ASSUME StartCreate PROVE CallInv'
  BY <1>0, <1>6, <1>i, Making DEF StartCreate, Creating, past, call
<1>7. ASSUME SnapshotFails PROVE CallInv'
  BY <1>0, <1>7, GivesUp DEF SnapshotFails, Creating, past
<1>8. ASSUME CreateFails PROVE CallInv'
  BY <1>0, <1>8, GivesUp DEF CreateFails, Creating, past, disk
<1>9. ASSUME NEW a \in 1..made, StartRestore(a) PROVE CallInv'
  BY <1>0, <1>9, StartRestoreStep
<1>10. ASSUME NEW f \in Entry \cup {Journal}, WriteFile(f) PROVE CallInv'
  BY <1>0, <1>10, WriteFileStep
<1>11. ASSUME UNCHANGED vars PROVE CallInv'
  BY <1>0, <1>11 DEF vars, CallInv, Calls, Fallback, Exact, Untouched, Unpacking, Files, Overlaid, OutcomeTrue
<1> QED
  BY <1>0, <1>1, <1>2, <1>3, <1>4, <1>5, <1>6, <1>7, <1>8, <1>9, <1>10, <1>11,
     SnapshotStep, WalkStep, PublishStep, LogStep, RemoveDbStep, CopyDbStep, CheckDbStep, RecordStep,
     RestoreFailsStep DEF Next

-----------------------------------------------------------------------------
(* Theorems                                                                *)

\* The inductive invariant of the calls.
LEMMA CallInvariant == Spec => []CallInv
  BY InitCall, NextCall, PTL DEF Spec

\* Every reachable state of the backup machinery is well typed.
\* (createBackup and restoreBackup.)
THEOREM TypeCorrect == Spec => []TypeOK
<1>1. CallInv => TypeOK
  BY DEF CallInv
<1> QED
  BY CallInvariant, <1>1, PTL

\* A restore leaves what its outcome says, whatever failed on the way.
\* (restoreBackup and restoreFromArchive.)
THEOREM OutcomeIsTrue == Spec => []OutcomeTrue
<1>1. CallInv => OutcomeTrue
  BY DEF CallInv
<1> QED
  BY CallInvariant, <1>1, PTL

\* The backup a restore falls back on is exactly what the restore found.
\* (createBackup as restoreBackup calls it.)
THEOREM FallbackIsExact == Spec => []FallbackExact
<1>1. CallInv => FallbackExact
  BY DEF CallInv, Fallback, Exact, FallbackExact
<1> QED
  BY CallInvariant, <1>1, PTL

\* No step of a restore overwrites the last copy of a page.  (restoreFromArchive.)
THEOREM RestoreKeepsCopies == Spec => KeepsCopies
<1>1. ASSUME CallInv, step = "files", before.db # "none", NEW e \in Entry,
             pages[e] \notin {Absent, Torn, pages'[e]}
      PROVE  \E a \in 1..made : archive[a].whole /\ archive[a].pages[e] = pages[e]
  <2>1. /\ source \in 1..made /\ archive[source].whole
        /\ Exact(pre)
    BY <1>1, Archives DEF Restoring
  <2>2. pages[e] \in {before.pages[e], archive[source].pages[e], Torn}
    BY <1>1 DEF CallInv, Unpacking, Restoring
  <2>3. CASE pages[e] = before.pages[e]
    BY <2>1, <2>3 DEF Exact
  <2>4. CASE pages[e] = archive[source].pages[e]
    BY <2>1, <2>4
  <2> QED
    BY <1>1, <2>2, <2>3, <2>4
<1>2. CallInv => (step = "files" /\ before.db # "none" =>
          \A e \in Entry : pages[e] \notin {Absent, Torn, pages'[e]} =>
              \E a \in 1..made : archive[a].whole /\ archive[a].pages[e] = pages[e])
  BY <1>1
<1> QED
  BY CallInvariant, <1>2, PTL DEF KeepsCopies

-----------------------------------------------------------------------------
(* The list of archives                                                    *)

Damaged == {a \in 1..made : archive[a].listed /\ ~archive[a].whole}

\* No step but Damage adds to the damaged archives, and none takes faults back.
LEMMA DamagedGrows ==
    ASSUME CallInv, TypeOK', [Next]_vars
    PROVE  \/ Damaged' \subseteq Damaged /\ faults' >= faults
           \/ faults' = faults + 1 /\ \E a \in 1..made : Damaged' \subseteq Damaged \cup {a}
<1>0. /\ made \in 0..MaxArchives /\ archive \in [Name -> Archive]
      /\ made \in Nat /\ faults \in Nat /\ 1..made \subseteq Name
  BY DEF CallInv, TypeOK, Name
<1>1. ASSUME UNCHANGED past PROVE Damaged' = Damaged
  BY <1>1 DEF past, Damaged
<1>2. CASE Publish
  <2>1. made < MaxArchives /\ made' = made + 1 /\ made' \in Name
    BY <1>0, <1>2 DEF Publish, CallInv, Calls, Name
  <2>2. archive'[made'].whole /\ \A a \in 1..made : archive'[a] = archive[a]
    BY <1>0, <1>2, <2>1 DEF Publish
  <2>3. \A a \in 1..made' : a \in 1..made \/ a = made'
    BY <1>0, <2>1
  <2>4. Damaged' \subseteq Damaged
    BY <2>2, <2>3 DEF Damaged
  <2> QED
    BY <1>0, <1>2, <2>4 DEF Publish, limit
<1>3. ASSUME NEW a \in 1..made, DeleteArchive(a)
      PROVE  Damaged' \subseteq Damaged /\ faults' >= faults
  <2>1. /\ made' = made /\ faults' = faults
        /\ \A b \in 1..made : archive'[b].listed => archive'[b] = archive[b]
    BY <1>0, <1>3 DEF DeleteArchive, Lost, limit
  <2> QED
    BY <1>0, <2>1 DEF Damaged
<1>4. ASSUME NEW a \in 1..made, Damage(a)
      PROVE  Damaged' \subseteq Damaged \cup {a} /\ faults' = faults + 1
  <2>1. /\ made' = made /\ faults' = faults + 1
        /\ \A b \in 1..made : b # a => archive'[b] = archive[b]
    BY <1>0, <1>4 DEF Damage
  <2> QED
    BY <2>1 DEF Damaged
<1>5. CASE \/ \E e \in Entry : Write(e) \/ Delete(e)
           \/ Reconcile \/ Start \/ Stop
           \/ StartCreate \/ Snapshot \/ SnapshotFails \/ Walk \/ Log
           \/ \E a \in 1..made : StartRestore(a)
           \/ RemoveDb \/ CopyDb
           \/ \E f \in Entry \cup {Journal} : WriteFile(f)
           \/ CheckDb \/ Record \/ End \/ Crash \/ DiscardDb \/ UNCHANGED vars
  <2>1. UNCHANGED past /\ faults' = faults
    BY <1>5 DEF Write, Delete, Reconcile, Start, Stop, StartCreate, Snapshot, SnapshotFails, Walk,
         Log, StartRestore, RemoveDb, CopyDb, WriteFile, CheckDb, Record, End, Crash, DiscardDb,
         vars, limit, past
  <2> QED
    BY <1>0, <1>1, <2>1
<1>6. CASE CreateFails \/ RestoreFails
  <2>1. UNCHANGED past /\ faults' = faults + 1
    BY <1>6 DEF CreateFails, RestoreFails
  <2> QED
    BY <1>0, <1>1, <2>1
<1> QED
  BY <1>2, <1>3, <1>4, <1>5, <1>6 DEF Next

\* The list of backups has never more unreadable files than there were faults, whatever
\* crashed while backups were made.  (createBackup: write, then rename.)
THEOREM ListIsWhole == Spec => []ListedWhole
<1>1. TypeOK => Damaged \subseteq 1..made /\ IsFiniteSet(Damaged) /\ Cardinality(Damaged) \in Nat
  <2> SUFFICES ASSUME TypeOK
               PROVE  Damaged \subseteq 1..made /\ IsFiniteSet(Damaged) /\ Cardinality(Damaged) \in Nat
    OBVIOUS
  <2>1. made \in Int /\ Damaged \in SUBSET (1..made)
    BY DEF TypeOK, Damaged
  <2>2. IsFiniteSet(1..made)
    BY <2>1, FS_Interval
  <2> QED
    BY <2>1, <2>2, FS_Subset, FS_CardinalityType
<1>2. Init => ListedWhole
  <2> SUFFICES ASSUME Init PROVE Cardinality(Damaged) <= faults
    BY DEF ListedWhole, Damaged
  <2>1. Damaged = {} /\ faults = 0
    BY DEF Init, Damaged
  <2> QED
    BY <2>1, FS_EmptySet
<1>3. CallInv /\ TypeOK' /\ ListedWhole /\ [Next]_vars => ListedWhole'
  <2> SUFFICES ASSUME CallInv, TypeOK', ListedWhole, [Next]_vars
               PROVE  Cardinality(Damaged') <= faults'
    BY DEF ListedWhole, Damaged
  <2>1. /\ IsFiniteSet(Damaged) /\ Cardinality(Damaged) \in Nat /\ Cardinality(Damaged) <= faults
        /\ IsFiniteSet(Damaged') /\ Cardinality(Damaged') \in Nat /\ faults \in Nat /\ faults' \in Nat
    <3>1. TypeOK /\ Cardinality(Damaged) <= faults
      BY DEF CallInv, ListedWhole, Damaged
    <3>2. IsFiniteSet(Damaged') /\ Cardinality(Damaged') \in Nat
      <4>1. made' \in Int /\ Damaged' \in SUBSET (1..made')
        BY DEF TypeOK, Damaged
      <4>2. IsFiniteSet(1..made')
        BY <4>1, FS_Interval
      <4> QED
        BY <4>1, <4>2, FS_Subset, FS_CardinalityType
    <3> QED
      BY <1>1, <3>1, <3>2 DEF TypeOK
  <2>2. CASE Damaged' \subseteq Damaged /\ faults' >= faults
    <3>1. Cardinality(Damaged') <= Cardinality(Damaged)
      BY <2>1, <2>2, FS_Subset
    <3> QED
      BY <2>1, <2>2, <3>1
  <2>3. CASE faults' = faults + 1 /\ \E a \in 1..made : Damaged' \subseteq Damaged \cup {a}
    <3>1. PICK a \in 1..made : Damaged' \subseteq Damaged \cup {a}
      BY <2>3
    <3>2. IsFiniteSet(Damaged \cup {a}) /\ Cardinality(Damaged \cup {a}) <= Cardinality(Damaged) + 1
      BY <2>1, FS_AddElement, SMTT(30)
    <3>3. Cardinality(Damaged') <= Cardinality(Damaged \cup {a}) /\ Cardinality(Damaged \cup {a}) \in Nat
      BY <3>1, <3>2, FS_Subset, FS_CardinalityType
    <3> QED
      BY <2>1, <2>3, <3>2, <3>3
  <2> QED
    BY <2>2, <2>3, DamagedGrows
<1> QED
  BY CallInvariant, TypeCorrect, <1>2, <1>3, PTL DEF Spec

=============================================================================

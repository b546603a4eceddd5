---------------------------- MODULE MemoryStore ----------------------------
(***************************************************************************)
(* The markdown pages and the SQLite index MemoryStore derives from them   *)
(* (src/core/infrastructure/store.ts, src/core/application/wiki.ts).       *)
(*                                                                         *)
(* Pages are the source of truth; rows, their fingerprints and the         *)
(* full-text table are derived.  A write is a sequence of file and         *)
(* database steps a crash may cut anywhere; people edit, move and remove   *)
(* page files behind the store's back; a reconcile pass brings the index   *)
(* back in line.                                                           *)
(***************************************************************************)
EXTENDS Naturals, FiniteSets

CONSTANTS
    Id,         \* entry ids
    Name,       \* names of page files: one made for each id, and others
    Kind,       \* kinds; a kind is also the directory of its pages
    Flat,       \* the base directory, where the old flat layout kept pages
    Text,       \* bodies (the text, title and every other field)
    ExtKey,     \* external import keys
    NoKey,      \* an entry without external key
    None,       \* no page, no row, no path, no text
    Junk,       \* a page file whose frontmatter cannot be decoded
    PageOrder,  \* the order in which a pass enumerates page files
    MaxEdits,   \* bound on outside changes of pages and lost databases
    MaxCrashes  \* bound on crashes

Dir  == Kind \cup {Flat}
Path == Dir \X Name
Key  == ExtKey \cup {NoKey}
Page == [id : Id, kind : Kind, text : Text, key : Key]
Row  == [kind : Kind, text : Text, key : Key, path : Path,
         fp : {"none", "stale", "fresh"}]

\* A listing is finite, so every set of paths has a last one.
ASSUME StoreAssumption ==
    /\ Flat \notin Kind
    /\ Id \subseteq Name
    /\ NoKey \notin ExtKey
    /\ None # Junk /\ None \notin Text /\ None \notin Id
    /\ None \notin Page /\ None \notin Row /\ None \notin Path
    /\ Junk \notin Page
    /\ PageOrder \in [Path -> Nat]
    /\ \A p, q \in Path : PageOrder[p] = PageOrder[q] => p = q
    /\ \A P \in SUBSET Path : P # {} => \E p \in P : \A q \in P : PageOrder[q] <= PageOrder[p]
    /\ MaxEdits \in Nat /\ MaxCrashes \in Nat

VARIABLES
    pages,  \* Path -> page file
    rows,   \* Id -> row of table memories; fp compares its fingerprint with the file
    fts,    \* Id -> text the full-text table holds for the id
    ready,  \* the open handle has done its start-up scan
    op,     \* the write in progress
    acked,  \* Id -> texts a caller may rely on (history: {} is no promise)
    sole,   \* ids that had one page when their last write returned (history)
    edits,  \* outside changes so far
    crashes \* crashes so far

vars == <<pages, rows, fts, ready, op, acked, sole, edits, crashes>>

Idle == [pc |-> "idle", id |-> None, page |-> None, prev |-> None]

Op == [pc : {"idle", "write", "unlink", "row", "fts", "del", "delrow", "delfts"},
       id : Id \cup {None}, page : Page \cup {None}, prev : Path \cup {None}]

TypeOK ==
    /\ pages \in [Path -> Page \cup {None, Junk}]
    /\ rows \in [Id -> Row \cup {None}]
    /\ fts \in [Id -> Text \cup {None}]
    /\ ready \in BOOLEAN
    /\ op \in Op
    /\ (op.pc # "idle") => op.id \in Id
    /\ (op.pc \in {"write", "unlink", "row", "fts"}) => op.page \in Page
    /\ acked \in [Id -> SUBSET Text]
    /\ sole \in SUBSET Id
    /\ edits \in 0..MaxEdits
    /\ crashes \in 0..MaxCrashes

-----------------------------------------------------------------------------
(* Helpers *)

IsPage(g)   == g \notin {None, Junk}
Indexed     == {i \in Id : rows[i] # None}
Target(g)   == <<g.kind, g.id>>                       \* entryPathFor
Owner(k)    == {i \in Indexed : k # NoKey /\ rows[i].key = k}
Listed(pg)  == {p \in Path : pg[p] # None}
Decodable(pg) == {p \in Path : IsPage(pg[p])}
Holders(pg, P, i) == {p \in P : pg[p].id = i}
Last(S)     == CHOOSE p \in S : \A q \in S : PageOrder[q] <= PageOrder[p]

\* p is the first page of P, in enumeration order, to claim its key.
FirstClaim(pg, P, p) ==
    \A q \in P : pg[q].key = pg[p].key => PageOrder[p] <= PageOrder[q]

\* writeRow: the row of page g read from (or just written to) path p.
RowFor(g, p, keyed) ==
    [kind |-> g.kind, text |-> g.text, key |-> IF keyed THEN g.key ELSE NoKey,
     path |-> p, fp |-> "fresh"]

\* Rows whose file was rewritten, moved or removed no longer match its stat.
Outdate(P) ==
    [i \in Id |-> IF rows[i] # None /\ rows[i].path \in P /\ rows[i].fp = "fresh"
                  THEN [rows[i] EXCEPT !.fp = "stale"] ELSE rows[i]]

-----------------------------------------------------------------------------
(* The flat layout: <base>/<name>.md moves to <base>/<kind>/<name>.md      *)
(* unless its frontmatter is unreadable or the target exists.              *)

Movable ==
    {n \in Name : /\ IsPage(pages[<<Flat, n>>])
                  /\ pages[<<pages[<<Flat, n>>].kind, n>>] = None}

Migrated(S) ==
    [p \in Path |->
        IF p[2] \notin S THEN pages[p]
        ELSE IF p[1] = Flat THEN None
        ELSE IF pages[<<Flat, p[2]>>].kind = p[1] THEN pages[<<Flat, p[2]>>]
        ELSE pages[p]]

-----------------------------------------------------------------------------
(* reindexFromDisk: empty the tables and insert every decodable page; of   *)
(* two pages with one id the last wins, of two with one key the first.     *)

RebuiltRows(pg) ==
    LET D == Decodable(pg) IN
    [i \in Id |->
        IF Holders(pg, D, i) = {} THEN None
        ELSE LET p == Last(Holders(pg, D, i)) IN RowFor(pg[p], p, FirstClaim(pg, D, p))]

RebuiltFts(pg) ==
    LET D == Decodable(pg) IN
    [i \in Id |-> IF Holders(pg, D, i) = {} THEN None ELSE pg[Last(Holders(pg, D, i))].text]

-----------------------------------------------------------------------------
(* reconcileFromDisk: pg is the disk after the flat pages moved, rs the    *)
(* rows, at maps each stored path to the row the pass remembers for it,    *)
(* and D holds the pages the time budget left unread.                      *)

StoredPaths(rs) == {rs[i].path : i \in {j \in Id : rs[j] # None}}

StoredMaps(rs) ==
    {at \in [StoredPaths(rs) -> Id] :
        \A p \in StoredPaths(rs) : rs[at[p]] # None /\ rs[at[p]].path = p}

\* Mutant of Unchanged: any page with a row counts as unchanged.
UnchangedByPath(rs, at) == DOMAIN at

Unchanged(rs, at) == {p \in DOMAIN at : rs[at[p]].fp = "fresh"}

ReadPages(pg, rs, at, D) == Decodable(pg) \ (D \cup Unchanged(rs, at))

SameData(g, r) == g.kind = r.kind /\ g.text = r.text /\ g.key = r.key

Refreshed(pg, rs, at, D) ==
    {p \in ReadPages(pg, rs, at, D) :
        p \in DOMAIN at /\ at[p] = pg[p].id /\ SameData(pg[p], rs[at[p]])}

Pending(pg, rs, at, D) == ReadPages(pg, rs, at, D) \ Refreshed(pg, rs, at, D)

Removals(pg, at) == {at[p] : p \in DOMAIN at \ Listed(pg)}

\* Keys owned by a row whose page is still listed.
SeenKeys(pg, rs) ==
    {rs[i].key : i \in {j \in Id : rs[j] # None /\ rs[j].path \in Listed(pg)}} \ {NoKey}

\* Mutant of KeepsKey: of two pending pages both keep the key they claim.
KeepsClaimedKey(pg, rs, P, p) == pg[p].key # NoKey /\ pg[p].key \notin SeenKeys(pg, rs)

\* A pending page is written with its key when no listed row owns the key and
\* the page is the first pending one to claim it.
KeepsKey(pg, rs, P, p) ==
    pg[p].key # NoKey /\ pg[p].key \notin SeenKeys(pg, rs) /\ FirstClaim(pg, P, p)

ReconciledRows(pg, rs, at, D) ==
    LET P == Pending(pg, rs, at, D)
        F == Refreshed(pg, rs, at, D)
        Taken(i) == \E p \in P : /\ KeepsKey(pg, rs, P, p)
                                 /\ pg[p].key = rs[i].key /\ pg[p].id # i
    IN [i \in Id |->
          IF i \in Removals(pg, at) THEN None
          ELSE IF Holders(pg, P, i) # {}
               THEN LET p == Last(Holders(pg, P, i))
                    IN RowFor(pg[p], p, KeepsKey(pg, rs, P, p))
          ELSE IF rs[i] = None \/ rs[i].path \in P THEN None
          ELSE [rs[i] EXCEPT !.key = IF Taken(i) THEN NoKey ELSE @,
                             !.fp = IF \E p \in F : at[p] = i THEN "fresh" ELSE @]]

\* Mutant of ReconciledFts: only pages new to the index are entered.
ReconciledFtsOfAdded(pg, rs, at, D) ==
    LET P == Pending(pg, rs, at, D)
    IN [i \in Id |->
          IF i \in Removals(pg, at) THEN None
          ELSE IF rs[i] = None /\ Holders(pg, P, i) # {} THEN pg[Last(Holders(pg, P, i))].text
          ELSE fts[i]]

ReconciledFts(pg, rs, at, D) ==
    LET P == Pending(pg, rs, at, D)
    IN [i \in Id |->
          IF i \in Removals(pg, at) THEN None
          ELSE IF Holders(pg, P, i) # {} THEN pg[Last(Holders(pg, P, i))].text
          ELSE fts[i]]

\* A database without a single fingerprint is rebuilt instead.
Unfingerprinted(rs) ==
    /\ \E i \in Id : rs[i] # None
    /\ \A i \in Id : rs[i] # None => rs[i].fp = "none"

Moved(S) == {<<Flat, n>> : n \in S} \cup {<<pages[<<Flat, n>>].kind, n>> : n \in S}

\* What one pass over the disk makes of the derived tables once the flat pages
\* have moved, D left unread.
Disk == Migrated(Movable)

\* Mutant of Outcomes: a page left unread counts as a page that is gone.
OutcomesForgettingDeferred(D) ==
    LET rs == Outdate(Moved(Movable))
        pg == [p \in Path |-> IF p \in D THEN None ELSE Disk[p]]
    IN {[rows |-> ReconciledRows(pg, rs, at, {}), fts |-> ReconciledFts(pg, rs, at, {})] :
           at \in StoredMaps(rs)}

Outcomes(D) ==
    LET rs == Outdate(Moved(Movable))
    IN IF Unfingerprinted(rows)
       THEN {[rows |-> RebuiltRows(Disk), fts |-> RebuiltFts(Disk)]}
       ELSE {[rows |-> ReconciledRows(Disk, rs, at, D), fts |-> ReconciledFts(Disk, rs, at, D)] :
                at \in StoredMaps(rs)}

Pass(D) ==
    /\ pages' = Disk
    /\ \E o \in Outcomes(D) : rows' = o.rows /\ fts' = o.fts

\* Pages a pass leaves unread: none, or all from the one where the budget ran
\* out to the end of the enumeration.
Suffixes == {{q \in Path : PageOrder[q] >= PageOrder[p]} : p \in Listed(Disk)}
Budgets  == Suffixes \cup {{}}

Rebuild ==
    /\ pages' = Disk
    /\ rows' = RebuiltRows(Disk)
    /\ fts' = RebuiltFts(Disk)

-----------------------------------------------------------------------------
(* Initial states: a new storage root, or one an older version left: a    *)
(* flat page and, unless the database was lost, its row.                   *)

LegacyPage(i, g) == [p \in Path |-> IF p = <<Flat, i>> THEN g ELSE None]

Init ==
    /\ ready = FALSE
    /\ op = Idle
    /\ acked = [i \in Id |-> {}]
    /\ sole = {}
    /\ edits = 0 /\ crashes = 0
    /\ \/ /\ pages = [p \in Path |-> None]
          /\ rows = [i \in Id |-> None]
       \/ \E g \in Page, fp \in {"none", "lost"} :
             /\ pages = LegacyPage(g.id, g)
             /\ rows = [i \in Id |->
                          IF i = g.id /\ fp # "lost"
                          THEN [RowFor(g, <<Flat, i>>, TRUE) EXCEPT !.fp = fp]
                          ELSE None]
    /\ fts = [i \in Id |-> IF rows[i] = None THEN None ELSE rows[i].text]

-----------------------------------------------------------------------------
(* The store's own operations.  Each runs to its end without interleaving  *)
(* (the code is synchronous); its steps are separate so a crash can fall   *)
(* between them.                                                           *)

\* Mutant of EnsureReady: an empty index is taken for an empty store.
EnsureReadyWithoutRebuild ==
    /\ op = Idle /\ ~ready
    /\ IF Movable # {} THEN \E D \in Budgets : Pass(D) ELSE UNCHANGED <<pages, rows, fts>>
    /\ ready' = TRUE
    /\ UNCHANGED <<op, acked, sole, edits, crashes>>

\* ensureReady: runs before the first operation of an open handle.
EnsureReady ==
    /\ op = Idle /\ ~ready
    /\ IF Indexed = {} THEN Rebuild
       ELSE IF Movable # {} THEN \E D \in Budgets : Pass(D)
       ELSE UNCHANGED <<pages, rows, fts>>
    /\ ready' = TRUE
    /\ UNCHANGED <<op, acked, sole, edits, crashes>>

\* An id nothing on disk or in the index knows: genMemoryId.
Unused(i) ==
    /\ i \notin Indexed
    /\ \A p \in Decodable(pages) : p[2] # i /\ pages[p].id # i
    /\ \A j \in Indexed : rows[j].path[2] # i

\* The first half of upsert: g is what the caller passes, a new entry or a
\* patched copy of its row.  A taken key redirects the write to its owner, and
\* the page the incoming id would have had is removed.
UpsertBegin(g) ==
    LET id   == IF Owner(g.key) \ {g.id} = {} THEN g.id
                ELSE CHOOSE i \in Owner(g.key) : TRUE
        next == [g EXCEPT !.id = id,
                          !.key = IF @ = NoKey /\ rows[id] # None THEN rows[id].key ELSE @]
    IN /\ op = Idle /\ ready
       /\ Unused(g.id) \/ (g.id \in Indexed /\ g.key \in {NoKey, rows[g.id].key})
       /\ pages' = IF id # g.id THEN [pages EXCEPT ![Target(g)] = None] ELSE pages
       /\ rows' = IF id # g.id THEN Outdate({Target(g)}) ELSE rows
       /\ op' = [pc |-> "write", id |-> id, page |-> next,
                 prev |-> IF rows[id] = None THEN None ELSE rows[id].path]
       /\ acked' = [acked EXCEPT ![id] = IF @ = {} THEN {} ELSE @ \cup {next.text}]
       /\ UNCHANGED <<fts, ready, sole, edits, crashes>>

\* Mutant of UpsertWrite: the previous page goes before the new one exists.
UpsertUnlinkFirst ==
    /\ op.pc = "write"
    /\ pages' = IF op.prev = None THEN pages ELSE [pages EXCEPT ![op.prev] = None]
    /\ rows' = IF op.prev = None THEN rows ELSE Outdate({op.prev})
    /\ op' = [op EXCEPT !.pc = "unlink"]
    /\ UNCHANGED <<fts, ready, acked, sole, edits, crashes>>

\* writeItemPage: the new page replaces the file in one rename.
UpsertWrite ==
    /\ op.pc = "write"
    /\ pages' = [pages EXCEPT ![Target(op.page)] = op.page]
    /\ rows' = Outdate({Target(op.page)})
    /\ op' = [op EXCEPT !.pc = "unlink"]
    /\ UNCHANGED <<fts, ready, acked, sole, edits, crashes>>

\* The page under the previous kind or title goes only after the new one exists.
UpsertUnlink ==
    /\ op.pc = "unlink"
    /\ IF op.prev \notin {None, Target(op.page)}
       THEN /\ pages' = [pages EXCEPT ![op.prev] = None]
            /\ rows' = Outdate({op.prev})
       ELSE UNCHANGED <<pages, rows>>
    /\ op' = [op EXCEPT !.pc = "row"]
    /\ UNCHANGED <<fts, ready, acked, sole, edits, crashes>>

UpsertRow ==
    /\ op.pc = "row"
    /\ rows' = [rows EXCEPT ![op.id] = RowFor(op.page, Target(op.page), TRUE)]
    /\ op' = [op EXCEPT !.pc = "fts"]
    /\ UNCHANGED <<pages, fts, ready, acked, sole, edits, crashes>>

\* syncFts, then upsert returns: the caller may rely on the text.
UpsertFts ==
    /\ op.pc = "fts"
    /\ fts' = [fts EXCEPT ![op.id] = op.page.text]
    /\ acked' = [acked EXCEPT ![op.id] = {op.page.text}]
    /\ sole' = IF Holders(pages, Decodable(pages), op.id) = {Target(op.page)}
               THEN sole \cup {op.id} ELSE sole \ {op.id}
    /\ op' = Idle
    /\ UNCHANGED <<pages, rows, ready, edits, crashes>>

DeleteBegin(i) ==
    /\ op = Idle /\ ready
    /\ i \in Indexed
    /\ op' = [Idle EXCEPT !.pc = "del", !.id = i, !.prev = rows[i].path]
    /\ acked' = [acked EXCEPT ![i] = {}]
    /\ UNCHANGED <<pages, rows, fts, ready, sole, edits, crashes>>

DeletePage ==
    /\ op.pc = "del"
    /\ pages' = [pages EXCEPT ![op.prev] = None]
    /\ rows' = Outdate({op.prev})
    /\ op' = [op EXCEPT !.pc = "delrow"]
    /\ UNCHANGED <<fts, ready, acked, sole, edits, crashes>>

DeleteRow ==
    /\ op.pc = "delrow"
    /\ rows' = [rows EXCEPT ![op.id] = None]
    /\ op' = [op EXCEPT !.pc = "delfts"]
    /\ UNCHANGED <<pages, fts, ready, acked, sole, edits, crashes>>

DeleteFts ==
    /\ op.pc = "delfts"
    /\ fts' = [fts EXCEPT ![op.id] = None]
    /\ op' = Idle
    /\ UNCHANGED <<pages, rows, ready, acked, sole, edits, crashes>>

\* reconcileFromDisk, complete or cut short by the budget of the directory; its
\* caller heal has listed the entries, so the handle is ready.
Reconcile ==
    /\ op = Idle /\ ready
    /\ Pass({})
    /\ UNCHANGED <<ready, op, acked, sole, edits, crashes>>

ReconcileDeferred ==
    /\ op = Idle /\ ready
    /\ \E D \in Suffixes : Pass(D)
    /\ UNCHANGED <<ready, op, acked, sole, edits, crashes>>

Reindex ==
    /\ op = Idle
    /\ Rebuild
    /\ ready' = TRUE
    /\ UNCHANGED <<op, acked, sole, edits, crashes>>

Close ==
    /\ op = Idle /\ ready
    /\ ready' = FALSE
    /\ UNCHANGED <<pages, rows, fts, op, acked, sole, edits, crashes>>

-----------------------------------------------------------------------------
(* Crashes and what people do to the files, at most so many of each.       *)

Dies    == crashes < MaxCrashes /\ crashes' = crashes + 1 /\ UNCHANGED edits
Outside == edits < MaxEdits /\ edits' = edits + 1 /\ UNCHANGED crashes

\* The process dies; an unfinished write stays half done.
Crash ==
    /\ Dies
    /\ op # Idle
    /\ op' = Idle
    /\ ready' = FALSE
    /\ UNCHANGED <<pages, rows, fts, acked, sole>>

\* The process dies while a pass is still moving flat pages.
CrashInMigration ==
    /\ Dies
    /\ op = Idle
    /\ \E S \in SUBSET Movable :
          /\ S # {}
          /\ pages' = Migrated(S)
          /\ rows' = Outdate(Moved(S))
    /\ ready' = FALSE
    /\ UNCHANGED <<fts, op, acked, sole>>

\* The database file is removed while no process has it open.
LoseDatabase ==
    /\ Outside
    /\ op = Idle /\ ~ready
    /\ rows' = [i \in Id |-> None]
    /\ fts' = [i \in Id |-> None]
    /\ UNCHANGED <<pages, ready, op, acked, sole>>

\* Ids whose pages an outside change of files P touches: nothing is promised
\* about them any more.
Disown(P, S) ==
    acked' = [i \in Id |-> IF i \in S \/ \E p \in P : IsPage(pages[p]) /\ pages[p].id = i
                           THEN {} ELSE acked[i]]

\* People put any entry into a file of any name, except that a file made for
\* one entry of the store does not come to hold another.
MayHold(p, i) == p[2] \in Id => p[2] = i

\* Somebody edits, creates, breaks or touches a page file.
EditPage(p, g) ==
    /\ Outside
    /\ op = Idle
    /\ IsPage(g) => MayHold(p, g.id)
    /\ pages' = [pages EXCEPT ![p] = g]
    /\ rows' = Outdate({p})
    /\ Disown({p}, IF IsPage(g) THEN {g.id} ELSE {})
    /\ UNCHANGED <<fts, ready, op, sole>>

RemovePage(p) ==
    /\ Outside
    /\ op = Idle
    /\ pages[p] # None
    /\ pages' = [pages EXCEPT ![p] = None]
    /\ rows' = Outdate({p})
    /\ Disown({p}, {})
    /\ UNCHANGED <<fts, ready, op, sole>>

RenamePage(p, q) ==
    /\ Outside
    /\ op = Idle
    /\ p # q /\ pages[p] # None
    /\ IsPage(pages[p]) => MayHold(q, pages[p].id)
    /\ pages' = [pages EXCEPT ![q] = pages[p], ![p] = None]
    /\ rows' = Outdate({p, q})
    /\ Disown({p, q}, {})
    /\ UNCHANGED <<fts, ready, op, sole>>

Step ==
    \/ EnsureReady
    \/ \E g \in Page : UpsertBegin(g)
    \/ UpsertWrite \/ UpsertUnlink \/ UpsertRow \/ UpsertFts
    \/ \E i \in Id : DeleteBegin(i)
    \/ DeletePage \/ DeleteRow \/ DeleteFts
    \/ Reconcile \/ ReconcileDeferred \/ Reindex \/ Close

Interference ==
    \/ Crash \/ CrashInMigration \/ LoseDatabase
    \/ \E p \in Path, g \in Page \cup {Junk} : EditPage(p, g)
    \/ \E p \in Path : RemovePage(p)
    \/ \E p, q \in Path : RenamePage(p, q)

Next == Step \/ Interference

Spec == Init /\ [][Next]_vars

-----------------------------------------------------------------------------
(* Properties                                                              *)

\* Rows whose page is still where the row says, or exists nowhere.
Unmoved(pg) ==
    \A i \in Indexed : rows[i].path \in Listed(pg) \/ Holders(pg, Decodable(pg), i) = {}

\* Row r of i says what the page at its path says; a page that no longer
\* decodes keeps its last row, and a key lost to another claimant is blank.
RowMatches(pg, i, r) ==
    LET g == pg[r.path]
    IN \/ g = Junk
       \/ IsPage(g) /\ g.id = i /\ g.kind = r.kind /\ g.text = r.text /\ r.key \in {g.key, NoKey}

Agree(pg, rs) ==
    /\ \A i \in Id : rs[i] # None => RowMatches(pg, i, rs[i])
    /\ \A p \in Decodable(pg) : rs[pg[p].id] # None

\* heal may run a pass from here.
PassMayRun == op = Idle /\ ready

\* What upsert acknowledged stays on disk through crashes, flat-layout moves,
\* later writes of the same entry cut anywhere, and writes of other entries:
\* the new page exists before the old one is removed, and nothing else in the
\* store removes or overwrites a page it did not write for that id.
AckedOnDisk ==
    \A i \in Id : acked[i] # {} =>
        \E p \in Decodable(pages) : pages[p].id = i /\ pages[p].text \in acked[i]

\* A store that is ready answers from its index with an acknowledged text of
\* every acknowledged entry, after a restart, a lost database, a flat-layout
\* move, a pass cut short or outside edits of other pages, as long as no write
\* was cut by a crash and the entry had no second page when its write returned.
AckedIsIndexed ==
    ready /\ op = Idle /\ crashes = 0 =>
        \A i \in sole : acked[i] # {} => i \in Indexed /\ rows[i].text \in acked[i]

\* No two rows own one external key: the redirect in upsert and the key
\* arbitration of both scans never make SQLite refuse a row on its unique
\* ext_key index.
ExtKeyUnique ==
    \A i, j \in Indexed : rows[i].key = rows[j].key /\ i # j => rows[i].key = NoKey

\* As long as no crash has cut a write, full-text search finds every row by
\* its present text, through writes, deletes, rebuilds, passes cut by their
\* budget, key redirects and a lost database (syncFts and both scans).
FtsFollows ==
    op = Idle /\ crashes = 0 => \A i \in Indexed : fts[i] = rows[i].text

\* One complete pass leaves the index in agreement with the disk, whatever was
\* edited, half written, deleted or lost before it, and also where an id has
\* several pages, as long as no page changed its path.
ReconcileAgrees ==
    PassMayRun /\ Unmoved(Disk) =>
        \A o \in Outcomes({}) : Agree(Disk, o.rows)

\* A pass cut short by its time budget still drops every row whose page is
\* gone, and never drops the row of an entry that is in the file it was read
\* from.
DeferredKeepsListed ==
    PassMayRun /\ Unmoved(Disk) =>
        \A D \in Suffixes : \A o \in Outcomes(D) : \A i \in Indexed :
            LET g == Disk[rows[i].path]
            IN /\ g = None => o.rows[i] = None
               /\ IsPage(g) /\ g.id = i => o.rows[i] # None

=============================================================================

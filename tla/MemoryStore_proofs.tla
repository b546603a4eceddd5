------------------------- MODULE MemoryStore_proofs -------------------------
(***************************************************************************)
(* Proofs about MemoryStore, for every set of ids, names, kinds, texts and *)
(* external keys, every order of enumeration and any number of edits and   *)
(* crashes.                                                                *)
(***************************************************************************)
EXTENDS MemoryStore, TLAPS

Files == [Path -> Page \cup {None, Junk}]
Rows  == [Id -> Row \cup {None}]
Texts == [Id -> Text \cup {None}]

-----------------------------------------------------------------------------
(* The operators the actions are made of.                                  *)

\* A nonempty set of paths has a last member in the order of enumeration.
LEMMA LastMember ==
    ASSUME NEW P \in SUBSET Path, P # {}
    PROVE  Last(P) \in P
BY StoreAssumption DEF StoreAssumption, Last

\* A path that holds a page holds one.
LEMMA Decoded ==
    ASSUME NEW pg \in Files, NEW p \in Decodable(pg)
    PROVE  p \in Path /\ pg[p] \in Page
BY DEF Files, Decodable, IsPage

\* Outdate changes fingerprints and nothing else.
LEMMA OutdateRows ==
    ASSUME rows \in Rows, NEW P
    PROVE  /\ Outdate(P) \in Rows
           /\ \A i \in Id : /\ Outdate(P)[i] = None <=> rows[i] = None
                            /\ rows[i] # None => /\ Outdate(P)[i].key = rows[i].key
                                                 /\ Outdate(P)[i].path = rows[i].path
                                                 /\ Outdate(P)[i].text = rows[i].text
<1>1. ASSUME NEW i \in Id, rows[i] # None
      PROVE  /\ rows[i] \in Row
             /\ [rows[i] EXCEPT !.fp = "stale"] \in Row
             /\ [rows[i] EXCEPT !.fp = "stale"].key = rows[i].key
             /\ [rows[i] EXCEPT !.fp = "stale"].path = rows[i].path
             /\ [rows[i] EXCEPT !.fp = "stale"].text = rows[i].text
  BY <1>1 DEF Rows, Row
<1>2. None \notin Row  BY StoreAssumption DEF StoreAssumption
<1> QED  BY <1>1, <1>2 DEF Outdate, Rows

\* The row of a page is a row.
LEMMA RowForRow ==
    ASSUME NEW g \in Page, NEW p \in Path, NEW keyed \in BOOLEAN
    PROVE  RowFor(g, p, keyed) \in Row
BY DEF RowFor, Page, Row, Key

\* Moving flat pages leaves files.
LEMMA MigratedFiles ==
    ASSUME pages \in Files, NEW S \in SUBSET Name
    PROVE  Migrated(S) \in Files
BY DEF Migrated, Files, Path, Dir

\* The page a holder set of i picks: one of the set, and it holds i.
LEMMA LastHolder ==
    ASSUME NEW pg \in Files, NEW P \in SUBSET Decodable(pg), NEW i \in Id, Holders(pg, P, i) # {}
    PROVE  LET p == Last(Holders(pg, P, i))
           IN p \in P /\ p \in Path /\ pg[p] \in Page /\ pg[p].id = i
<1>1. Holders(pg, P, i) \in SUBSET Path  BY DEF Holders, Decodable
<1>2. Last(Holders(pg, P, i)) \in Holders(pg, P, i)  BY <1>1, LastMember
<1> QED  BY <1>2, Decoded DEF Holders

\* A full rebuild makes rows and texts.
LEMMA RebuiltTypes ==
    ASSUME NEW pg \in Files
    PROVE  RebuiltRows(pg) \in Rows /\ RebuiltFts(pg) \in Texts
<1> DEFINE D == Decodable(pg)
<1>1. ASSUME NEW i \in Id, Holders(pg, D, i) # {}
      PROVE  /\ RowFor(pg[Last(Holders(pg, D, i))], Last(Holders(pg, D, i)),
                       FirstClaim(pg, D, Last(Holders(pg, D, i)))) \in Row
             /\ pg[Last(Holders(pg, D, i))].text \in Text
  <2>1. FirstClaim(pg, D, Last(Holders(pg, D, i))) \in BOOLEAN  BY DEF FirstClaim
  <2> HIDE DEF D
  <2>2. D \in SUBSET Decodable(pg)  BY DEF D
  <2>3. Last(Holders(pg, D, i)) \in Path /\ pg[Last(Holders(pg, D, i))] \in Page
    BY <1>1, <2>2, LastHolder
  <2> QED  BY <2>1, <2>3, RowForRow DEF Page
<1> QED  BY <1>1 DEF RebuiltRows, RebuiltFts, Rows, Texts

\* So does a pass.
LEMMA ReconciledTypes ==
    ASSUME NEW pg \in Files, NEW rs \in Rows, NEW at, NEW D, fts \in Texts
    PROVE  ReconciledRows(pg, rs, at, D) \in Rows /\ ReconciledFts(pg, rs, at, D) \in Texts
<1> DEFINE P == Pending(pg, rs, at, D)
<1>1. P \in SUBSET Decodable(pg)  BY DEF Pending, ReadPages
<1> HIDE DEF P
<1>2. ASSUME NEW i \in Id, Holders(pg, P, i) # {}
      PROVE  LET p == Last(Holders(pg, P, i))
             IN RowFor(pg[p], p, KeepsKey(pg, rs, P, p)) \in Row /\ pg[p].text \in Text
  <2>1. KeepsKey(pg, rs, P, Last(Holders(pg, P, i))) \in BOOLEAN  BY DEF KeepsKey, FirstClaim
  <2>2. Last(Holders(pg, P, i)) \in Path /\ pg[Last(Holders(pg, P, i))] \in Page
    BY <1>1, <1>2, LastHolder
  <2> QED  BY <2>1, <2>2, RowForRow DEF Page
<1>3. ASSUME NEW i \in Id, rs[i] # None, NEW k \in {NoKey, rs[i].key}, NEW f \in {"fresh", rs[i].fp}
      PROVE  [rs[i] EXCEPT !.key = k, !.fp = f] \in Row
  BY <1>3 DEF Rows, Row, Key
<1>4. ReconciledRows(pg, rs, at, D) \in Rows
  BY <1>2, <1>3 DEF ReconciledRows, Rows, P
<1>5. ReconciledFts(pg, rs, at, D) \in Texts
  BY <1>2 DEF ReconciledFts, Texts, P
<1> QED  BY <1>4, <1>5

\* A pass from a typed state leaves a typed disk, typed rows and typed texts.
LEMMA PassTypes ==
    ASSUME TypeOK, NEW D, Pass(D)
    PROVE  pages' \in Files /\ rows' \in Rows /\ fts' \in Texts
<1>1. pages \in Files /\ rows \in Rows /\ fts \in Texts  BY DEF TypeOK, Files, Rows, Texts
<1>2. Movable \in SUBSET Name  BY DEF Movable
<1>3. Disk \in Files  BY <1>1, <1>2, MigratedFiles DEF Disk
<1>4. Outdate(Moved(Movable)) \in Rows  BY <1>1, OutdateRows
<1>5. PICK o \in Outcomes(D) : rows' = o.rows /\ fts' = o.fts  BY DEF Pass
<1>6. o.rows \in Rows /\ o.fts \in Texts
  <2>1. CASE Unfingerprinted(rows)
    BY <1>3, <1>5, <2>1, RebuiltTypes DEF Outcomes
  <2>2. CASE ~Unfingerprinted(rows)
    <3>1. PICK at \in StoredMaps(Outdate(Moved(Movable))) :
              o = [rows |-> ReconciledRows(Disk, Outdate(Moved(Movable)), at, D),
                   fts  |-> ReconciledFts(Disk, Outdate(Moved(Movable)), at, D)]
      BY <1>5, <2>2 DEF Outcomes
    <3> QED  BY <1>1, <1>3, <1>4, <3>1, ReconciledTypes
  <2> QED  BY <2>1, <2>2
<1> QED  BY <1>3, <1>5, <1>6 DEF Pass

\* So does a rebuild.
LEMMA RebuildTypes ==
    ASSUME TypeOK, Rebuild
    PROVE  pages' \in Files /\ rows' \in Rows /\ fts' \in Texts
<1>1. pages \in Files  BY DEF TypeOK, Files
<1>2. Movable \in SUBSET Name  BY DEF Movable
<1>3. Disk \in Files  BY <1>1, <1>2, MigratedFiles DEF Disk
<1> QED  BY <1>3, RebuiltTypes DEF Rebuild

\* The page of an entry has a path.
LEMMA TargetPath ==
    ASSUME NEW g \in Page
    PROVE  Target(g) \in Path
BY StoreAssumption DEF StoreAssumption, Target, Page, Path, Dir

-----------------------------------------------------------------------------
(* Type correctness.                                                       *)

\* The state types hold initially and no action leaves them.
THEOREM TypeCorrect == Spec => []TypeOK
<1>1. Init => TypeOK
  <2> SUFFICES ASSUME Init PROVE TypeOK
    OBVIOUS
  <2>1. edits \in 0..MaxEdits /\ crashes \in 0..MaxCrashes
    BY StoreAssumption DEF StoreAssumption, Init
  <2>2. pages \in Files /\ rows \in Rows
    <3>1. CASE /\ pages = [p \in Path |-> None]
               /\ rows = [i \in Id |-> None]
      BY <3>1 DEF Files, Rows
    <3>2. CASE \E g \in Page, fp \in {"none", "lost"} :
                  /\ pages = LegacyPage(g.id, g)
                  /\ rows = [i \in Id |->
                               IF i = g.id /\ fp # "lost"
                               THEN [RowFor(g, <<Flat, i>>, TRUE) EXCEPT !.fp = fp]
                               ELSE None]
      <4>1. PICK g \in Page, fp \in {"none", "lost"} :
                  /\ pages = LegacyPage(g.id, g)
                  /\ rows = [i \in Id |->
                               IF i = g.id /\ fp # "lost"
                               THEN [RowFor(g, <<Flat, i>>, TRUE) EXCEPT !.fp = fp]
                               ELSE None]
        BY <3>2
      <4>2. ASSUME NEW i \in Id, fp # "lost"
            PROVE  [RowFor(g, <<Flat, i>>, TRUE) EXCEPT !.fp = fp] \in Row
        <5>1. <<Flat, i>> \in Path  BY StoreAssumption DEF StoreAssumption, Path, Dir
        <5>2. RowFor(g, <<Flat, i>>, TRUE) \in Row  BY <5>1, RowForRow
        <5>3. fp = "none"  BY <4>2
        <5> QED  BY <5>2, <5>3 DEF Row
      <4> QED  BY <4>1, <4>2 DEF LegacyPage, Files, Rows
    <3> QED  BY <3>1, <3>2 DEF Init
  <2>3. fts \in Texts
    BY <2>2 DEF Init, Texts, Rows, Row
  <2> QED  BY <2>1, <2>2, <2>3 DEF Init, TypeOK, Files, Rows, Texts, Idle, Op
<1>2. TypeOK /\ [Next]_vars => TypeOK'
  <2> SUFFICES ASSUME TypeOK, [Next]_vars PROVE TypeOK'
    OBVIOUS
  <2>0. pages \in Files /\ rows \in Rows /\ fts \in Texts  BY DEF TypeOK, Files, Rows, Texts
  <2>1. CASE EnsureReady
    <3>1. pages' \in Files /\ rows' \in Rows /\ fts' \in Texts
      BY <2>0, <2>1, PassTypes, RebuildTypes DEF EnsureReady
    <3> QED  BY <2>1, <3>1 DEF EnsureReady, TypeOK, Files, Rows, Texts
  <2>2. ASSUME NEW g \in Page, UpsertBegin(g) PROVE TypeOK'
    <3> DEFINE id   == IF Owner(g.key) \ {g.id} = {} THEN g.id
                       ELSE CHOOSE i \in Owner(g.key) : TRUE
               key  == IF g.key = NoKey /\ rows[id] # None THEN rows[id].key ELSE g.key
               next == [g EXCEPT !.id = id, !.key = key]
    <3>1. id \in Id  BY DEF Owner, Indexed, Page
    <3>2. key \in Key  BY <2>0, <3>1 DEF Rows, Row, Page
    <3>3. next \in Page  BY <3>1, <3>2 DEF Page
    <3>4. op' = [pc |-> "write", id |-> id, page |-> next,
                 prev |-> IF rows[id] = None THEN None ELSE rows[id].path]
      BY <2>2 DEF UpsertBegin, Page
    <3>5. (IF rows[id] = None THEN None ELSE rows[id].path) \in Path \cup {None}
      BY <2>0, <3>1 DEF Rows, Row
    <3>6. acked' = [acked EXCEPT ![id] = IF @ = {} THEN {} ELSE @ \cup {next.text}]
      BY <2>2 DEF UpsertBegin, Page
    <3>7. acked' \in [Id -> SUBSET Text]
      BY <3>1, <3>3, <3>6, ZenonT(30) DEF TypeOK, Page
    <3>8. pages' \in Files /\ rows' \in Rows
      BY <2>0, <2>2, OutdateRows, TargetPath DEF UpsertBegin, Files
    <3> HIDE DEF id, key, next
    <3>9. op' \in Op /\ op'.pc = "write" /\ op'.id \in Id /\ op'.page \in Page
      BY <3>1, <3>3, <3>4, <3>5 DEF Op
    <3> QED  BY <2>2, <3>7, <3>8, <3>9 DEF UpsertBegin, TypeOK, Files, Rows
  <2>3. CASE UpsertWrite
    <3>1. op.page \in Page /\ Target(op.page) \in Path  BY <2>3, TargetPath DEF UpsertWrite, TypeOK
    <3>2. pages' \in Files /\ rows' \in Rows
      BY <2>0, <2>3, <3>1, OutdateRows DEF UpsertWrite, Files
    <3> QED  BY <2>3, <3>2 DEF UpsertWrite, TypeOK, Op, Files, Rows
  <2>4. CASE UpsertUnlink
    <3>1. pages' \in Files /\ rows' \in Rows
      BY <2>0, <2>4, OutdateRows DEF UpsertUnlink, Files
    <3> QED  BY <2>4, <3>1 DEF UpsertUnlink, TypeOK, Op, Files, Rows
  <2>5. CASE UpsertRow
    <3>1. op.page \in Page /\ Target(op.page) \in Path  BY <2>5, TargetPath DEF UpsertRow, TypeOK
    <3>2. rows' \in Rows  BY <2>0, <2>5, <3>1, RowForRow DEF UpsertRow, Rows
    <3> QED  BY <2>5, <3>2 DEF UpsertRow, TypeOK, Op, Rows
  <2>6. CASE UpsertFts
    <3>1. op.page \in Page  BY <2>6 DEF UpsertFts, TypeOK
    <3>2. fts' \in Texts /\ acked' \in [Id -> SUBSET Text]
      BY <2>0, <2>6, <3>1 DEF UpsertFts, TypeOK, Texts, Page
    <3> QED  BY <2>6, <3>2 DEF UpsertFts, TypeOK, Op, Idle, Texts
  <2>7. ASSUME NEW i \in Id, DeleteBegin(i) PROVE TypeOK'
    <3>1. rows[i].path \in Path  BY <2>0, <2>7 DEF DeleteBegin, Indexed, Rows, Row
    <3>2. op' \in Op /\ op'.pc = "del" /\ op'.id \in Id
      BY <2>7, <3>1 DEF DeleteBegin, Op, Idle
    <3>3. acked' \in [Id -> SUBSET Text]  BY <2>7 DEF DeleteBegin, TypeOK
    <3> QED  BY <2>7, <3>2, <3>3 DEF DeleteBegin, TypeOK
  <2>8. CASE DeletePage
    <3>1. pages' \in Files /\ rows' \in Rows
      BY <2>0, <2>8, OutdateRows DEF DeletePage, Files
    <3> QED  BY <2>8, <3>1 DEF DeletePage, TypeOK, Op, Files, Rows
  <2>9. CASE DeleteRow
    <3>1. rows' \in Rows  BY <2>0, <2>9 DEF DeleteRow, Rows
    <3> QED  BY <2>9, <3>1 DEF DeleteRow, TypeOK, Op, Rows
  <2>10. CASE DeleteFts
    <3>1. fts' \in Texts  BY <2>0, <2>10 DEF DeleteFts, Texts
    <3> QED  BY <2>10, <3>1 DEF DeleteFts, TypeOK, Op, Idle, Texts
  <2>11. CASE Reconcile
    BY <2>11, PassTypes DEF Reconcile, TypeOK, Files, Rows, Texts
  <2>12. CASE ReconcileDeferred
    BY <2>12, PassTypes DEF ReconcileDeferred, TypeOK, Files, Rows, Texts
  <2>13. CASE Reindex
    BY <2>13, RebuildTypes DEF Reindex, TypeOK, Files, Rows, Texts
  <2>14. CASE Close
    BY <2>14 DEF Close, TypeOK
  <2>15. ASSUME Dies PROVE crashes' \in 0..MaxCrashes /\ edits' = edits
    BY <2>15, StoreAssumption DEF StoreAssumption, Dies, TypeOK
  <2>16. ASSUME Outside PROVE edits' \in 0..MaxEdits /\ crashes' = crashes
    BY <2>16, StoreAssumption DEF StoreAssumption, Outside, TypeOK
  <2>17. CASE Crash
    BY <2>15, <2>17 DEF Crash, TypeOK, Op, Idle
  <2>18. CASE CrashInMigration
    <3>1. pages' \in Files /\ rows' \in Rows
      <4>1. PICK S \in SUBSET Movable : pages' = Migrated(S) /\ rows' = Outdate(Moved(S))
        BY <2>18 DEF CrashInMigration
      <4>2. S \in SUBSET Name  BY DEF Movable
      <4> QED  BY <2>0, <4>1, <4>2, MigratedFiles, OutdateRows
    <3> QED  BY <2>15, <2>18, <3>1 DEF CrashInMigration, TypeOK, Files, Rows
  <2>19. CASE LoseDatabase
    BY <2>16, <2>19 DEF LoseDatabase, TypeOK
  <2>20. ASSUME NEW P, NEW S, Disown(P, S) PROVE acked' \in [Id -> SUBSET Text]
    BY <2>20 DEF Disown, TypeOK
  <2>21. ASSUME NEW p \in Path, NEW g \in Page \cup {Junk}, EditPage(p, g) PROVE TypeOK'
    <3>1. pages' \in Files /\ rows' \in Rows
      BY <2>0, <2>21, OutdateRows DEF EditPage, Files
    <3>2. acked' \in [Id -> SUBSET Text]  BY <2>20, <2>21 DEF EditPage
    <3> QED  BY <2>16, <2>21, <3>1, <3>2 DEF EditPage, TypeOK, Files, Rows
  <2>22. ASSUME NEW p \in Path, RemovePage(p) PROVE TypeOK'
    <3>1. pages' \in Files /\ rows' \in Rows
      BY <2>0, <2>22, OutdateRows DEF RemovePage, Files
    <3>2. acked' \in [Id -> SUBSET Text]  BY <2>20, <2>22 DEF RemovePage
    <3> QED  BY <2>16, <2>22, <3>1, <3>2 DEF RemovePage, TypeOK, Files, Rows
  <2>23. ASSUME NEW p \in Path, NEW q \in Path, RenamePage(p, q) PROVE TypeOK'
    <3>1. pages' \in Files /\ rows' \in Rows
      BY <2>0, <2>23, OutdateRows DEF RenamePage, Files
    <3>2. acked' \in [Id -> SUBSET Text]  BY <2>20, <2>23 DEF RenamePage
    <3> QED  BY <2>16, <2>23, <3>1, <3>2 DEF RenamePage, TypeOK, Files, Rows
  <2>24. CASE UNCHANGED vars
    BY <2>24 DEF vars, TypeOK
  <2> QED
    BY <2>1, <2>2, <2>3, <2>4, <2>5, <2>6, <2>7, <2>8, <2>9, <2>10, <2>11, <2>12, <2>13, <2>14,
       <2>17, <2>18, <2>19, <2>21, <2>22, <2>23, <2>24 DEF Next, Step, Interference
<1> QED  BY <1>1, <1>2, PTL DEF Spec

-----------------------------------------------------------------------------
(* External keys.  The unique index of ext_key must never refuse a row.    *)

\* No other row holds the key the write in progress is about to store.
KeyReserved ==
    op.pc \in {"write", "unlink", "row"} =>
        /\ op.page.id = op.id
        /\ \A j \in Indexed : rows[j].key = op.page.key /\ j # op.id => op.page.key = NoKey

KeyInv == TypeOK /\ ExtKeyUnique /\ KeyReserved

\* Rows rs hold no key twice.
UniqueKeys(rs) ==
    \A i, j \in Id : rs[i] # None /\ rs[j] # None /\ i # j /\ rs[i].key = rs[j].key
        => rs[i].key = NoKey

\* The property, as a fact about one table.
LEMMA UniqueIsUnique == ExtKeyUnique <=> UniqueKeys(rows)
BY DEF ExtKeyUnique, UniqueKeys, Indexed

\* Removing rows, or blanking keys, keeps keys unique.
LEMMA FewerKeys ==
    ASSUME NEW rs, NEW rt, UniqueKeys(rs),
           \A i \in Id : rt[i] # None => rs[i] # None /\ rt[i].key \in {rs[i].key, NoKey}
    PROVE  UniqueKeys(rt)
BY DEF UniqueKeys

\* Two pages of a set that are both the first claimant of their key are one.
LEMMA OneFirstClaim ==
    ASSUME NEW pg, NEW P \in SUBSET Path, NEW p \in P, NEW q \in P,
           FirstClaim(pg, P, p), FirstClaim(pg, P, q), pg[p].key = pg[q].key
    PROVE  p = q
<1>1. PageOrder[p] <= PageOrder[q] /\ PageOrder[q] <= PageOrder[p]  BY DEF FirstClaim
<1>2. PageOrder[p] \in Nat /\ PageOrder[q] \in Nat  BY StoreAssumption DEF StoreAssumption
<1>3. PageOrder[p] = PageOrder[q]  BY <1>1, <1>2
<1> QED  BY <1>3, StoreAssumption DEF StoreAssumption

\* A rebuild gives each key to the first page that claims it.
LEMMA RebuiltKeys ==
    ASSUME NEW pg \in Files
    PROVE  UniqueKeys(RebuiltRows(pg))
<1> DEFINE D == Decodable(pg)
           P(i) == Holders(pg, D, i)
<1>1. SUFFICES ASSUME NEW i \in Id, NEW j \in Id, i # j,
                      RebuiltRows(pg)[i] # None, RebuiltRows(pg)[j] # None,
                      RebuiltRows(pg)[i].key = RebuiltRows(pg)[j].key,
                      RebuiltRows(pg)[i].key # NoKey
               PROVE  FALSE
  BY DEF UniqueKeys
<1>2. ASSUME NEW k \in {i, j}
      PROVE  /\ Last(P(k)) \in D /\ pg[Last(P(k))].id = k
             /\ FirstClaim(pg, D, Last(P(k)))
             /\ RebuiltRows(pg)[k].key = pg[Last(P(k))].key
  <2>1. P(k) # {}  BY <1>1 DEF RebuiltRows
  <2>2. RebuiltRows(pg)[k] = RowFor(pg[Last(P(k))], Last(P(k)), FirstClaim(pg, D, Last(P(k))))
    BY <2>1 DEF RebuiltRows
  <2>3. RebuiltRows(pg)[k].key # NoKey  BY <1>1
  <2>4. FirstClaim(pg, D, Last(P(k))) /\ RebuiltRows(pg)[k].key = pg[Last(P(k))].key
    BY <2>2, <2>3 DEF RowFor
  <2> HIDE DEF D
  <2>5. D \in SUBSET Decodable(pg)  BY DEF D
  <2> QED  BY <2>1, <2>4, <2>5, LastHolder
<1>3. D \in SUBSET Path  BY DEF Decodable
<1>4. Last(P(i)) = Last(P(j))
  <2> HIDE DEF D, P
  <2> QED  BY <1>1, <1>2, <1>3, OneFirstClaim
<1> QED  BY <1>1, <1>2, <1>4

\* A pass gives a key to the first pending page that claims it, unless a row
\* whose page is listed owns it, and takes it from every other row.
LEMMA ReconciledKeys ==
    ASSUME NEW pg \in Files, NEW rs, NEW at, NEW D, UniqueKeys(rs)
    PROVE  UniqueKeys(ReconciledRows(pg, rs, at, D))
<1> DEFINE P    == Pending(pg, rs, at, D)
           H(i) == Holders(pg, P, i)
           R    == ReconciledRows(pg, rs, at, D)
<1>1. SUFFICES ASSUME NEW i \in Id, NEW j \in Id, i # j, R[i] # None, R[j] # None,
                      R[i].key = R[j].key, R[i].key # NoKey
               PROVE  FALSE
  BY DEF UniqueKeys
<1>2. P \in SUBSET Decodable(pg) /\ P \in SUBSET Path
  BY DEF Pending, ReadPages, Decodable
<1>3. ASSUME NEW k \in {i, j}, H(k) # {}
      PROVE  /\ Last(H(k)) \in P /\ pg[Last(H(k))].id = k
             /\ KeepsKey(pg, rs, P, Last(H(k)))
             /\ R[k].key = pg[Last(H(k))].key
  <2>1. R[k] # None /\ R[k].key # NoKey  BY <1>1
  <2>2. R[k] = RowFor(pg[Last(H(k))], Last(H(k)), KeepsKey(pg, rs, P, Last(H(k))))
    BY <1>3, <2>1 DEF ReconciledRows
  <2>3. KeepsKey(pg, rs, P, Last(H(k))) /\ R[k].key = pg[Last(H(k))].key
    BY <2>1, <2>2 DEF RowFor
  <2> HIDE DEF P
  <2> QED  BY <1>2, <1>3, <2>3, LastHolder
<1>4. ASSUME NEW k \in {i, j}, H(k) = {}
      PROVE  /\ rs[k] # None /\ R[k].key = rs[k].key
             /\ \A p \in P : ~(/\ KeepsKey(pg, rs, P, p)
                               /\ pg[p].key = rs[k].key /\ pg[p].id # k)
  <2>1. R[k] # None /\ R[k].key # NoKey  BY <1>1
  <2> DEFINE Taken == \E p \in P : /\ KeepsKey(pg, rs, P, p)
                                   /\ pg[p].key = rs[k].key /\ pg[p].id # k
             fp    == IF \E p \in Refreshed(pg, rs, at, D) : at[p] = k THEN "fresh" ELSE rs[k].fp
  <2>2. /\ rs[k] # None
        /\ R[k] = [rs[k] EXCEPT !.key = IF Taken THEN NoKey ELSE @,
                                !.fp = IF \E p \in Refreshed(pg, rs, at, D) : at[p] = k
                                       THEN "fresh" ELSE @]
    BY <1>4, <2>1 DEF ReconciledRows
  <2>3. R[k].key = IF Taken THEN NoKey ELSE rs[k].key
    BY <2>2
  <2> QED  BY <2>1, <2>2, <2>3
<1> HIDE DEF P, H, R
<1>5. CASE H(i) # {} /\ H(j) # {}
  <2>1. Last(H(i)) = Last(H(j))
    BY <1>1, <1>2, <1>3, <1>5, OneFirstClaim DEF KeepsKey
  <2> QED  BY <1>1, <1>3, <1>5, <2>1
<1>6. CASE H(i) # {} /\ H(j) = {}
  BY <1>1, <1>3, <1>4, <1>6
<1>7. CASE H(i) = {} /\ H(j) # {}
  BY <1>1, <1>3, <1>4, <1>7
<1>8. CASE H(i) = {} /\ H(j) = {}
  BY <1>1, <1>4, <1>8 DEF UniqueKeys
<1> QED  BY <1>5, <1>6, <1>7, <1>8

\* Neither scan breaks the uniqueness of keys.
LEMMA PassKeys ==
    ASSUME TypeOK, ExtKeyUnique, NEW D, Pass(D)
    PROVE  UniqueKeys(rows')
<1>1. pages \in Files /\ rows \in Rows  BY DEF TypeOK, Files, Rows
<1>2. Disk \in Files
  <2>1. Movable \in SUBSET Name  BY DEF Movable
  <2> QED  BY <1>1, <2>1, MigratedFiles DEF Disk
<1>3. UniqueKeys(Outdate(Moved(Movable)))
  BY <1>1, OutdateRows, UniqueIsUnique DEF UniqueKeys
<1>4. PICK o \in Outcomes(D) : rows' = o.rows  BY DEF Pass
<1>5. CASE Unfingerprinted(rows)
  BY <1>2, <1>4, <1>5, RebuiltKeys DEF Outcomes
<1>6. CASE ~Unfingerprinted(rows)
  <2>1. PICK at \in StoredMaps(Outdate(Moved(Movable))) :
            o = [rows |-> ReconciledRows(Disk, Outdate(Moved(Movable)), at, D),
                 fts  |-> ReconciledFts(Disk, Outdate(Moved(Movable)), at, D)]
    BY <1>4, <1>6 DEF Outcomes
  <2> QED  BY <1>2, <1>3, <1>4, <2>1, ReconciledKeys
<1> QED  BY <1>5, <1>6

\* A rebuild keeps keys unique.
LEMMA RebuildKeys ==
    ASSUME TypeOK, Rebuild
    PROVE  UniqueKeys(rows')
<1>1. pages \in Files  BY DEF TypeOK, Files
<1>2. Movable \in SUBSET Name  BY DEF Movable
<1>3. Disk \in Files  BY <1>1, <1>2, MigratedFiles DEF Disk
<1> QED  BY <1>3, RebuiltKeys DEF Rebuild

\* The external keys stay unique, also while a write is under way.
THEOREM KeyInvariant == Spec => []KeyInv
<1>1. Init => ExtKeyUnique /\ KeyReserved
  <2> SUFFICES ASSUME Init PROVE ExtKeyUnique /\ KeyReserved
    OBVIOUS
  <2>1. KeyReserved  BY DEF Init, Idle, KeyReserved
  <2>2. \A i, j \in Indexed : i = j
    BY DEF Init, Indexed
  <2> QED  BY <2>1, <2>2 DEF ExtKeyUnique
<1>2. TypeOK /\ ExtKeyUnique /\ KeyReserved /\ [Next]_vars => ExtKeyUnique' /\ KeyReserved'
  <2> SUFFICES ASSUME TypeOK, ExtKeyUnique, KeyReserved, [Next]_vars
               PROVE  UniqueKeys(rows') /\ KeyReserved'
    <3>1. ExtKeyUnique' <=> UniqueKeys(rows')
      BY DEF ExtKeyUnique, UniqueKeys, Indexed
    <3> QED  BY <3>1
  <2>0. rows \in Rows /\ pages \in Files /\ UniqueKeys(rows)
    BY UniqueIsUnique DEF TypeOK, Rows, Files
  <2>A. ASSUME NEW P, rows' = Outdate(P), op'.pc \notin {"write", "unlink", "row"}
        PROVE  UniqueKeys(rows') /\ KeyReserved'
    BY <2>0, <2>A, OutdateRows DEF UniqueKeys, KeyReserved
  <2>B. ASSUME NEW P, rows' = Outdate(P) \/ rows' = rows,
               op'.page = op.page, op'.id = op.id, op.pc \in {"write", "unlink"}
        PROVE  UniqueKeys(rows') /\ KeyReserved'
    BY <2>0, <2>B, OutdateRows DEF UniqueKeys, KeyReserved, Indexed
  <2>1. CASE EnsureReady
    <3>1. op'.pc = "idle"  BY <2>1 DEF EnsureReady, Idle
    <3> QED  BY <2>0, <2>1, <3>1, PassKeys, RebuildKeys DEF EnsureReady, KeyReserved
  <2>2. ASSUME NEW g \in Page, UpsertBegin(g) PROVE UniqueKeys(rows') /\ KeyReserved'
    <3> DEFINE id  == IF Owner(g.key) \ {g.id} = {} THEN g.id
                      ELSE CHOOSE i \in Owner(g.key) : TRUE
               key == IF g.key = NoKey /\ rows[id] # None THEN rows[id].key ELSE g.key
    <3>1. id \in Id /\ (Owner(g.key) \subseteq {id})
      <4>1. CASE Owner(g.key) \ {g.id} = {}
        BY <4>1 DEF Page
      <4>2. CASE Owner(g.key) \ {g.id} # {}
        <5>1. id \in Owner(g.key)  BY <4>2
        <5> HIDE DEF id
        <5> QED  BY <2>0, <5>1 DEF Owner, Indexed, UniqueKeys
      <4> QED  BY <4>1, <4>2
    <3>2. op'.pc = "write" /\ op'.id = id /\ op'.page.id = id /\ op'.page.key = key
      BY <2>2 DEF UpsertBegin, Page
    <3> HIDE DEF id
    <3>3. ASSUME NEW j \in Indexed, rows[j].key = key, j # id PROVE key = NoKey
      <4>1. CASE g.key = NoKey /\ rows[id] # None
        BY <2>0, <3>1, <3>3, <4>1 DEF UniqueKeys, Indexed
      <4>2. CASE ~(g.key = NoKey /\ rows[id] # None) /\ g.key # NoKey
        BY <3>1, <3>3, <4>2 DEF Owner
      <4>3. CASE ~(g.key = NoKey /\ rows[id] # None) /\ g.key = NoKey
        BY <4>3
      <4> QED  BY <4>1, <4>2, <4>3
    <3>4. /\ UniqueKeys(rows')
          /\ \A j \in Id : rows'[j] # None => rows[j] # None /\ rows'[j].key = rows[j].key
      BY <2>0, <2>2, OutdateRows DEF UpsertBegin, UniqueKeys
    <3> HIDE DEF key
    <3> QED  BY <3>2, <3>3, <3>4 DEF KeyReserved, Indexed
  <2>3. CASE UpsertWrite
    BY <2>3, <2>B DEF UpsertWrite, TypeOK, Op
  <2>4. CASE UpsertUnlink
    BY <2>4, <2>B DEF UpsertUnlink, TypeOK, Op
  <2>5. CASE UpsertRow
    <3>1. op' = [op EXCEPT !.pc = "fts"] /\ op.pc = "row" /\ op.id \in Id /\ op \in Op
      BY <2>5 DEF UpsertRow, TypeOK
    <3>2. op'.pc = "fts"  BY <3>1 DEF Op
    <3>3. \A j \in Id : rows'[j] = IF j = op.id THEN RowFor(op.page, Target(op.page), TRUE) ELSE rows[j]
      BY <2>0, <2>5, <3>1 DEF UpsertRow, Rows
    <3>4. RowFor(op.page, Target(op.page), TRUE).key = op.page.key  BY DEF RowFor
    <3>5. UniqueKeys(rows')
      BY <2>0, <3>1, <3>3, <3>4, ZenonT(30) DEF UniqueKeys, KeyReserved, Indexed
    <3> QED  BY <3>2, <3>5 DEF KeyReserved
  <2>6. CASE UpsertFts
    BY <2>0, <2>6 DEF UpsertFts, Idle, KeyReserved, UniqueKeys
  <2>7. ASSUME NEW i \in Id, DeleteBegin(i) PROVE UniqueKeys(rows') /\ KeyReserved'
    BY <2>0, <2>7 DEF DeleteBegin, Idle, KeyReserved
  <2>8. CASE DeletePage
    <3>1. op'.pc = "delrow"  BY <2>8 DEF DeletePage, TypeOK, Op
    <3> QED  BY <2>8, <2>A, <3>1 DEF DeletePage
  <2>9. CASE DeleteRow
    <3>1. op'.pc = "delfts"  BY <2>9 DEF DeleteRow, TypeOK, Op
    <3>2. \A i \in Id : rows'[i] # None => rows[i] # None /\ rows'[i] = rows[i]
      BY <2>0, <2>9 DEF DeleteRow, Rows
    <3>3. UniqueKeys(rows')  BY <2>0, <3>2, FewerKeys
    <3> QED  BY <3>1, <3>3 DEF KeyReserved
  <2>10. CASE DeleteFts
    BY <2>0, <2>10 DEF DeleteFts, Idle, KeyReserved
  <2>11. CASE Reconcile
    BY <2>11, PassKeys DEF Reconcile, Idle, KeyReserved
  <2>12. CASE ReconcileDeferred
    BY <2>12, PassKeys DEF ReconcileDeferred, Idle, KeyReserved
  <2>13. CASE Reindex
    BY <2>13, RebuildKeys DEF Reindex, Idle, KeyReserved
  <2>14. CASE Close
    BY <2>0, <2>14 DEF Close, Idle, KeyReserved
  <2>15. CASE Crash
    BY <2>0, <2>15 DEF Crash, Idle, KeyReserved
  <2>16. CASE CrashInMigration
    BY <2>16, <2>A DEF CrashInMigration, Idle
  <2>17. CASE LoseDatabase
    BY <2>17 DEF LoseDatabase, Idle, KeyReserved, UniqueKeys
  <2>18. ASSUME NEW p \in Path, NEW g \in Page \cup {Junk}, EditPage(p, g)
         PROVE  UniqueKeys(rows') /\ KeyReserved'
    BY <2>18, <2>A DEF EditPage, Idle
  <2>19. ASSUME NEW p \in Path, RemovePage(p) PROVE UniqueKeys(rows') /\ KeyReserved'
    BY <2>19, <2>A DEF RemovePage, Idle
  <2>20. ASSUME NEW p \in Path, NEW q \in Path, RenamePage(p, q)
         PROVE  UniqueKeys(rows') /\ KeyReserved'
    BY <2>20, <2>A DEF RenamePage, Idle
  <2>21. CASE UNCHANGED vars
    BY <2>0, <2>21 DEF vars, KeyReserved, Indexed
  <2> QED
    BY <2>1, <2>2, <2>3, <2>4, <2>5, <2>6, <2>7, <2>8, <2>9, <2>10, <2>11, <2>12, <2>13, <2>14,
       <2>15, <2>16, <2>17, <2>18, <2>19, <2>20, <2>21 DEF Next, Step, Interference
<1> QED  BY <1>1, <1>2, TypeCorrect, PTL DEF Spec, KeyInv

\* No two rows own one external key.
THEOREM KeysUnique == Spec => []ExtKeyUnique
<1>1. KeyInv => ExtKeyUnique  BY DEF KeyInv
<1> QED  BY <1>1, KeyInvariant, PTL

-----------------------------------------------------------------------------
(* Durability.  An acknowledged entry has its page at home, in a file made *)
(* for its id in a kind directory, and nobody but its own writes and the   *)
(* people who edit it touch that file.                                     *)

\* A file made for an id holds no other entry.
FilesOwned == \A p \in Decodable(pages) : MayHold(p, pages[p].id)

\* A row of an id points at no file made for another.
RowsOwned == \A i \in Indexed : MayHold(rows[i].path, i)

\* Nor does the path the operation in progress will unlink.
OpOwned == op.prev # None => MayHold(op.prev, op.id)

\* Once a write is past its file, the file holds what is written.
PageWritten == op.pc \in {"unlink", "row", "fts"} => pages[Target(op.page)] = op.page

\* What a write is about to store may already be relied upon, and a delete
\* withdraws every promise.
Promised ==
    /\ op.pc \in {"write", "unlink", "row", "fts"} =>
           acked[op.id] = {} \/ op.page.text \in acked[op.id]
    /\ op.pc \in {"del", "delrow", "delfts"} => acked[op.id] = {}

\* The page g keeps the promise for i.
Keeps(g, i) == IsPage(g) /\ g.id = i /\ g.text \in acked[i]

AckedAtHome == \A i \in Id : acked[i] # {} => \E k \in Kind : Keeps(pages[<<k, i>>], i)

OpReady == op.pc \in {"write", "unlink", "row", "fts"} => op.page.id = op.id

HomeInv == FilesOwned /\ RowsOwned /\ OpOwned /\ PageWritten /\ Promised /\ AckedAtHome /\ OpReady

\* Moving flat pages keeps every page in a kind directory, and every owner.
LEMMA MigratedHome ==
    ASSUME pages \in Files, FilesOwned, NEW S \in SUBSET Movable
    PROVE  /\ \A k \in Kind, n \in Name : IsPage(pages[<<k, n>>]) =>
                  Migrated(S)[<<k, n>>] = pages[<<k, n>>]
           /\ \A p \in Decodable(Migrated(S)) : MayHold(p, Migrated(S)[p].id)
<1>1. ASSUME NEW k \in Kind, NEW n \in Name, IsPage(pages[<<k, n>>])
      PROVE  Migrated(S)[<<k, n>>] = pages[<<k, n>>]
  <2>1. <<k, n>> \in Path /\ k # Flat  BY StoreAssumption DEF StoreAssumption, Path, Dir
  <2>2. n \in S => pages[<<pages[<<Flat, n>>].kind, n>>] = None  BY DEF Movable
  <2>3. n \in S => pages[<<Flat, n>>].kind # k  BY <1>1, <2>2 DEF IsPage
  <2> QED  BY <2>1, <2>3 DEF Migrated
<1>2. ASSUME NEW p \in Decodable(Migrated(S)) PROVE MayHold(p, Migrated(S)[p].id)
  <2>1. p \in Path /\ IsPage(Migrated(S)[p])  BY <1>2 DEF Decodable
  <2>2. CASE Migrated(S)[p] = pages[p]
    BY <2>1, <2>2 DEF FilesOwned, Decodable
  <2>3. CASE Migrated(S)[p] # pages[p]
    <3>1. p[2] \in S /\ Migrated(S)[p] = pages[<<Flat, p[2]>>]
      BY <2>1, <2>3 DEF Migrated, IsPage
    <3>2. <<Flat, p[2]>> \in Decodable(pages)
      BY <2>1, <3>1 DEF Decodable, Path, Dir
    <3>3. MayHold(<<Flat, p[2]>>, pages[<<Flat, p[2]>>].id)  BY <3>2 DEF FilesOwned
    <3> QED  BY <3>1, <3>3 DEF MayHold
  <2> QED  BY <2>2, <2>3
<1> QED  BY <1>1, <1>2

\* Both scans read each row from a file of its own entry.
LEMMA RebuildOwned ==
    ASSUME NEW pg \in Files, \A p \in Decodable(pg) : MayHold(p, pg[p].id),
           NEW i \in Id, RebuiltRows(pg)[i] # None
    PROVE  MayHold(RebuiltRows(pg)[i].path, i)
<1> DEFINE D == Decodable(pg)
           p == Last(Holders(pg, D, i))
<1>1. Holders(pg, D, i) # {} /\ RebuiltRows(pg)[i] = RowFor(pg[p], p, FirstClaim(pg, D, p))
  BY DEF RebuiltRows
<1>2. RebuiltRows(pg)[i].path = p  BY <1>1 DEF RowFor
<1> HIDE DEF D
<1>3. D \in SUBSET Decodable(pg)  BY DEF D
<1>4. p \in D /\ pg[p].id = i  BY <1>1, <1>3, LastHolder
<1> QED  BY <1>2, <1>3, <1>4

\* A pass leaves rows at files made for their entries.
LEMMA PassOwned ==
    ASSUME NEW pg \in Files, \A p \in Decodable(pg) : MayHold(p, pg[p].id),
           NEW rs, \A j \in Id : rs[j] # None => MayHold(rs[j].path, j),
           NEW at, NEW D, NEW i \in Id, ReconciledRows(pg, rs, at, D)[i] # None
    PROVE  MayHold(ReconciledRows(pg, rs, at, D)[i].path, i)
<1> DEFINE P == Pending(pg, rs, at, D)
           p == Last(Holders(pg, P, i))
           R == ReconciledRows(pg, rs, at, D)
<1>1. P \in SUBSET Decodable(pg)  BY DEF Pending, ReadPages
<1>2. CASE Holders(pg, P, i) # {}
  <2>1. R[i] = RowFor(pg[p], p, KeepsKey(pg, rs, P, p))
    BY <1>2 DEF ReconciledRows
  <2>2. R[i].path = p  BY <2>1 DEF RowFor
  <2> HIDE DEF P, R
  <2>3. p \in P /\ pg[p].id = i  BY <1>1, <1>2, LastHolder
  <2> QED  BY <1>1, <2>2, <2>3 DEF R
<1>3. CASE Holders(pg, P, i) = {}
  <2>1. rs[i] # None /\ R[i].path = rs[i].path
    BY <1>3 DEF ReconciledRows
  <2> QED  BY <2>1
<1> QED  BY <1>2, <1>3

\* A scan keeps the ownership of files and rows and every page at home.
LEMMA ScanHome ==
    ASSUME TypeOK, HomeInv, UNCHANGED <<op, acked>>, op = Idle,
           Rebuild \/ \E D : Pass(D)
    PROVE  HomeInv'
<1>1. pages \in Files /\ rows \in Rows /\ fts \in Texts  BY DEF TypeOK, Files, Rows, Texts
<1>2. Movable \in SUBSET Name  BY DEF Movable
<1>3. pages' = Disk /\ Disk \in Files  BY <1>1, <1>2, MigratedFiles DEF Disk, Pass, Rebuild
<1>4. /\ \A k \in Kind, n \in Name : IsPage(pages[<<k, n>>]) => Disk[<<k, n>>] = pages[<<k, n>>]
      /\ \A p \in Decodable(Disk) : MayHold(p, Disk[p].id)
  BY <1>1, MigratedHome DEF HomeInv, Disk
<1>5. FilesOwned'  BY <1>3, <1>4 DEF FilesOwned
<1>6. AckedAtHome'
  BY <1>3, <1>4, StoreAssumption DEF StoreAssumption, HomeInv, AckedAtHome, Keeps
<1>7. \A i \in Id : rows'[i] # None => MayHold(rows'[i].path, i)
  <2>1. CASE Rebuild
    BY <1>3, <1>4, <2>1, RebuildOwned DEF Rebuild
  <2>2. ASSUME NEW D, Pass(D) PROVE \A i \in Id : rows'[i] # None => MayHold(rows'[i].path, i)
    <3> DEFINE rs == Outdate(Moved(Movable))
    <3>1. PICK o \in Outcomes(D) : rows' = o.rows  BY <2>2 DEF Pass
    <3>2. CASE Unfingerprinted(rows)
      BY <1>3, <1>4, <3>1, <3>2, RebuildOwned DEF Outcomes
    <3>3. CASE ~Unfingerprinted(rows)
      <4>1. PICK at \in StoredMaps(rs) :
                o = [rows |-> ReconciledRows(Disk, rs, at, D), fts |-> ReconciledFts(Disk, rs, at, D)]
        BY <3>1, <3>3 DEF Outcomes
      <4>2. \A i \in Id : rs[i] # None => MayHold(rs[i].path, i)
        BY <1>1, OutdateRows DEF HomeInv, RowsOwned, Indexed
      <4> HIDE DEF rs
      <4> QED  BY <1>3, <1>4, <3>1, <4>1, <4>2, PassOwned
    <3> QED  BY <3>2, <3>3
  <2> QED  BY <2>1, <2>2
<1>8. RowsOwned'  BY <1>7 DEF RowsOwned, Indexed
<1>9. (OpOwned /\ PageWritten /\ Promised /\ OpReady)'
  BY DEF Idle, OpOwned, PageWritten, Promised, OpReady
<1> QED  BY <1>5, <1>6, <1>8, <1>9 DEF HomeInv

\* An outside change of files P withdraws the promises about their pages.
LEMMA OutsideHome ==
    ASSUME TypeOK, HomeInv, op = Idle, op' = op,
           NEW P \in SUBSET Path, NEW S, Disown(P, S), rows' = Outdate(P),
           \A p \in Path \ P : pages'[p] = pages[p], pages' \in Files,
           \A p \in P : IsPage(pages'[p]) => MayHold(p, pages'[p].id)
    PROVE  HomeInv'
<1>1. pages \in Files /\ rows \in Rows  BY DEF TypeOK, Files, Rows
<1>2. FilesOwned'  BY DEF HomeInv, FilesOwned, Decodable
<1>3. RowsOwned'  BY <1>1, OutdateRows DEF HomeInv, RowsOwned, Indexed
<1>4. AckedAtHome'
  <2> SUFFICES ASSUME NEW i \in Id, acked'[i] # {}
               PROVE  \E k \in Kind : IsPage(pages'[<<k, i>>]) /\ pages'[<<k, i>>].id = i
                                      /\ pages'[<<k, i>>].text \in acked'[i]
    BY DEF AckedAtHome, Keeps
  <2>1. acked'[i] = acked[i] /\ \A p \in P : ~(IsPage(pages[p]) /\ pages[p].id = i)
    BY DEF Disown
  <2>2. PICK k \in Kind : Keeps(pages[<<k, i>>], i)  BY <2>1 DEF HomeInv, AckedAtHome
  <2>3. <<k, i>> \in Path  BY StoreAssumption DEF StoreAssumption, Path, Dir
  <2>4. <<k, i>> \notin P  BY <2>1, <2>2 DEF Keeps
  <2>5. pages'[<<k, i>>] = pages[<<k, i>>]  BY <2>3, <2>4
  <2> QED  BY <2>1, <2>2, <2>5 DEF Keeps
<1>5. (OpOwned /\ PageWritten /\ Promised /\ OpReady)'
  BY DEF Idle, OpOwned, PageWritten, Promised, OpReady
<1> QED  BY <1>2, <1>3, <1>4, <1>5 DEF HomeInv

\* Acknowledged pages stay at home.
THEOREM HomeInvariant == Spec => []HomeInv
<1>1. Init => HomeInv
  <2> SUFFICES ASSUME Init PROVE HomeInv
    OBVIOUS
  <2>1. OpOwned /\ PageWritten /\ Promised /\ OpReady
    BY DEF Init, Idle, OpOwned, PageWritten, Promised, OpReady
  <2>2. AckedAtHome  BY DEF Init, AckedAtHome
  <2>3. CASE /\ pages = [p \in Path |-> None]
             /\ rows = [i \in Id |-> None]
    <3>1. FilesOwned /\ RowsOwned
      BY <2>3 DEF FilesOwned, RowsOwned, Decodable, IsPage, Indexed
    <3> QED  BY <2>1, <2>2, <3>1 DEF HomeInv
  <2>4. CASE \E g \in Page, fp \in {"none", "lost"} :
                /\ pages = LegacyPage(g.id, g)
                /\ rows = [i \in Id |->
                             IF i = g.id /\ fp # "lost"
                             THEN [RowFor(g, <<Flat, i>>, TRUE) EXCEPT !.fp = fp]
                             ELSE None]
    <3>1. PICK g \in Page, fp \in {"none", "lost"} :
                /\ pages = LegacyPage(g.id, g)
                /\ rows = [i \in Id |->
                             IF i = g.id /\ fp # "lost"
                             THEN [RowFor(g, <<Flat, i>>, TRUE) EXCEPT !.fp = fp]
                             ELSE None]
      BY <2>4
    <3>2. FilesOwned
      <4>1. ASSUME NEW p \in Decodable(pages) PROVE p = <<Flat, g.id>> /\ pages[p] = g
        BY <3>1, <4>1 DEF Decodable, IsPage, LegacyPage
      <4> QED  BY <4>1 DEF FilesOwned, MayHold
    <3>3. RowsOwned
      <4>1. ASSUME NEW i \in Id, rows[i] # None PROVE rows[i].path = <<Flat, i>>
        BY <3>1, <4>1 DEF RowFor
      <4> QED  BY <4>1 DEF RowsOwned, MayHold, Indexed
    <3> QED  BY <2>1, <2>2, <3>2, <3>3 DEF HomeInv
  <2> QED  BY <2>3, <2>4 DEF Init
<1>2. KeyInv /\ HomeInv /\ [Next]_vars => HomeInv'
  <2> SUFFICES ASSUME TypeOK, ExtKeyUnique, HomeInv, [Next]_vars PROVE HomeInv'
    BY DEF KeyInv
  <2>0. pages \in Files /\ rows \in Rows  BY DEF TypeOK, Files, Rows
  <2>1. CASE EnsureReady
    <3>1. CASE UNCHANGED <<pages, rows, fts>>
      BY <2>1, <3>1 DEF EnsureReady, HomeInv, FilesOwned, RowsOwned, OpOwned, PageWritten,
                        Promised, AckedAtHome, Keeps, OpReady, Indexed
    <3>2. CASE Rebuild \/ \E D : Pass(D)
      BY <2>1, <3>2, ScanHome DEF EnsureReady
    <3> QED  BY <2>1, <3>1, <3>2 DEF EnsureReady
  <2>2. ASSUME NEW g \in Page, UpsertBegin(g) PROVE HomeInv'
    <3> DEFINE id   == IF Owner(g.key) \ {g.id} = {} THEN g.id
                       ELSE CHOOSE i \in Owner(g.key) : TRUE
               key  == IF g.key = NoKey /\ rows[id] # None THEN rows[id].key ELSE g.key
               next == [g EXCEPT !.id = id, !.key = key]
    <3>1. id \in Id  BY DEF Owner, Indexed, Page
    <3>2. /\ op'.pc = "write" /\ op'.id = id
          /\ op'.page.id = id /\ op'.page.text = g.text
          /\ op'.prev = IF rows[id] = None THEN None ELSE rows[id].path
      BY <2>2 DEF UpsertBegin, Page
    <3>13. \A i \in Id : acked'[i] = IF i # id \/ acked[i] = {} THEN acked[i]
                                     ELSE acked[i] \cup {g.text}
      BY <2>2, <3>1 DEF UpsertBegin, Page, TypeOK
    <3>3. id # g.id => Unused(g.id)
      <4>1. SUFFICES ASSUME id # g.id, g.id \in Indexed, g.key \in {NoKey, rows[g.id].key}
                     PROVE  FALSE
        BY <2>2 DEF UpsertBegin
      <4>2. PICK j \in Owner(g.key) : j # g.id  BY <4>1
      <4>3. j \in Indexed /\ g.key # NoKey /\ rows[j].key = g.key  BY <4>2 DEF Owner
      <4> QED  BY <4>1, <4>2, <4>3 DEF ExtKeyUnique
    <3>4. /\ pages' = IF id # g.id THEN [pages EXCEPT ![Target(g)] = None] ELSE pages
          /\ rows' = IF id # g.id THEN Outdate({Target(g)}) ELSE rows
      BY <2>2 DEF UpsertBegin
    <3> HIDE DEF id
    <3>5. Target(g) \in Path /\ (id # g.id => ~IsPage(pages[Target(g)]))
      <4>1. Target(g) \in Path /\ Target(g)[2] = g.id  BY TargetPath DEF Target
      <4> QED  BY <3>3, <4>1 DEF Unused, Decodable
    <3>6. /\ \A p \in Path : IsPage(pages[p]) => pages'[p] = pages[p]
          /\ \A p \in Path : IsPage(pages'[p]) => pages'[p] = pages[p]
      BY <2>0, <3>4, <3>5 DEF Files, IsPage
    <3>7. FilesOwned'  BY <3>6 DEF HomeInv, FilesOwned, Decodable
    <3>8. RowsOwned'  BY <2>0, <3>4, OutdateRows DEF HomeInv, RowsOwned, Indexed
    <3>9. OpOwned'  BY <3>1, <3>2 DEF HomeInv, RowsOwned, OpOwned, Indexed
    <3>10. PageWritten' /\ OpReady'  BY <3>2 DEF PageWritten, OpReady
    <3>11. Promised'
      <4>1. acked'[id] = {} \/ g.text \in acked'[id]  BY <3>1, <3>13
      <4> QED  BY <3>2, <4>1 DEF Promised
    <3>12. AckedAtHome'
      <4> SUFFICES ASSUME NEW i \in Id, acked'[i] # {}
                   PROVE  \E k \in Kind : IsPage(pages'[<<k, i>>]) /\ pages'[<<k, i>>].id = i
                                          /\ pages'[<<k, i>>].text \in acked'[i]
        BY DEF AckedAtHome, Keeps
      <4>1. acked[i] # {} /\ acked[i] \subseteq acked'[i]  BY <3>13
      <4>2. PICK k \in Kind : Keeps(pages[<<k, i>>], i)  BY <4>1 DEF HomeInv, AckedAtHome
      <4>3. <<k, i>> \in Path  BY StoreAssumption DEF StoreAssumption, Path, Dir
      <4>4. pages'[<<k, i>>] = pages[<<k, i>>]  BY <3>6, <4>2, <4>3 DEF Keeps
      <4> QED  BY <4>1, <4>2, <4>4 DEF Keeps
    <3> QED  BY <3>7, <3>8, <3>9, <3>10, <3>11, <3>12 DEF HomeInv
  <2>3. CASE UpsertWrite
    <3>1. /\ op.pc = "write" /\ op.page \in Page /\ op.page.id = op.id /\ op.id \in Id
          /\ op'.pc = "unlink" /\ op'.page = op.page /\ op'.id = op.id /\ op'.prev = op.prev
      BY <2>3 DEF UpsertWrite, TypeOK, Op, HomeInv, OpReady
    <3>2. Target(op.page) = <<op.page.kind, op.id>> /\ Target(op.page) \in Path /\ op.page.kind \in Kind
      BY <3>1, TargetPath DEF Target, Page
    <3>3. pages' = [pages EXCEPT ![Target(op.page)] = op.page] /\ rows' = Outdate({Target(op.page)})
      BY <2>3 DEF UpsertWrite
    <3>4. pages'[Target(op.page)] = op.page
          /\ \A p \in Path : p # Target(op.page) => pages'[p] = pages[p]
      BY <2>0, <3>2, <3>3 DEF Files
    <3>5. FilesOwned'
      <4>1. MayHold(Target(op.page), op.page.id)  BY <3>1, <3>2 DEF MayHold
      <4> QED  BY <3>4, <4>1 DEF HomeInv, FilesOwned, Decodable
    <3>6. RowsOwned'  BY <2>0, <3>3, OutdateRows DEF HomeInv, RowsOwned, Indexed
    <3>7. OpOwned' /\ PageWritten' /\ OpReady'
      <4>1. Target(op.page)' = Target(op.page)  BY <3>1 DEF Target
      <4> QED  BY <3>1, <3>4, <4>1 DEF HomeInv, OpOwned, PageWritten, OpReady
    <3>8. Promised'  BY <2>3, <3>1 DEF UpsertWrite, HomeInv, Promised
    <3>9. AckedAtHome'
      <4> SUFFICES ASSUME NEW i \in Id, acked[i] # {} PROVE \E k \in Kind : Keeps(pages'[<<k, i>>], i)
        BY <2>3 DEF UpsertWrite, AckedAtHome, Keeps
      <4>1. PICK k \in Kind : Keeps(pages[<<k, i>>], i)  BY DEF HomeInv, AckedAtHome
      <4>2. <<k, i>> \in Path  BY StoreAssumption DEF StoreAssumption, Path, Dir
      <4>3. CASE i = op.id
        <5>1. op.page.text \in acked[i]  BY <3>1, <4>3 DEF HomeInv, Promised
        <5>2. IsPage(op.page)  BY <3>1, StoreAssumption DEF StoreAssumption, IsPage
        <5> QED  BY <3>1, <3>2, <3>4, <4>3, <5>1, <5>2 DEF Keeps
      <4>4. CASE i # op.id
        <5>1. <<k, i>> # Target(op.page)  BY <3>2, <4>4
        <5> QED  BY <3>4, <4>1, <4>2, <5>1 DEF Keeps
      <4> QED  BY <4>3, <4>4
    <3> QED  BY <3>5, <3>6, <3>7, <3>8, <3>9 DEF HomeInv
  <2>4. ASSUME UpsertUnlink \/ DeletePage PROVE HomeInv'
    <3>1. /\ op.pc \in {"unlink", "del"} /\ op.id \in Id
          /\ op'.page = op.page /\ op'.id = op.id /\ op'.prev = op.prev
          /\ op.pc = "unlink" => op'.pc = "row" /\ op.page \in Page /\ op.page.id = op.id
          /\ op.pc = "del" => op'.pc = "delrow" /\ acked[op.id] = {}
      BY <2>4 DEF UpsertUnlink, DeletePage, TypeOK, Op, HomeInv, OpReady, Promised
    <3>2. /\ acked' = acked
          /\ \A p \in Path : p # op.prev => pages'[p] = pages[p]
          /\ op.pc = "unlink" => pages'[Target(op.page)] = pages[Target(op.page)]
          /\ \A p \in Path : IsPage(pages'[p]) => pages'[p] = pages[p]
          /\ pages' # pages => op.prev # None
      <4>1. op.pc = "unlink" => Target(op.page) \in Path  BY <3>1, TargetPath
      <4>2. op.prev \in Path \cup {None}  BY DEF TypeOK, Op
      <4>3. CASE UpsertUnlink
        BY <2>0, <4>1, <4>2, <4>3 DEF UpsertUnlink, Files, IsPage
      <4>4. CASE DeletePage
        <5>1. None \notin Path  BY StoreAssumption DEF StoreAssumption
        <5> QED  BY <2>0, <4>2, <4>4, <5>1 DEF DeletePage, Files, IsPage
      <4> QED  BY <2>4, <4>3, <4>4
    <3>3. FilesOwned'  BY <3>2 DEF HomeInv, FilesOwned, Decodable
    <3>4. RowsOwned'
      <4>1. rows' = rows \/ \E P : rows' = Outdate(P)  BY <2>4 DEF UpsertUnlink, DeletePage
      <4> QED  BY <2>0, <4>1, OutdateRows DEF HomeInv, RowsOwned, Indexed
    <3>5. OpOwned' /\ PageWritten' /\ OpReady' /\ Promised'
      <4>1. Target(op.page)' = Target(op.page)  BY <3>1 DEF Target
      <4> QED  BY <3>1, <3>2, <4>1 DEF HomeInv, OpOwned, PageWritten, OpReady, Promised
    <3>6. AckedAtHome'
      <4> SUFFICES ASSUME NEW i \in Id, acked[i] # {} PROVE \E k \in Kind : Keeps(pages'[<<k, i>>], i)
        BY <3>2 DEF AckedAtHome, Keeps
      <4>1. PICK k \in Kind : Keeps(pages[<<k, i>>], i)  BY DEF HomeInv, AckedAtHome
      <4>2. <<k, i>> \in Path  BY StoreAssumption DEF StoreAssumption, Path, Dir
      <4>3. CASE i = op.id
        <5>1. op.pc = "unlink"  BY <3>1, <4>3
        <5>2. pages[Target(op.page)] = op.page /\ op.page.text \in acked[i]
          BY <4>3, <5>1 DEF HomeInv, PageWritten, Promised
        <5>3. Target(op.page) = <<op.page.kind, i>> /\ op.page.kind \in Kind
          BY <3>1, <4>3, <5>1 DEF Target, Page
        <5>4. IsPage(op.page)  BY <3>1, <5>1, StoreAssumption DEF StoreAssumption, IsPage
        <5> QED  BY <3>1, <3>2, <4>3, <5>1, <5>2, <5>3, <5>4 DEF Keeps
      <4>4. CASE i # op.id
        <5>1. op.prev # None => <<k, i>> # op.prev
          BY <4>4 DEF HomeInv, OpOwned, MayHold
        <5> QED  BY <3>2, <4>1, <4>2, <5>1 DEF Keeps
      <4> QED  BY <4>3, <4>4
    <3> QED  BY <3>3, <3>4, <3>5, <3>6 DEF HomeInv
  <2>5. CASE UpsertRow
    <3>1. /\ op.pc = "row" /\ op.page \in Page /\ op.page.id = op.id /\ op.id \in Id
          /\ op'.pc = "fts" /\ op'.page = op.page /\ op'.id = op.id /\ op'.prev = op.prev
          /\ UNCHANGED <<pages, acked>>
      BY <2>5 DEF UpsertRow, TypeOK, Op, HomeInv, OpReady
    <3>2. RowsOwned'
      <4>1. \A i \in Id : rows'[i] = IF i = op.id THEN RowFor(op.page, Target(op.page), TRUE) ELSE rows[i]
        BY <2>0, <2>5, <3>1 DEF UpsertRow, Rows
      <4>2. RowFor(op.page, Target(op.page), TRUE).path = <<op.page.kind, op.id>>
        BY <3>1 DEF RowFor, Target
      <4>3. MayHold(<<op.page.kind, op.id>>, op.id)  BY DEF MayHold
      <4> QED  BY <4>1, <4>2, <4>3 DEF HomeInv, RowsOwned, Indexed
    <3>3. (FilesOwned /\ OpOwned /\ PageWritten /\ OpReady /\ Promised /\ AckedAtHome)'
      BY <3>1 DEF HomeInv, FilesOwned, OpOwned, PageWritten, OpReady, Promised, AckedAtHome, Keeps, Target
    <3> QED  BY <3>2, <3>3 DEF HomeInv
  <2>6. CASE UpsertFts
    <3>1. /\ op.pc = "fts" /\ op.page \in Page /\ op.page.id = op.id /\ op.id \in Id
          /\ pages[Target(op.page)] = op.page
          /\ op' = Idle /\ UNCHANGED <<pages, rows>>
      BY <2>6 DEF UpsertFts, TypeOK, HomeInv, OpReady, PageWritten
    <3>2. \A i \in Id : acked'[i] = IF i = op.id THEN {op.page.text} ELSE acked[i]
      BY <2>6, <3>1 DEF UpsertFts, TypeOK
    <3>3. AckedAtHome'
      <4> SUFFICES ASSUME NEW i \in Id, acked'[i] # {}
                   PROVE  \E k \in Kind : IsPage(pages[<<k, i>>]) /\ pages[<<k, i>>].id = i
                                          /\ pages[<<k, i>>].text \in acked'[i]
        BY <3>1 DEF AckedAtHome, Keeps
      <4>1. CASE i = op.id
        <5>1. IsPage(op.page)  BY <3>1, StoreAssumption DEF StoreAssumption, IsPage
        <5>2. Target(op.page) = <<op.page.kind, i>> /\ op.page.kind \in Kind
          BY <3>1, <4>1 DEF Target, Page
        <5> QED  BY <3>1, <3>2, <4>1, <5>1, <5>2
      <4>2. CASE i # op.id
        BY <3>2, <4>2 DEF HomeInv, AckedAtHome, Keeps
      <4> QED  BY <4>1, <4>2
    <3>4. (FilesOwned /\ RowsOwned /\ OpOwned /\ PageWritten /\ OpReady /\ Promised)'
      BY <3>1 DEF HomeInv, FilesOwned, RowsOwned, OpOwned, PageWritten, OpReady, Promised, Idle, Indexed
    <3> QED  BY <3>3, <3>4 DEF HomeInv
  <2>7. ASSUME NEW i \in Id, DeleteBegin(i) PROVE HomeInv'
    <3>1. /\ i \in Indexed /\ op'.pc = "del" /\ op'.id = i /\ op'.prev = rows[i].path
          /\ UNCHANGED <<pages, rows>>
          /\ \A j \in Id : acked'[j] = IF j = i THEN {} ELSE acked[j]
      BY <2>7 DEF DeleteBegin, Idle, TypeOK
    <3>2. AckedAtHome'  BY <3>1 DEF HomeInv, AckedAtHome, Keeps
    <3>3. (FilesOwned /\ RowsOwned /\ OpOwned /\ PageWritten /\ OpReady /\ Promised)'
      BY <3>1 DEF HomeInv, FilesOwned, RowsOwned, OpOwned, PageWritten, OpReady, Promised, Indexed
    <3> QED  BY <3>2, <3>3 DEF HomeInv
  <2>8. CASE DeleteRow
    <3>1. /\ op.pc = "delrow" /\ op'.pc = "delfts" /\ op'.id = op.id /\ op'.prev = op.prev
          /\ UNCHANGED <<pages, acked>>
          /\ \A j \in Id : rows'[j] # None => rows[j] # None /\ rows'[j] = rows[j]
      BY <2>0, <2>8 DEF DeleteRow, TypeOK, Op, Rows
    <3> QED  BY <3>1 DEF HomeInv, FilesOwned, RowsOwned, OpOwned, PageWritten, OpReady, Promised,
                         AckedAtHome, Keeps, Indexed
  <2>9. ASSUME op' = Idle, UNCHANGED <<pages, acked>>,
               \A j \in Id : rows'[j] # None => rows[j] # None /\ rows'[j] = rows[j]
        PROVE  HomeInv'
    BY <2>9 DEF HomeInv, FilesOwned, RowsOwned, OpOwned, PageWritten, OpReady, Promised,
                AckedAtHome, Keeps, Indexed, Idle
  <2>10. CASE DeleteFts \/ Close \/ Crash \/ LoseDatabase
    BY <2>9, <2>10 DEF DeleteFts, Close, Crash, LoseDatabase
  <2>11. CASE Reconcile \/ ReconcileDeferred \/ Reindex
    BY <2>11, ScanHome DEF Reconcile, ReconcileDeferred, Reindex
  <2>12. CASE CrashInMigration
    <3>1. PICK S \in SUBSET Movable : pages' = Migrated(S) /\ rows' = Outdate(Moved(S))
      BY <2>12 DEF CrashInMigration
    <3>2. op = Idle /\ UNCHANGED <<op, acked>>  BY <2>12 DEF CrashInMigration
    <3>3. FilesOwned'  BY <2>0, <3>1, MigratedHome DEF HomeInv, FilesOwned
    <3>4. RowsOwned'  BY <2>0, <3>1, OutdateRows DEF HomeInv, RowsOwned, Indexed
    <3>5. AckedAtHome'
      BY <2>0, <3>1, <3>2, MigratedHome, StoreAssumption
         DEF StoreAssumption, HomeInv, AckedAtHome, Keeps
    <3>6. (OpOwned /\ PageWritten /\ OpReady /\ Promised)'
      BY <3>2 DEF Idle, OpOwned, PageWritten, OpReady, Promised
    <3> QED  BY <3>3, <3>4, <3>5, <3>6 DEF HomeInv
  <2>13. ASSUME NEW p \in Path, NEW g \in Page \cup {Junk}, EditPage(p, g) PROVE HomeInv'
    <3> DEFINE P == {p}
               S == IF IsPage(g) THEN {g.id} ELSE {}
    <3>1. P \in SUBSET Path /\ op = Idle /\ op' = op /\ Disown(P, S) /\ rows' = Outdate(P)
      BY <2>13 DEF EditPage
    <3>2. pages' \in Files /\ \A q \in Path \ P : pages'[q] = pages[q]
      BY <2>0, <2>13 DEF EditPage, Files
    <3>3. \A q \in P : IsPage(pages'[q]) => MayHold(q, pages'[q].id)
      BY <2>0, <2>13 DEF EditPage, Files
    <3> HIDE DEF P, S
    <3> QED  BY <3>1, <3>2, <3>3, OutsideHome
  <2>14. ASSUME NEW p \in Path, RemovePage(p) PROVE HomeInv'
    <3> DEFINE P == {p}
    <3>1. P \in SUBSET Path /\ op = Idle /\ op' = op /\ Disown(P, {}) /\ rows' = Outdate(P)
      BY <2>14 DEF RemovePage
    <3>2. pages' \in Files /\ \A q \in Path \ P : pages'[q] = pages[q]
      BY <2>0, <2>14 DEF RemovePage, Files
    <3>3. \A q \in P : ~IsPage(pages'[q])
      BY <2>0, <2>14 DEF RemovePage, Files, IsPage
    <3> HIDE DEF P
    <3> QED  BY <3>1, <3>2, <3>3, OutsideHome
  <2>15. ASSUME NEW p \in Path, NEW q \in Path, RenamePage(p, q) PROVE HomeInv'
    <3> DEFINE P == {p, q}
    <3>1. P \in SUBSET Path /\ op = Idle /\ op' = op /\ Disown(P, {}) /\ rows' = Outdate(P)
      BY <2>15 DEF RenamePage
    <3>2. pages' \in Files /\ \A r \in Path \ P : pages'[r] = pages[r]
      BY <2>0, <2>15 DEF RenamePage, Files
    <3>3. \A r \in P : IsPage(pages'[r]) => MayHold(r, pages'[r].id)
      BY <2>0, <2>15 DEF RenamePage, Files, IsPage
    <3> HIDE DEF P
    <3> QED  BY <3>1, <3>2, <3>3, OutsideHome
  <2>16. CASE UNCHANGED vars
    BY <2>16 DEF vars, HomeInv, FilesOwned, RowsOwned, OpOwned, PageWritten, OpReady, Promised,
                 AckedAtHome, Keeps, Indexed
  <2> QED
    BY <2>1, <2>2, <2>3, <2>4, <2>5, <2>6, <2>7, <2>8, <2>10, <2>11, <2>12, <2>13, <2>14, <2>15,
       <2>16 DEF Next, Step, Interference
<1> QED  BY <1>1, <1>2, KeyInvariant, PTL DEF Spec

\* What upsert acknowledged stays on disk.
THEOREM AckedDurable == Spec => []AckedOnDisk
<1>1. HomeInv => AckedOnDisk
  BY StoreAssumption DEF StoreAssumption, HomeInv, AckedAtHome, Keeps, AckedOnDisk, Decodable, Path, Dir
<1> QED  BY <1>1, HomeInvariant, PTL

-----------------------------------------------------------------------------
(* What the two scans make of one row.                                     *)

\* The pages of i a pass writes rows from.
Claims(pg, rs, at, D, i) == Holders(pg, Pending(pg, rs, at, D), i)

\* A rebuild reads the row of i from the last page of i, and its text with it.
LEMMA RebuiltRow ==
    ASSUME NEW pg \in Files, NEW i \in Id
    PROVE  LET H == Holders(pg, Decodable(pg), i)
               p == Last(H)
               r == RebuiltRows(pg)[i]
           IN /\ r = None <=> H = {}
              /\ H # {} => /\ p \in Decodable(pg) /\ p \in Path /\ pg[p] \in Page /\ pg[p].id = i
                           /\ r.kind = pg[p].kind /\ r.text = pg[p].text /\ r.path = p
                           /\ r.key \in {pg[p].key, NoKey} /\ r.fp = "fresh"
                           /\ RebuiltFts(pg)[i] = r.text
<1> DEFINE D == Decodable(pg)
           H == Holders(pg, D, i)
           p == Last(H)
           r == RebuiltRows(pg)[i]
<1>1. CASE H = {}
  BY <1>1 DEF RebuiltRows
<1>2. CASE H # {}
  <2>1. /\ r = RowFor(pg[p], p, FirstClaim(pg, D, p)) /\ RebuiltFts(pg)[i] = pg[p].text
    BY <1>2 DEF RebuiltRows, RebuiltFts
  <2>2. r.kind = pg[p].kind /\ r.text = pg[p].text /\ r.path = p
        /\ r.key \in {pg[p].key, NoKey} /\ r.fp = "fresh"
    BY <2>1 DEF RowFor
  <2> HIDE DEF D
  <2>3. D \in SUBSET Decodable(pg)  BY DEF D
  <2>4. p \in D /\ p \in Path /\ pg[p] \in Page /\ pg[p].id = i
    BY <1>2, <2>3, LastHolder
  <2>5. FirstClaim(pg, D, p) \in BOOLEAN  BY DEF FirstClaim
  <2>6. r \in Row  BY <2>1, <2>4, <2>5, RowForRow
  <2>7. r # None  BY <2>6, StoreAssumption DEF StoreAssumption
  <2> QED  BY <1>2, <2>1, <2>2, <2>4, <2>7 DEF D
<1> QED  BY <1>1, <1>2

\* A pass drops the row of i when its page is gone, or another entry is read
\* from its page; it reads the row from the last pending page of i, or keeps it.
LEMMA ReconciledRow ==
    ASSUME NEW pg \in Files, NEW rs \in Rows, NEW at, NEW D, NEW i \in Id
    PROVE  LET H == Claims(pg, rs, at, D, i)
               p == Last(H)
               r == ReconciledRows(pg, rs, at, D)[i]
           IN /\ r = None <=> \/ i \in Removals(pg, at)
                              \/ H = {} /\ (rs[i] = None \/ rs[i].path \in Pending(pg, rs, at, D))
              /\ r # None /\ H # {} =>
                    /\ p \in Pending(pg, rs, at, D) /\ p \in Path /\ pg[p] \in Page /\ pg[p].id = i
                    /\ r.kind = pg[p].kind /\ r.text = pg[p].text /\ r.path = p
                    /\ r.key \in {pg[p].key, NoKey} /\ r.fp = "fresh"
                    /\ ReconciledFts(pg, rs, at, D)[i] = r.text
              /\ r # None /\ H = {} =>
                    /\ r.kind = rs[i].kind /\ r.text = rs[i].text /\ r.path = rs[i].path
                    /\ r.key \in {rs[i].key, NoKey}
                    /\ r.fp = IF \E q \in Refreshed(pg, rs, at, D) : at[q] = i THEN "fresh" ELSE rs[i].fp
                    /\ ReconciledFts(pg, rs, at, D)[i] = fts[i]
<1> DEFINE P == Pending(pg, rs, at, D)
           H == Holders(pg, P, i)
           p == Last(H)
           r == ReconciledRows(pg, rs, at, D)[i]
<1>1. P \in SUBSET Decodable(pg)  BY DEF Pending, ReadPages
<1>2. None \notin Row  BY StoreAssumption DEF StoreAssumption
<1>3. CASE i \in Removals(pg, at)
  BY <1>3 DEF ReconciledRows
<1>4. CASE i \notin Removals(pg, at) /\ H # {}
  <2>1. /\ r = RowFor(pg[p], p, KeepsKey(pg, rs, P, p))
        /\ ReconciledFts(pg, rs, at, D)[i] = pg[p].text
    BY <1>4 DEF ReconciledRows, ReconciledFts
  <2>2. r.kind = pg[p].kind /\ r.text = pg[p].text /\ r.path = p
        /\ r.key \in {pg[p].key, NoKey} /\ r.fp = "fresh"
    BY <2>1 DEF RowFor
  <2>3. KeepsKey(pg, rs, P, p) \in BOOLEAN  BY DEF KeepsKey, FirstClaim
  <2> HIDE DEF P
  <2>4. p \in P /\ p \in Path /\ pg[p] \in Page /\ pg[p].id = i
    BY <1>1, <1>4, LastHolder
  <2>5. r \in Row  BY <2>1, <2>3, <2>4, RowForRow
  <2> QED  BY <1>2, <1>4, <2>1, <2>2, <2>4, <2>5 DEF P, Claims
<1>5. CASE i \notin Removals(pg, at) /\ H = {} /\ (rs[i] = None \/ rs[i].path \in P)
  BY <1>5 DEF ReconciledRows, Claims
<1>6. CASE i \notin Removals(pg, at) /\ H = {} /\ ~(rs[i] = None \/ rs[i].path \in P)
  <2> DEFINE k == IF \E q \in P : KeepsKey(pg, rs, P, q) /\ pg[q].key = rs[i].key /\ pg[q].id # i
                  THEN NoKey ELSE rs[i].key
             f == IF \E q \in Refreshed(pg, rs, at, D) : at[q] = i THEN "fresh" ELSE rs[i].fp
  <2>1. /\ r = [rs[i] EXCEPT !.key = k, !.fp = f]
        /\ ReconciledFts(pg, rs, at, D)[i] = fts[i]
    BY <1>6 DEF ReconciledRows, ReconciledFts
  <2>2. rs[i] \in Row /\ k \in {rs[i].key, NoKey} /\ f \in {"fresh", rs[i].fp}
    BY <1>6 DEF Rows
  <2>3. f = IF \E q \in Refreshed(pg, rs, at, D) : at[q] = i THEN "fresh" ELSE rs[i].fp
    OBVIOUS
  <2> HIDE DEF k, f, P, r
  <2>4. /\ r.kind = rs[i].kind /\ r.text = rs[i].text /\ r.path = rs[i].path
        /\ r.key = k /\ r.fp = f /\ r \in Row
    BY <2>1, <2>2 DEF Row, Key
  <2> QED  BY <1>2, <1>6, <2>1, <2>2, <2>3, <2>4 DEF Claims, P, r
<1> QED  BY <1>3, <1>4, <1>5, <1>6 DEF Claims

-----------------------------------------------------------------------------
(* Full-text search.                                                       *)

\* The number of crashes never falls.
LEMMA CrashesGrow == TypeOK /\ [Next]_vars /\ crashes' = 0 => crashes = 0
<1> SUFFICES ASSUME TypeOK, [Next]_vars, crashes' # crashes PROVE crashes' # 0
  OBVIOUS
<1>1. ASSUME Dies PROVE crashes' # 0
  BY <1>1 DEF Dies, TypeOK
<1>2. CASE Crash \/ CrashInMigration
  BY <1>1, <1>2 DEF Crash, CrashInMigration
<1>3. CASE Step
  <2>1. ~EnsureReady  BY DEF EnsureReady
  <2>2. \A g \in Page : ~UpsertBegin(g)  BY DEF UpsertBegin
  <2>3. ~UpsertWrite /\ ~UpsertUnlink /\ ~UpsertRow /\ ~UpsertFts
    BY DEF UpsertWrite, UpsertUnlink, UpsertRow, UpsertFts
  <2>4. ~(\E i \in Id : DeleteBegin(i)) /\ ~DeletePage /\ ~DeleteRow /\ ~DeleteFts
    BY DEF DeleteBegin, DeletePage, DeleteRow, DeleteFts
  <2>5. ~Reconcile /\ ~ReconcileDeferred /\ ~Reindex /\ ~Close
    BY DEF Reconcile, ReconcileDeferred, Reindex, Close
  <2> QED  BY <1>3, <2>1, <2>2, <2>3, <2>4, <2>5 DEF Step
<1>4. ~LoseDatabase  BY DEF LoseDatabase, Outside
<1>5. \A p \in Path, g \in Page \cup {Junk} : ~EditPage(p, g)  BY DEF EditPage, Outside
<1>6. \A p \in Path : ~RemovePage(p)  BY DEF RemovePage, Outside
<1>7. \A p, q \in Path : ~RenamePage(p, q)  BY DEF RenamePage, Outside
<1>8. CASE UNCHANGED vars
  BY <1>8 DEF vars
<1> QED  BY <1>2, <1>3, <1>4, <1>5, <1>6, <1>7, <1>8 DEF Next, Interference

\* The texts agree with the rows, but for the row a write has just stored;
\* a delete that is about to remove the text has removed the row.
TextsFollow ==
    crashes = 0 =>
        /\ \A i \in Indexed : fts[i] = rows[i].text \/ (op.pc = "fts" /\ i = op.id)
        /\ op.pc = "fts" => op.id \in Indexed /\ rows[op.id].text = op.page.text
        /\ op.pc = "delfts" => op.id \notin Indexed

\* A pass enters a text with each row it reads, and keeps it with each it keeps.
LEMMA ScanTexts ==
    ASSUME TypeOK, \A i \in Indexed : fts[i] = rows[i].text,
           Rebuild \/ \E D : Pass(D)
    PROVE  \A i \in Indexed' : fts'[i] = rows'[i].text
<1>1. pages \in Files /\ rows \in Rows /\ fts \in Texts  BY DEF TypeOK, Files, Rows, Texts
<1>2. Disk \in Files
  <2>1. Movable \in SUBSET Name  BY DEF Movable
  <2> QED  BY <1>1, <2>1, MigratedFiles DEF Disk
<1>3. \A i \in Id : RebuiltRows(Disk)[i] # None => RebuiltFts(Disk)[i] = RebuiltRows(Disk)[i].text
  BY <1>2, RebuiltRow
<1>4. CASE Rebuild
  BY <1>3, <1>4 DEF Rebuild, Indexed
<1>5. ASSUME NEW D, Pass(D) PROVE \A i \in Indexed' : fts'[i] = rows'[i].text
  <2> DEFINE rs == Outdate(Moved(Movable))
  <2>1. PICK o \in Outcomes(D) : rows' = o.rows /\ fts' = o.fts  BY <1>5 DEF Pass
  <2>2. CASE Unfingerprinted(rows)
    BY <1>3, <2>1, <2>2 DEF Outcomes, Indexed
  <2>3. CASE ~Unfingerprinted(rows)
    <3>1. PICK at \in StoredMaps(rs) :
              o = [rows |-> ReconciledRows(Disk, rs, at, D), fts |-> ReconciledFts(Disk, rs, at, D)]
      BY <2>1, <2>3 DEF Outcomes
    <3>2. rs \in Rows /\ \A i \in Id : rs[i] # None => fts[i] = rs[i].text
      BY <1>1, OutdateRows DEF Indexed
    <3> HIDE DEF rs
    <3>3. ASSUME NEW i \in Id, ReconciledRows(Disk, rs, at, D)[i] # None
          PROVE  ReconciledFts(Disk, rs, at, D)[i] = ReconciledRows(Disk, rs, at, D)[i].text
      BY <1>2, <3>2, <3>3, ReconciledRow
    <3> QED  BY <2>1, <3>1, <3>3 DEF Indexed
  <2> QED  BY <2>2, <2>3
<1> QED  BY <1>4, <1>5

\* Every step keeps texts and rows together.
LEMMA TextsStep == TypeOK /\ TextsFollow /\ [Next]_vars => TextsFollow'
<1> SUFFICES ASSUME TypeOK, TextsFollow, [Next]_vars, crashes' = 0
             PROVE  TextsFollow'
  BY DEF TextsFollow
<1>0. pages \in Files /\ rows \in Rows /\ fts \in Texts /\ crashes = 0
  BY CrashesGrow DEF TypeOK, Files, Rows, Texts
<1>1. /\ \A i \in Indexed : fts[i] = rows[i].text \/ (op.pc = "fts" /\ i = op.id)
      /\ op.pc = "fts" => op.id \in Indexed /\ rows[op.id].text = op.page.text
      /\ op.pc = "delfts" => op.id \notin Indexed
  BY <1>0 DEF TextsFollow
<1>2. ASSUME NEW P, rows' = Outdate(P) \/ rows' = rows, fts' = fts,
             op.pc # "fts", op'.pc \notin {"fts", "delfts"}
      PROVE  TextsFollow'
  BY <1>0, <1>1, <1>2, OutdateRows DEF TextsFollow, Indexed
<1>3. ASSUME op = Idle, op' = op, Rebuild \/ \E D : Pass(D)
      PROVE  TextsFollow'
  <2>1. op.pc = "idle"  BY <1>3 DEF Idle
  <2> QED  BY <1>1, <1>3, <2>1, ScanTexts DEF TextsFollow
<1>4. CASE EnsureReady
  <2>1. CASE UNCHANGED <<pages, rows, fts>>
    BY <1>2, <1>4, <2>1 DEF EnsureReady, Idle
  <2> QED  BY <1>3, <1>4, <2>1 DEF EnsureReady
<1>5. ASSUME NEW g \in Page, UpsertBegin(g) PROVE TextsFollow'
  <2>1. op = Idle /\ op'.pc = "write" /\ fts' = fts
        /\ (rows' = rows \/ rows' = Outdate({Target(g)}))
    BY <1>5 DEF UpsertBegin
  <2> QED  BY <1>2, <2>1 DEF Idle
<1>6. CASE UpsertWrite
  BY <1>2, <1>6 DEF UpsertWrite, TypeOK, Op
<1>7. CASE UpsertUnlink
  BY <1>2, <1>7 DEF UpsertUnlink, TypeOK, Op
<1>8. CASE UpsertRow
  <2>1. /\ op.pc = "row" /\ op.id \in Id /\ op.page \in Page /\ Target(op.page) \in Path
        /\ op'.pc = "fts" /\ op'.id = op.id /\ op'.page = op.page /\ fts' = fts
    BY <1>8, TargetPath DEF UpsertRow, TypeOK, Op
  <2>2. \A j \in Id : rows'[j] = IF j = op.id THEN RowFor(op.page, Target(op.page), TRUE) ELSE rows[j]
    BY <1>0, <1>8, <2>1 DEF UpsertRow, Rows
  <2>3. RowFor(op.page, Target(op.page), TRUE) \in Row  BY <2>1, RowForRow
  <2>4. RowFor(op.page, Target(op.page), TRUE) # None
    BY <2>3, StoreAssumption DEF StoreAssumption
  <2>5. RowFor(op.page, Target(op.page), TRUE).text = op.page.text  BY DEF RowFor
  <2> QED  BY <1>1, <2>1, <2>2, <2>4, <2>5 DEF TextsFollow, Indexed
<1>9. CASE UpsertFts
  <2>1. /\ op.pc = "fts" /\ op.id \in Id /\ rows' = rows /\ op'.pc = "idle"
        /\ \A j \in Id : fts'[j] = IF j = op.id THEN op.page.text ELSE fts[j]
    BY <1>0, <1>9 DEF UpsertFts, TypeOK, Idle, Texts
  <2> QED  BY <1>1, <2>1 DEF TextsFollow, Indexed
<1>10. ASSUME NEW i \in Id, DeleteBegin(i) PROVE TextsFollow'
  BY <1>2, <1>10 DEF DeleteBegin, Idle
<1>11. CASE DeletePage
  BY <1>2, <1>11 DEF DeletePage, TypeOK, Op
<1>12. CASE DeleteRow
  <2>1. /\ op.pc = "delrow" /\ op'.pc = "delfts" /\ op'.id = op.id /\ op.id \in Id /\ fts' = fts
        /\ \A j \in Id : rows'[j] = IF j = op.id THEN None ELSE rows[j]
    BY <1>0, <1>12 DEF DeleteRow, TypeOK, Op, Rows
  <2> QED  BY <1>1, <2>1 DEF TextsFollow, Indexed
<1>13. CASE DeleteFts
  <2>1. /\ op.pc = "delfts" /\ op.id \in Id /\ rows' = rows /\ op'.pc = "idle"
        /\ \A j \in Id : j # op.id => fts'[j] = fts[j]
    BY <1>0, <1>13 DEF DeleteFts, TypeOK, Idle, Texts
  <2> QED  BY <1>1, <2>1 DEF TextsFollow, Indexed
<1>14. CASE Reconcile \/ ReconcileDeferred \/ Reindex
  BY <1>3, <1>14 DEF Reconcile, ReconcileDeferred, Reindex
<1>15. CASE Close
  BY <1>2, <1>15 DEF Close, Idle
<1>16. CASE Crash \/ CrashInMigration
  <2>1. Dies /\ crashes \in Nat  BY <1>16 DEF Crash, CrashInMigration, TypeOK
  <2> QED  BY <1>0, <2>1 DEF Dies
<1>17. CASE LoseDatabase
  BY <1>17 DEF LoseDatabase, TextsFollow, Indexed, Idle
<1>18. ASSUME NEW p \in Path, NEW g \in Page \cup {Junk}, EditPage(p, g) PROVE TextsFollow'
  BY <1>2, <1>18 DEF EditPage, Idle
<1>19. ASSUME NEW p \in Path, RemovePage(p) PROVE TextsFollow'
  BY <1>2, <1>19 DEF RemovePage, Idle
<1>20. ASSUME NEW p \in Path, NEW q \in Path, RenamePage(p, q) PROVE TextsFollow'
  BY <1>2, <1>20 DEF RenamePage, Idle
<1>21. CASE UNCHANGED vars
  BY <1>0, <1>1, <1>21 DEF vars, TextsFollow, Indexed
<1> QED
  BY <1>4, <1>5, <1>6, <1>7, <1>8, <1>9, <1>10, <1>11, <1>12, <1>13, <1>14, <1>15, <1>16, <1>17,
     <1>18, <1>19, <1>20, <1>21 DEF Next, Step, Interference

\* Full-text search finds every row by its present text.
THEOREM TextsAgree == Spec => []FtsFollows
<1>1. Init => TextsFollow
  BY DEF Init, TextsFollow, Indexed, Idle
<1>2. TextsFollow => FtsFollows
  BY DEF TextsFollow, FtsFollows, Idle
<1> QED  BY <1>1, <1>2, TextsStep, TypeCorrect, PTL DEF Spec

-----------------------------------------------------------------------------
(* Rows and the files they were read from.                                 *)

\* No two rows of rs are at one path.
UniquePaths(rs) ==
    \A i, j \in Id : rs[i] # None /\ rs[j] # None /\ rs[i].path = rs[j].path => i = j

\* A row whose fingerprint matches its file says what the file says.
FreshIn(pg, rs) ==
    \A i \in Id : rs[i] # None /\ rs[i].fp = "fresh" => RowMatches(pg, i, rs[i])

RowsInv == UniquePaths(rows) /\ FreshIn(pages, rows)

\* Rows outdated at the paths P stay true of a disk changed at P only.
LEMMA OutdatedFresh ==
    ASSUME rows \in Rows, FreshIn(pages, rows), UniquePaths(rows), NEW P, NEW pg,
           \A p \in Path \ P : pg[p] = pages[p]
    PROVE  FreshIn(pg, Outdate(P)) /\ UniquePaths(Outdate(P))
<1>1. UniquePaths(Outdate(P))
  BY OutdateRows DEF UniquePaths
<1>2. ASSUME NEW i \in Id, Outdate(P)[i] # None, Outdate(P)[i].fp = "fresh"
      PROVE  RowMatches(pg, i, Outdate(P)[i])
  <2>1. rows[i] \in Row /\ Outdate(P)[i] \in Row
    BY <1>2, OutdateRows DEF Rows
  <2>2. CASE rows[i].path \in P /\ rows[i].fp = "fresh"
    <3>1. Outdate(P)[i] = [rows[i] EXCEPT !.fp = "stale"]
      BY <2>1, <2>2, StoreAssumption DEF Outdate, StoreAssumption
    <3> QED  BY <1>2, <2>1, <3>1 DEF Row
  <2>3. CASE ~(rows[i].path \in P /\ rows[i].fp = "fresh")
    <3>1. Outdate(P)[i] = rows[i]
      BY <2>3 DEF Outdate
    <3>2. rows[i].path \in Path \ P
      BY <1>2, <2>1, <2>3, <3>1 DEF Row
    <3> QED  BY <1>2, <2>1, <3>1, <3>2, StoreAssumption DEF FreshIn, RowMatches, StoreAssumption
  <2> QED  BY <2>2, <2>3
<1> QED  BY <1>1, <1>2 DEF FreshIn

\* A rebuild reads fresh rows, each at a path of its own.
LEMMA RebuiltFresh ==
    ASSUME NEW pg \in Files
    PROVE  FreshIn(pg, RebuiltRows(pg)) /\ UniquePaths(RebuiltRows(pg))
<1>1. ASSUME NEW i \in Id, RebuiltRows(pg)[i] # None
      PROVE  RowMatches(pg, i, RebuiltRows(pg)[i]) /\ pg[RebuiltRows(pg)[i].path].id = i
  <2>1. pg[RebuiltRows(pg)[i].path] \in Page
    BY <1>1, RebuiltRow
  <2>2. IsPage(pg[RebuiltRows(pg)[i].path])
    BY <2>1, StoreAssumption DEF IsPage, StoreAssumption
  <2> QED  BY <1>1, <2>2, RebuiltRow DEF RowMatches
<1> QED  BY <1>1 DEF FreshIn, UniquePaths

\* The row a pass remembers for the path of i is the row of i.
LEMMA StoredAt ==
    ASSUME NEW rs, UniquePaths(rs), NEW at \in StoredMaps(rs), NEW i \in Id, rs[i] # None
    PROVE  rs[i].path \in DOMAIN at /\ at[rs[i].path] = i
<1>1. rs[i].path \in StoredPaths(rs)
  BY DEF StoredPaths
<1>2. at \in [StoredPaths(rs) -> Id] /\ rs[at[rs[i].path]] # None
      /\ rs[at[rs[i].path]].path = rs[i].path
  BY <1>1 DEF StoredMaps
<1> QED  BY <1>1, <1>2 DEF UniquePaths

\* What is remembered for a path is a row at that path.
LEMMA StoredIs ==
    ASSUME NEW rs, NEW at \in StoredMaps(rs), NEW p \in DOMAIN at
    PROVE  at[p] \in Id /\ rs[at[p]] # None /\ rs[at[p]].path = p
BY DEF StoredMaps

\* A row the pass removes, its page being gone.
LEMMA Removed ==
    ASSUME NEW pg, NEW rs, UniquePaths(rs), NEW at \in StoredMaps(rs), NEW i \in Id
    PROVE  i \in Removals(pg, at) <=> rs[i] # None /\ rs[i].path \notin Listed(pg)
<1>1. ASSUME i \in Removals(pg, at) PROVE rs[i] # None /\ rs[i].path \notin Listed(pg)
  <2>1. PICK p \in DOMAIN at \ Listed(pg) : at[p] = i  BY <1>1 DEF Removals
  <2> QED  BY <2>1, StoredIs
<1>2. ASSUME rs[i] # None, rs[i].path \notin Listed(pg) PROVE i \in Removals(pg, at)
  BY <1>2, StoredAt DEF Removals
<1> QED  BY <1>1, <1>2

\* A page the pass skips belongs to the row at its path, which says what it says.
LEMMA Skipped ==
    ASSUME NEW pg \in Files, NEW rs, FreshIn(pg, rs), UniquePaths(rs),
           NEW at \in StoredMaps(rs), NEW D,
           NEW p \in Decodable(pg), p \notin D, p \notin Pending(pg, rs, at, D)
    PROVE  /\ p \in DOMAIN at /\ rs[at[p]] # None /\ rs[at[p]].path = p
           /\ at[p] = pg[p].id
           /\ RowMatches(pg, at[p], rs[at[p]])
<1>1. p \in Unchanged(rs, at) \/ p \in Refreshed(pg, rs, at, D)
  BY DEF Pending, ReadPages
<1>2. pg[p] \in Page /\ IsPage(pg[p]) /\ pg[p] # Junk
  BY Decoded DEF Decodable, IsPage
<1>3. CASE p \in Unchanged(rs, at)
  <2>1. p \in DOMAIN at /\ rs[at[p]].fp = "fresh"  BY <1>3 DEF Unchanged
  <2>2. at[p] \in Id /\ rs[at[p]] # None /\ rs[at[p]].path = p  BY <2>1, StoredIs
  <2> QED  BY <1>2, <2>1, <2>2 DEF FreshIn, RowMatches
<1>4. CASE p \in Refreshed(pg, rs, at, D)
  <2>1. p \in DOMAIN at /\ at[p] = pg[p].id /\ SameData(pg[p], rs[at[p]])
    BY <1>4 DEF Refreshed
  <2>2. rs[at[p]] # None /\ rs[at[p]].path = p  BY <2>1, StoredIs
  <2> QED  BY <1>2, <2>1, <2>2 DEF SameData, RowMatches
<1> QED  BY <1>1, <1>3, <1>4

\* A pass keeps fresh rows true, and paths unique: a page it reads takes the
\* place of any other row at its path.
LEMMA ReconciledFresh ==
    ASSUME NEW pg \in Files, NEW rs \in Rows, FreshIn(pg, rs), UniquePaths(rs),
           NEW at \in StoredMaps(rs), NEW D
    PROVE  /\ FreshIn(pg, ReconciledRows(pg, rs, at, D))
           /\ UniquePaths(ReconciledRows(pg, rs, at, D))
<1> DEFINE R == ReconciledRows(pg, rs, at, D)
           P == Pending(pg, rs, at, D)
           H(i) == Claims(pg, rs, at, D, i)
<1>1. ASSUME NEW i \in Id, R[i] # None, H(i) # {}
      PROVE  RowMatches(pg, i, R[i]) /\ R[i].path \in P /\ pg[R[i].path].id = i
  <2>1. R[i].path \in P /\ pg[R[i].path] \in Page
    BY <1>1, ReconciledRow
  <2>2. IsPage(pg[R[i].path])
    BY <2>1, StoreAssumption DEF IsPage, StoreAssumption
  <2> QED  BY <1>1, <2>1, <2>2, ReconciledRow DEF RowMatches
<1>2. ASSUME NEW i \in Id, R[i] # None, H(i) = {}
      PROVE  /\ rs[i] # None /\ rs[i].path \notin P /\ R[i].path = rs[i].path
             /\ R[i].fp = "fresh" => RowMatches(pg, i, R[i])
  <2>1. rs[i] # None /\ rs[i].path \notin P /\ R[i].path = rs[i].path
    BY <1>2, ReconciledRow
  <2>2. ASSUME R[i].fp = "fresh" PROVE RowMatches(pg, i, rs[i])
    <3>1. CASE rs[i].fp = "fresh"
      BY <2>1, <3>1 DEF FreshIn
    <3>2. CASE rs[i].fp # "fresh"
      <4>1. PICK q \in Refreshed(pg, rs, at, D) : at[q] = i
        BY <1>2, <2>2, <3>2, ReconciledRow
      <4>2. /\ q \in DOMAIN at /\ at[q] = pg[q].id /\ SameData(pg[q], rs[at[q]])
            /\ q \in Decodable(pg)
        BY <4>1 DEF Refreshed, ReadPages
      <4>3. rs[i].path = q  BY <4>1, <4>2, StoredIs
      <4> QED  BY <4>1, <4>2, <4>3 DEF RowMatches, SameData, Decodable
    <3> QED  BY <3>1, <3>2
  <2> QED  BY <1>2, <2>1, <2>2, ReconciledRow DEF RowMatches
<1> HIDE DEF R, P, H
<1>3. FreshIn(pg, R)
  BY <1>1, <1>2 DEF FreshIn
<1>4. UniquePaths(R)
  BY <1>1, <1>2 DEF UniquePaths
<1> QED  BY <1>3, <1>4 DEF R

\* The disk a scan reads, and the rows it starts from.
LEMMA ScanStart ==
    ASSUME TypeOK, RowsInv
    PROVE  LET rs == Outdate(Moved(Movable))
           IN /\ Disk \in Files /\ rs \in Rows /\ FreshIn(Disk, rs) /\ UniquePaths(rs)
              /\ \A i \in Id : /\ rs[i] = None <=> rows[i] = None
                               /\ rows[i] # None => rs[i].path = rows[i].path
<1>1. pages \in Files /\ rows \in Rows  BY DEF TypeOK, Files, Rows
<1>2. Movable \in SUBSET Name  BY DEF Movable
<1>3. Disk \in Files  BY <1>1, <1>2, MigratedFiles DEF Disk
<1>4. \A p \in Path \ Moved(Movable) : Disk[p] = pages[p]
  <2> SUFFICES ASSUME NEW p \in Path, p \notin Moved(Movable), p[2] \in Movable
               PROVE  Disk[p] = pages[p]
    BY DEF Disk, Migrated
  <2>1. p = <<p[1], p[2]>>  BY DEF Path
  <2>2. p[1] # Flat /\ p[1] # pages[<<Flat, p[2]>>].kind  BY <2>1 DEF Moved
  <2> QED  BY <2>2 DEF Disk, Migrated
<1> QED  BY <1>1, <1>3, <1>4, OutdateRows, OutdatedFresh DEF RowsInv

\* A scan leaves fresh rows true and every row at a path of its own.
LEMMA ScanRows ==
    ASSUME TypeOK, RowsInv, Rebuild \/ \E D : Pass(D)
    PROVE  RowsInv'
<1> DEFINE rs == Outdate(Moved(Movable))
<1>1. /\ Disk \in Files /\ rs \in Rows /\ FreshIn(Disk, rs) /\ UniquePaths(rs) /\ pages' = Disk
  BY ScanStart DEF Rebuild, Pass
<1>2. CASE rows' = RebuiltRows(Disk)
  BY <1>1, <1>2, RebuiltFresh DEF RowsInv, FreshIn, UniquePaths
<1>3. ASSUME NEW D, NEW at \in StoredMaps(rs), rows' = ReconciledRows(Disk, rs, at, D)
      PROVE  RowsInv'
  <2> HIDE DEF rs
  <2>1. FreshIn(Disk, rows') /\ UniquePaths(rows')  BY <1>1, <1>3, ReconciledFresh
  <2> QED  BY <1>1, <2>1 DEF RowsInv, FreshIn, UniquePaths
<1> QED  BY <1>2, <1>3 DEF Rebuild, Pass, Outcomes

\* Rows and files stay together.
THEOREM RowsInvariant == Spec => []RowsInv
<1>1. Init => RowsInv
  <2> SUFFICES ASSUME Init PROVE RowsInv
    OBVIOUS
  <2>1. \A i, j \in Id : rows[i] # None /\ rows[j] # None => i = j
    BY DEF Init
  <2>2. ASSUME NEW i \in Id, rows[i] # None PROVE rows[i].fp # "fresh"
    <3>1. PICK g \in Page : rows[i] = [RowFor(g, <<Flat, i>>, TRUE) EXCEPT !.fp = "none"]
      BY <2>2 DEF Init
    <3> QED  BY <3>1 DEF RowFor
  <2> QED  BY <2>1, <2>2 DEF RowsInv, UniquePaths, FreshIn
<1>2. TypeOK /\ HomeInv /\ RowsInv /\ [Next]_vars => RowsInv'
  <2> SUFFICES ASSUME TypeOK, HomeInv, RowsInv, [Next]_vars PROVE RowsInv'
    OBVIOUS
  <2>0. pages \in Files /\ rows \in Rows  BY DEF TypeOK, Files, Rows
  <2>1. ASSUME NEW P, rows' = Outdate(P), \A p \in Path \ P : pages'[p] = pages[p]
        PROVE  RowsInv'
    <3>1. FreshIn(pages', rows') /\ UniquePaths(rows')
      BY <2>0, <2>1, OutdatedFresh DEF RowsInv
    <3> QED  BY <3>1 DEF RowsInv, FreshIn, UniquePaths
  <2>2. ASSUME pages' = pages, \A i \in Id : rows'[i] = None \/ rows'[i] = rows[i] PROVE RowsInv'
    BY <2>2 DEF RowsInv, FreshIn, UniquePaths, RowMatches
  <2>3. ASSUME Rebuild \/ \E D : Pass(D) PROVE RowsInv'
    BY <2>3, ScanRows
  <2>4. CASE EnsureReady
    BY <2>2, <2>3, <2>4 DEF EnsureReady
  <2>5. ASSUME NEW g \in Page, UpsertBegin(g) PROVE RowsInv'
    <3>1. \/ pages' = [pages EXCEPT ![Target(g)] = None] /\ rows' = Outdate({Target(g)})
          \/ pages' = pages /\ rows' = rows
      BY <2>5 DEF UpsertBegin
    <3> QED  BY <2>0, <2>1, <2>2, <3>1 DEF Files
  <2>6. CASE UpsertWrite
    BY <2>0, <2>1, <2>6 DEF UpsertWrite, Files
  <2>7. CASE UpsertUnlink
    BY <2>0, <2>1, <2>2, <2>7 DEF UpsertUnlink, Files
  <2>8. CASE UpsertRow
    <3> DEFINE q == Target(op.page)
               r == RowFor(op.page, q, TRUE)
    <3>1. /\ op.page \in Page /\ op.page.id = op.id /\ op.id \in Id /\ pages[q] = op.page
          /\ pages' = pages /\ rows' = [rows EXCEPT ![op.id] = r]
      BY <2>8 DEF UpsertRow, TypeOK, HomeInv, OpReady, PageWritten
    <3>2. \A j \in Id : rows'[j] = IF j = op.id THEN r ELSE rows[j]
      BY <2>0, <3>1 DEF Rows
    <3>3. RowMatches(pages, op.id, r)
      BY <3>1, StoreAssumption DEF RowMatches, RowFor, IsPage, StoreAssumption
    <3>4. ASSUME NEW j \in Id, rows[j] # None, rows[j].path = q PROVE j = op.id
      <4>1. MayHold(q, j)  BY <3>4 DEF HomeInv, RowsOwned, Indexed
      <4> QED  BY <3>1, <4>1 DEF MayHold, Target
    <3>5. r.path = q  BY DEF RowFor
    <3> HIDE DEF r, q
    <3> QED  BY <3>1, <3>2, <3>3, <3>4, <3>5 DEF RowsInv, FreshIn, UniquePaths, RowMatches
  <2>9. CASE UpsertFts
    BY <2>2, <2>9 DEF UpsertFts
  <2>10. ASSUME NEW i \in Id, DeleteBegin(i) PROVE RowsInv'
    BY <2>2, <2>10 DEF DeleteBegin
  <2>11. CASE DeletePage
    BY <2>0, <2>1, <2>11 DEF DeletePage, Files
  <2>12. CASE DeleteRow
    BY <2>0, <2>2, <2>12 DEF DeleteRow, Rows
  <2>13. CASE DeleteFts \/ Close \/ Crash
    BY <2>2, <2>13 DEF DeleteFts, Close, Crash
  <2>14. CASE Reconcile \/ ReconcileDeferred \/ Reindex
    BY <2>3, <2>14 DEF Reconcile, ReconcileDeferred, Reindex
  <2>15. CASE CrashInMigration
    <3>1. PICK S \in SUBSET Movable : pages' = Migrated(S) /\ rows' = Outdate(Moved(S))
      BY <2>15 DEF CrashInMigration
    <3>2. \A p \in Path \ Moved(S) : pages'[p] = pages[p]
      <4> SUFFICES ASSUME NEW p \in Path, p \notin Moved(S), p[2] \in S PROVE pages'[p] = pages[p]
        BY <3>1 DEF Migrated
      <4>1. p = <<p[1], p[2]>>  BY DEF Path
      <4>2. p[1] # Flat /\ p[1] # pages[<<Flat, p[2]>>].kind  BY <4>1 DEF Moved
      <4> QED  BY <3>1, <4>2 DEF Migrated
    <3> QED  BY <2>1, <3>1, <3>2
  <2>16. CASE LoseDatabase
    BY <2>2, <2>16 DEF LoseDatabase
  <2>17. ASSUME NEW p \in Path, NEW g \in Page \cup {Junk}, EditPage(p, g) PROVE RowsInv'
    BY <2>0, <2>1, <2>17 DEF EditPage, Files
  <2>18. ASSUME NEW p \in Path, RemovePage(p) PROVE RowsInv'
    BY <2>0, <2>1, <2>18 DEF RemovePage, Files
  <2>19. ASSUME NEW p \in Path, NEW q \in Path, RenamePage(p, q) PROVE RowsInv'
    BY <2>0, <2>1, <2>19 DEF RenamePage, Files
  <2>20. CASE UNCHANGED vars
    BY <2>2, <2>20 DEF vars
  <2> QED
    BY <2>4, <2>5, <2>6, <2>7, <2>8, <2>9, <2>10, <2>11, <2>12, <2>13, <2>14, <2>15, <2>16, <2>17,
       <2>18, <2>19, <2>20 DEF Next, Step, Interference
<1> QED  BY <1>1, <1>2, TypeCorrect, HomeInvariant, PTL DEF Spec

-----------------------------------------------------------------------------
(* What one pass over the disk achieves.                                   *)

\* A complete pass leaves index and disk in agreement.
THEOREM PassAgrees == Spec => []ReconcileAgrees
<1>1. TypeOK /\ RowsInv => ReconcileAgrees
  <2> DEFINE rs == Outdate(Moved(Movable))
  <2> SUFFICES ASSUME TypeOK, RowsInv, Unmoved(Disk), NEW o \in Outcomes({})
               PROVE  Agree(Disk, o.rows)
    BY DEF ReconcileAgrees
  <2>1. /\ Disk \in Files /\ rs \in Rows /\ FreshIn(Disk, rs) /\ UniquePaths(rs)
        /\ \A i \in Id : /\ rs[i] = None <=> rows[i] = None
                         /\ rows[i] # None => rs[i].path = rows[i].path
    BY ScanStart
  <2>2. \A p \in Decodable(Disk) : p \in Path /\ Disk[p] \in Page /\ Disk[p].id \in Id
    BY <2>1, Decoded DEF Page
  <2>3. CASE o.rows = RebuiltRows(Disk)
    <3>1. \A i \in Id : o.rows[i] # None => RowMatches(Disk, i, o.rows[i])
      BY <2>1, <2>3, RebuiltFresh, RebuiltRow DEF FreshIn
    <3>2. ASSUME NEW p \in Decodable(Disk) PROVE o.rows[Disk[p].id] # None
      <4>1. Holders(Disk, Decodable(Disk), Disk[p].id) # {}  BY DEF Holders
      <4> QED  BY <2>1, <2>2, <2>3, <4>1, RebuiltRow
    <3> QED  BY <3>1, <3>2 DEF Agree
  <2>4. ASSUME NEW at \in StoredMaps(rs), o.rows = ReconciledRows(Disk, rs, at, {})
        PROVE  Agree(Disk, o.rows)
    <3> DEFINE R == ReconciledRows(Disk, rs, at, {})
               P == Pending(Disk, rs, at, {})
    <3> HIDE DEF rs
    <3>1. ASSUME NEW i \in Id, R[i] # None PROVE RowMatches(Disk, i, R[i])
      <4>1. CASE Claims(Disk, rs, at, {}, i) # {}
        <5>1. FreshIn(Disk, R) /\ R[i].fp = "fresh"
          BY <2>1, <3>1, <4>1, ReconciledFresh, ReconciledRow
        <5> HIDE DEF R
        <5> QED  BY <3>1, <5>1 DEF FreshIn
      <4>2. CASE Claims(Disk, rs, at, {}, i) = {}
        <5>1. /\ i \notin Removals(Disk, at) /\ rs[i] # None /\ rs[i].path \notin P
              /\ R[i].kind = rs[i].kind /\ R[i].text = rs[i].text /\ R[i].path = rs[i].path
              /\ R[i].key \in {rs[i].key, NoKey}
          BY <2>1, <3>1, <4>2, ReconciledRow
        <5>2. rs[i].path \in Listed(Disk)  BY <2>1, <5>1, Removed
        <5>3. CASE Disk[rs[i].path] = Junk
          BY <5>1, <5>3 DEF RowMatches
        <5>4. CASE Disk[rs[i].path] # Junk
          <6>1. rs[i].path \in Decodable(Disk)
            BY <5>2, <5>4 DEF Listed, Decodable, IsPage
          <6>2. at[rs[i].path] = i  BY <2>1, <5>1, StoredAt
          <6>3. RowMatches(Disk, i, rs[i])
            BY <2>1, <5>1, <6>1, <6>2, Skipped
          <6> QED  BY <5>1, <6>3 DEF RowMatches
        <5> QED  BY <5>3, <5>4
      <4> QED  BY <4>1, <4>2
    <3>2. ASSUME NEW p \in Decodable(Disk), R[Disk[p].id] = None PROVE FALSE
      <4> DEFINE i == Disk[p].id
      <4>1. i \in Id /\ p \in Path  BY <2>2
      <4>2. CASE i \in Removals(Disk, at)
        <5>1. rs[i] # None /\ rs[i].path \notin Listed(Disk)  BY <2>1, <4>1, <4>2, Removed
        <5>2. Holders(Disk, Decodable(Disk), i) = {}
          BY <2>1, <4>1, <5>1 DEF Unmoved, Indexed
        <5> QED  BY <5>2 DEF Holders
      <4>3. CASE Claims(Disk, rs, at, {}, i) = {} /\ (rs[i] = None \/ rs[i].path \in P)
        <5>1. p \notin P  BY <4>3 DEF Claims, Holders
        <5>2. rs[i] # None /\ rs[i].path = p
          BY <2>1, <5>1, Skipped
        <5> QED  BY <4>3, <5>1, <5>2
      <4> QED  BY <2>1, <3>2, <4>1, <4>2, <4>3, ReconciledRow
    <3> QED  BY <2>4, <3>1, <3>2 DEF Agree
  <2> QED  BY <2>3, <2>4 DEF Outcomes
<1> QED  BY <1>1, RowsInvariant, TypeCorrect, PTL

\* A pass cut short drops the rows of lost pages and no row of a page that is there.
THEOREM DeferredAgrees == Spec => []DeferredKeepsListed
<1>1. TypeOK /\ RowsInv => DeferredKeepsListed
  <2> DEFINE rs == Outdate(Moved(Movable))
             g(i) == Disk[rows[i].path]
  <2> SUFFICES ASSUME TypeOK, RowsInv, Unmoved(Disk), NEW D, NEW o \in Outcomes(D), NEW i \in Indexed
               PROVE  /\ g(i) = None => o.rows[i] = None
                      /\ IsPage(g(i)) /\ g(i).id = i => o.rows[i] # None
    BY DEF DeferredKeepsListed
  <2>1. /\ Disk \in Files /\ rs \in Rows /\ FreshIn(Disk, rs) /\ UniquePaths(rs)
        /\ i \in Id /\ rs[i] # None /\ rs[i].path = rows[i].path
    BY ScanStart DEF Indexed
  <2>2. rows[i].path \in Path  BY <2>1 DEF Rows, Row
  <2>3. CASE o.rows = RebuiltRows(Disk)
    <3>1. g(i) = None => Holders(Disk, Decodable(Disk), i) = {}
      BY DEF Unmoved, Listed
    <3>2. IsPage(g(i)) /\ g(i).id = i => Holders(Disk, Decodable(Disk), i) # {}
      BY <2>2 DEF Holders, Decodable
    <3> QED  BY <2>1, <2>3, <3>1, <3>2, RebuiltRow
  <2>4. ASSUME NEW at \in StoredMaps(rs), o.rows = ReconciledRows(Disk, rs, at, D)
        PROVE  /\ g(i) = None => o.rows[i] = None
               /\ IsPage(g(i)) /\ g(i).id = i => o.rows[i] # None
    <3> HIDE DEF rs
    <3>1. i \in Removals(Disk, at) <=> g(i) = None
      <4>1. g(i) = None <=> rs[i].path \notin Listed(Disk)  BY <2>1, <2>2 DEF Listed
      <4> QED  BY <2>1, <4>1, Removed
    <3>2. ASSUME IsPage(g(i)), g(i).id = i, rs[i].path \in Pending(Disk, rs, at, D)
          PROVE  Claims(Disk, rs, at, D, i) # {}
      BY <2>1, <3>2 DEF Claims, Holders
    <3>3. IsPage(g(i)) => g(i) # None  BY DEF IsPage
    <3> HIDE DEF g
    <3> QED  BY <2>1, <2>4, <3>1, <3>2, <3>3, ReconciledRow
  <2> QED  BY <2>3, <2>4 DEF Outcomes
<1> QED  BY <1>1, RowsInvariant, TypeCorrect, PTL

-----------------------------------------------------------------------------
(* Acknowledged entries are indexed.                                       *)

\* h is the page at home of i, the only one, and keeps the promise.
SoleHome(pg, i, h) ==
    /\ h[1] \in Kind /\ h[2] = i
    /\ Holders(pg, Decodable(pg), i) = {h}
    /\ pg[h].text \in acked[i]

\* The row of i is at h and keeps the promise.
RowAt(i, h) == i \in Indexed /\ rows[i].path = h /\ rows[i].text \in acked[i]

SoleIndexed ==
    crashes = 0 =>
        \A i \in sole : acked[i] # {} /\ (op = Idle \/ op.id # i) =>
            \E h \in Path : SoleHome(pages, i, h) /\ (ready \/ Indexed # {} => RowAt(i, h))

\* The row a write has stored, before its full-text entry.
RowWritten ==
    op.pc = "fts" => /\ op.id \in Indexed /\ rows[op.id].path = Target(op.page)
                     /\ rows[op.id].text = op.page.text

\* Only a ready handle writes.
WritesWhenReady == op # Idle => ready

SoleInv == SoleIndexed /\ RowWritten /\ WritesWhenReady

\* A scan keeps or reads again the row of an entry with one page at home.
LEMMA ScanSole ==
    ASSUME TypeOK, RowsInv, FilesOwned, NEW i \in Id, NEW h \in Path, SoleHome(pages, i, h),
           \/ Rebuild
           \/ RowAt(i, h) /\ \E D : Pass(D)
    PROVE  /\ h[1] \in Kind /\ h[2] = i
           /\ Holders(pages', Decodable(pages'), i) = {h}
           /\ pages'[h].text \in acked[i]
           /\ rows'[i] # None /\ rows'[i].path = h /\ rows'[i].text \in acked[i]
<1> DEFINE rs == Outdate(Moved(Movable))
<1>1. /\ pages \in Files /\ rows \in Rows /\ Disk \in Files /\ rs \in Rows /\ FreshIn(Disk, rs) /\ UniquePaths(rs)
      /\ \A j \in Id : /\ rs[j] = None <=> rows[j] = None
                       /\ rows[j] # None => rs[j].path = rows[j].path /\ rs[j].text = rows[j].text
      /\ pages' = Disk
  BY ScanStart, OutdateRows DEF Rebuild, Pass, TypeOK, Files, Rows
<1>2. /\ IsPage(pages[h]) /\ pages[h].id = i /\ pages[h].text \in acked[i]
      /\ \A p \in Path : IsPage(pages[p]) /\ pages[p].id = i => p = h
  BY DEF SoleHome, Holders, Decodable
<1>3. h = <<h[1], i>> /\ h[1] \in Kind /\ h[1] # Flat /\ i \in Name
  BY StoreAssumption DEF SoleHome, StoreAssumption, Path
<1>4. Disk[h] = pages[h]
  BY <1>1, <1>2, <1>3, MigratedHome DEF Disk
<1>5. ASSUME NEW p \in Path, IsPage(Disk[p]), Disk[p].id = i PROVE p = h
  <2>1. CASE Disk[p] = pages[p]
    BY <1>2, <1>5, <2>1
  <2>2. CASE Disk[p] # pages[p]
    <3>1. Disk[p] = pages[<<Flat, p[2]>>]
      BY <1>5, <2>2 DEF Disk, Migrated, IsPage
    <3>2. <<Flat, p[2]>> \in Path  BY DEF Path, Dir
    <3> QED  BY <1>2, <1>3, <1>5, <3>1, <3>2
  <2> QED  BY <2>1, <2>2
<1>6. Holders(Disk, Decodable(Disk), i) = {h}
  BY <1>2, <1>4, <1>5 DEF Holders, Decodable
<1>7. CASE rows' = RebuiltRows(Disk)
  <2>1. /\ rows'[i] # None
        /\ rows'[i].path \in Holders(Disk, Decodable(Disk), i)
        /\ rows'[i].text = Disk[rows'[i].path].text
    <3> DEFINE H == Holders(Disk, Decodable(Disk), i)
               r == RebuiltRows(Disk)[i]
    <3>1. H # {}  BY <1>6
    <3>2. /\ r # None /\ r.path \in Decodable(Disk) /\ Disk[r.path].id = i
          /\ r.text = Disk[r.path].text
      BY <1>1, <3>1, RebuiltRow
    <3> HIDE DEF r
    <3>3. r.path \in H  BY <3>2 DEF Holders
    <3> QED  BY <1>7, <3>2, <3>3 DEF r
  <2> QED  BY <1>1, <1>2, <1>3, <1>4, <1>6, <2>1
<1>8. ASSUME RowAt(i, h), NEW D, NEW at \in StoredMaps(rs), rows' = ReconciledRows(Disk, rs, at, D)
      PROVE  rows'[i] # None /\ rows'[i].path = h /\ rows'[i].text \in acked[i]
  <2>1. rs[i] # None /\ rs[i].path = h /\ rs[i].text \in acked[i]
    BY <1>1, <1>8 DEF RowAt, Indexed
  <2> HIDE DEF rs
  <2>2. i \notin Removals(Disk, at)
    <3>1. h \in Listed(Disk)  BY <1>2, <1>4 DEF Listed, IsPage
    <3> QED  BY <1>1, <2>1, <3>1, Removed
  <2>3. CASE Claims(Disk, rs, at, D, i) # {}
    <3>1. /\ rows'[i] # None /\ rows'[i].path \in Path /\ rows'[i].path \in Pending(Disk, rs, at, D)
          /\ Disk[rows'[i].path].id = i /\ rows'[i].text = Disk[rows'[i].path].text
      BY <1>1, <1>8, <2>2, <2>3, ReconciledRow
    <3>2. IsPage(Disk[rows'[i].path])  BY <3>1 DEF Pending, ReadPages, Decodable
    <3> QED  BY <1>2, <1>4, <1>5, <3>1, <3>2
  <2>4. CASE Claims(Disk, rs, at, D, i) = {}
    <3>1. h \notin Pending(Disk, rs, at, D)
      BY <1>2, <1>4, <2>4 DEF Claims, Holders
    <3> QED  BY <1>1, <1>8, <2>1, <2>2, <2>4, <3>1, ReconciledRow
  <2> QED  BY <2>3, <2>4
<1>9. CASE Rebuild
  BY <1>1, <1>2, <1>3, <1>4, <1>6, <1>7, <1>9 DEF Rebuild
<1>10. CASE RowAt(i, h) /\ \E D : Pass(D)
  <2>1. \/ rows' = RebuiltRows(Disk)
        \/ \E D : \E at \in StoredMaps(rs) : rows' = ReconciledRows(Disk, rs, at, D)
    BY <1>10 DEF Pass, Outcomes
  <2> QED  BY <1>1, <1>2, <1>3, <1>4, <1>6, <1>7, <1>8, <1>10, <2>1
<1> QED  BY <1>9, <1>10

\* A step that changes no page and no row of an entry with one page at home
\* leaves it indexed.
LEMMA SoleStays ==
    ASSUME SoleIndexed, NEW i \in Id, i \in sole, acked[i] # {}, crashes = 0, op = Idle \/ op.id # i,
           acked'[i] = acked[i], ready' \/ Indexed' # {} => ready \/ Indexed # {},
           \A h \in Path : SoleHome(pages, i, h) =>
               /\ pages'[h] = pages[h]
               /\ \A p \in Path : IsPage(pages'[p]) /\ pages'[p].id = i => IsPage(pages[p]) /\ pages[p].id = i
               /\ RowAt(i, h) => rows'[i] # None /\ rows'[i].path = rows[i].path /\ rows'[i].text = rows[i].text
    PROVE  \E h \in Path : /\ SoleHome(pages, i, h)'
                           /\ (ready \/ Indexed # {} => RowAt(i, h))'
<1>1. PICK h \in Path : SoleHome(pages, i, h) /\ (ready \/ Indexed # {} => RowAt(i, h))
  BY DEF SoleIndexed
<1>2. \A p \in Path : IsPage(pages'[p]) /\ pages'[p].id = i <=> p = h
  BY <1>1 DEF SoleHome, Holders, Decodable
<1>3. SoleHome(pages, i, h)'
  BY <1>1, <1>2 DEF SoleHome, Holders, Decodable
<1>4. (ready \/ Indexed # {} => RowAt(i, h))'
  BY <1>1 DEF RowAt, Indexed
<1> QED  BY <1>3, <1>4

\* A step that changes no page or row at all.
LEMMA SoleSame ==
    ASSUME TypeOK, SoleInv, UNCHANGED <<pages, rows, acked, sole>>, ready' \/ Indexed # {} => ready \/ Indexed # {},
           crashes' = 0 => crashes = 0,
           \A i \in Id : op' = Idle \/ op'.id # i => op = Idle \/ op.id # i \/ acked[i] = {}
    PROVE  SoleIndexed'
<1>1. Indexed' = Indexed /\ sole \subseteq Id  BY DEF Indexed, TypeOK
<1>2. \A i, h : (SoleHome(pages, i, h)' <=> SoleHome(pages, i, h)) /\ (RowAt(i, h)' <=> RowAt(i, h))
  BY <1>1 DEF SoleHome, RowAt
<1> QED  BY <1>1, <1>2 DEF SoleInv, SoleIndexed

\* A scan between operations keeps every sole page indexed.
LEMMA ScanSoles ==
    ASSUME TypeOK, RowsInv, HomeInv, SoleInv, op = Idle, UNCHANGED <<op, acked, sole>>,
           crashes' = 0 => crashes = 0,
           Rebuild \/ ((ready \/ Indexed # {}) /\ \E D : Pass(D))
    PROVE  SoleIndexed'
<1> SUFFICES ASSUME crashes = 0, NEW i \in Id, i \in sole, acked[i] # {}
             PROVE  \E h \in Path : SoleHome(pages, i, h)' /\ RowAt(i, h)'
  BY DEF SoleIndexed, TypeOK
<1>1. PICK h \in Path : SoleHome(pages, i, h) /\ (ready \/ Indexed # {} => RowAt(i, h))
  BY DEF SoleInv, SoleIndexed
<1>2. /\ h[1] \in Kind /\ h[2] = i
      /\ Holders(pages', Decodable(pages'), i) = {h}
      /\ pages'[h].text \in acked[i]
      /\ rows'[i] # None /\ rows'[i].path = h /\ rows'[i].text \in acked[i]
  BY <1>1, ScanSole DEF HomeInv
<1> QED  BY <1>2 DEF SoleHome, RowAt, Indexed

\* An outside change of files P touches no page whose promise stands.
LEMMA OutsideSole ==
    ASSUME TypeOK, SoleInv, op = Idle, op' = op, ready' = ready, sole' = sole, crashes' = crashes,
           NEW P \in SUBSET Path, NEW S, Disown(P, S), rows' = Outdate(P),
           \A p \in Path \ P : pages'[p] = pages[p],
           \A p \in P : IsPage(pages'[p]) =>
               pages'[p].id \in S \/ \E q \in P : IsPage(pages[q]) /\ pages[q].id = pages'[p].id
    PROVE  SoleIndexed'
<1> SUFFICES ASSUME crashes = 0, NEW i \in Id, i \in sole, acked'[i] # {}
             PROVE  \E h \in Path : /\ SoleHome(pages, i, h)'
                                    /\ (ready \/ Indexed # {} => RowAt(i, h))'
  BY DEF SoleIndexed, TypeOK
<1>1. rows \in Rows  BY DEF TypeOK, Rows
<1>2. acked'[i] = acked[i] /\ i \notin S /\ \A p \in P : ~(IsPage(pages[p]) /\ pages[p].id = i)
  BY DEF Disown
<1>3. \A p \in Path : IsPage(pages'[p]) /\ pages'[p].id = i => IsPage(pages[p]) /\ pages[p].id = i
  BY <1>2
<1>4. ASSUME NEW h \in Path, SoleHome(pages, i, h) PROVE pages'[h] = pages[h]
  <2>1. IsPage(pages[h]) /\ pages[h].id = i  BY <1>4 DEF SoleHome, Holders, Decodable
  <2> QED  BY <1>2, <2>1
<1>5. /\ Indexed' = Indexed
      /\ \A h \in Path : RowAt(i, h) => rows'[i] # None /\ rows'[i].path = rows[i].path /\ rows'[i].text = rows[i].text
  BY <1>1, OutdateRows DEF Indexed, RowAt
<1> HIDE DEF SoleHome, RowAt
<1> QED  BY <1>2, <1>3, <1>4, <1>5, SoleStays DEF SoleInv

\* Every step keeps acknowledged entries indexed.
LEMMA SoleStep == TypeOK /\ ExtKeyUnique /\ HomeInv /\ RowsInv /\ SoleInv /\ [Next]_vars => SoleInv'
<1> SUFFICES ASSUME TypeOK, ExtKeyUnique, HomeInv, RowsInv, SoleInv, [Next]_vars PROVE SoleInv'
  OBVIOUS
<1>0. /\ pages \in Files /\ rows \in Rows /\ op.prev \in Path \cup {None}
      /\ crashes' = 0 => crashes = 0
  BY CrashesGrow DEF TypeOK, Files, Rows, Op
\* Steps of a write or a delete touch no page or row of another entry.
<1>1. ASSUME op # Idle, ready' = ready, sole' = sole, acked' = acked,
             op'.pc # "idle", op'.id = op.id, op.id \in Id,
             NEW P \in SUBSET Path, \A p \in P : MayHold(p, op.id),
             \A p \in Path \ P : pages'[p] = pages[p],
             \A p \in P : IsPage(pages'[p]) => pages'[p] = pages[p] \/ pages'[p].id = op.id,
             \A j \in Id : j # op.id => (rows'[j] = None <=> rows[j] = None)
                                        /\ rows'[j].path = rows[j].path /\ rows'[j].text = rows[j].text
      PROVE  SoleIndexed'
  <2> SUFFICES ASSUME crashes' = 0, NEW i \in sole, acked[i] # {}, op.id # i
               PROVE  \E h \in Path : /\ SoleHome(pages, i, h)'
                                      /\ (ready \/ Indexed # {} => RowAt(i, h))'
    BY <1>1 DEF SoleIndexed, Idle
  <2>1. i \in Id /\ crashes = 0 /\ ready  BY <1>0, <1>1 DEF TypeOK, SoleInv, WritesWhenReady
  <2>2. \A p \in Path : IsPage(pages'[p]) /\ pages'[p].id = i => IsPage(pages[p]) /\ pages[p].id = i
    BY <1>1
  <2>3. \A h \in Path : SoleHome(pages, i, h) => pages'[h] = pages[h]
    BY <1>1, <2>1 DEF SoleHome, MayHold
  <2>4. \A h \in Path : RowAt(i, h) => rows'[i] # None /\ rows'[i].path = rows[i].path /\ rows'[i].text = rows[i].text
    BY <1>1, <2>1 DEF RowAt, Indexed
  <2> HIDE DEF SoleHome, RowAt
  <2> QED  BY <1>1, <2>1, <2>2, <2>3, <2>4, SoleStays DEF SoleInv
<1>2. ASSUME NEW P, rows' = rows \/ rows' = Outdate(P)
      PROVE  \A j \in Id : /\ rows'[j] = None <=> rows[j] = None
                           /\ j # op.id => rows'[j].path = rows[j].path /\ rows'[j].text = rows[j].text
  <2>1. \A j \in Id : rows[j] = None => Outdate(P)[j] = rows[j]  BY DEF Outdate
  <2> QED  BY <1>0, <1>2, <2>1, OutdateRows
<1>3. ASSUME op = Idle, UNCHANGED <<op, acked, sole>>, ready',
             Rebuild \/ ((ready \/ Indexed # {}) /\ \E D : Pass(D))
      PROVE  SoleInv'
  BY <1>0, <1>3, ScanSoles DEF SoleInv, RowWritten, WritesWhenReady, Idle
<1>4. CASE EnsureReady
  <2>1. CASE Indexed # {} /\ UNCHANGED <<pages, rows, fts>>
    BY <1>0, <1>4, <2>1, SoleSame DEF EnsureReady, SoleInv, RowWritten, WritesWhenReady, Idle
  <2>2. CASE Rebuild \/ (Indexed # {} /\ \E D : Pass(D))
    BY <1>3, <1>4, <2>2 DEF EnsureReady
  <2> QED  BY <1>4, <2>1, <2>2 DEF EnsureReady
<1>5. ASSUME NEW g \in Page, UpsertBegin(g) PROVE SoleInv'
  <2> DEFINE id == IF Owner(g.key) \ {g.id} = {} THEN g.id ELSE CHOOSE i \in Owner(g.key) : TRUE
  <2>1. /\ op = Idle /\ ready /\ op'.id = id /\ op'.pc = "write" /\ UNCHANGED <<ready, sole>>
        /\ Unused(g.id) \/ (g.id \in Indexed /\ g.key \in {NoKey, rows[g.id].key})
        /\ pages' = IF id # g.id THEN [pages EXCEPT ![Target(g)] = None] ELSE pages
        /\ rows' = IF id # g.id THEN Outdate({Target(g)}) ELSE rows
        /\ \A i \in Id : i # id => acked'[i] = acked[i]
    BY <1>5 DEF UpsertBegin, TypeOK
  <2> HIDE DEF id
  <2>2. ASSUME NEW p \in Path, IsPage(pages'[p]) PROVE IsPage(pages[p]) /\ pages'[p] = pages[p]
    BY <1>0, <2>1, <2>2 DEF Files, IsPage
  <2>3. \A j \in Id : (rows'[j] = None <=> rows[j] = None)
                      /\ (rows[j] # None => rows'[j].path = rows[j].path /\ rows'[j].text = rows[j].text)
    BY <1>0, <2>1, OutdateRows
  <2>4. ASSUME NEW i \in Id, i # id, NEW h \in Path, SoleHome(pages, i, h) PROVE pages'[h] = pages[h]
    <3>1. IsPage(pages[h]) /\ pages[h].id = i /\ h[2] = i  BY <2>4 DEF SoleHome, Holders, Decodable
    <3>2. CASE id # g.id /\ h = Target(g)
      <4>1. i = g.id  BY <3>1, <3>2 DEF Target
      <4>2. ~Unused(i)  BY <3>1 DEF Unused, Decodable
      <4>3. i \in Indexed /\ g.key \in {NoKey, rows[i].key}  BY <2>1, <4>1, <4>2
      <4>4. PICK j \in Owner(g.key) : j # i  BY <3>2, <4>1 DEF id
      <4> QED  BY <4>3, <4>4, <1>5 DEF Owner, Indexed, ExtKeyUnique
    <3>3. CASE ~(id # g.id /\ h = Target(g))
      BY <1>0, <2>1, <3>3 DEF Files
    <3> QED  BY <3>2, <3>3
  <2>5. SoleIndexed'
    <3> SUFFICES ASSUME crashes = 0, NEW i \in sole, acked'[i] # {}, id # i
                 PROVE  \E h \in Path : /\ SoleHome(pages, i, h)'
                                        /\ (ready \/ Indexed # {} => RowAt(i, h))'
      <4>1. op' # Idle  BY <2>1 DEF Idle
      <4> QED  BY <1>0, <2>1, <4>1 DEF SoleIndexed
    <3>1. i \in Id /\ acked'[i] = acked[i]  BY <2>1 DEF TypeOK
    <3>2. \A h \in Path : RowAt(i, h) => rows'[i] # None /\ rows'[i].path = rows[i].path /\ rows'[i].text = rows[i].text
      BY <2>3 DEF RowAt, Indexed
    <3> HIDE DEF SoleHome, RowAt
    <3> QED  BY <2>1, <2>2, <2>4, <3>1, <3>2, SoleStays DEF SoleInv
  <2> QED  BY <2>1, <2>5 DEF SoleInv, RowWritten, WritesWhenReady
<1>6. CASE UpsertWrite
  <2>1. /\ op.pc = "write" /\ op # Idle /\ op.page \in Page /\ op.page.id = op.id /\ op.id \in Id
        /\ op'.pc = "unlink" /\ op'.id = op.id /\ UNCHANGED <<ready, acked, sole>>
        /\ pages' = [pages EXCEPT ![Target(op.page)] = op.page] /\ rows' = Outdate({Target(op.page)})
        /\ Target(op.page) \in Path
    BY <1>6, TargetPath DEF UpsertWrite, TypeOK, Op, HomeInv, OpReady, Idle
  <2> DEFINE P == {Target(op.page)}
  <2>2. /\ P \in SUBSET Path /\ \A p \in P : MayHold(p, op.id)
        /\ \A p \in Path \ P : pages'[p] = pages[p]
        /\ \A p \in P : IsPage(pages'[p]) => pages'[p] = pages[p] \/ pages'[p].id = op.id
    BY <1>0, <2>1 DEF Files, MayHold, Target
  <2> HIDE DEF P
  <2>3. SoleIndexed'  BY <1>1, <1>2, <2>1, <2>2
  <2> QED  BY <2>1, <2>3 DEF SoleInv, RowWritten, WritesWhenReady
<1>7. ASSUME UpsertUnlink \/ DeletePage PROVE SoleInv'
  <2>1. /\ op.pc \in {"unlink", "del"} /\ op # Idle /\ op.id \in Id
        /\ op'.pc \in {"row", "delrow"} /\ op'.id = op.id /\ UNCHANGED <<ready, acked, sole>>
        /\ rows' = rows \/ rows' = Outdate({op.prev})
        /\ pages' = pages \/ (op.prev \in Path \cup {None} /\ pages' = [pages EXCEPT ![op.prev] = None])
    BY <1>0, <1>7 DEF UpsertUnlink, DeletePage, TypeOK, Op, Idle
  <2> DEFINE P == {op.prev} \cap Path
  <2>2. /\ P \in SUBSET Path /\ \A p \in P : MayHold(p, op.id)
        /\ \A p \in Path \ P : pages'[p] = pages[p]
        /\ \A p \in P : IsPage(pages'[p]) => pages'[p] = pages[p] \/ pages'[p].id = op.id
    BY <1>0, <2>1, StoreAssumption DEF Files, HomeInv, OpOwned, IsPage, StoreAssumption
  <2> HIDE DEF P
  <2>3. SoleIndexed'  BY <1>1, <1>2, <2>1, <2>2
  <2> QED  BY <2>1, <2>3 DEF SoleInv, RowWritten, WritesWhenReady
<1>8. CASE UpsertRow
  <2> DEFINE r == RowFor(op.page, Target(op.page), TRUE)
  <2>1. /\ op.pc = "row" /\ op # Idle /\ op.page \in Page /\ op.id \in Id /\ Target(op.page) \in Path
        /\ op'.pc = "fts" /\ op'.id = op.id /\ op'.page = op.page
        /\ UNCHANGED <<pages, ready, acked, sole>> /\ rows' = [rows EXCEPT ![op.id] = r]
    BY <1>8, TargetPath DEF UpsertRow, TypeOK, Op, Idle
  <2>2. r \in Row /\ r # None /\ r.path = Target(op.page) /\ r.text = op.page.text
    <3>1. r \in Row  BY <2>1, RowForRow
    <3> QED  BY <3>1, StoreAssumption DEF RowFor, StoreAssumption
  <2> HIDE DEF r
  <2>3. \A j \in Id : rows'[j] = IF j = op.id THEN r ELSE rows[j]  BY <1>0, <2>1 DEF Rows
  <2>4. SoleIndexed'
    <3> DEFINE P == {}
    <3>1. /\ P \in SUBSET Path /\ \A p \in P : MayHold(p, op.id)
          /\ \A p \in Path \ P : pages'[p] = pages[p]
          /\ \A p \in P : IsPage(pages'[p]) => pages'[p] = pages[p] \/ pages'[p].id = op.id
      BY <2>1
    <3> HIDE DEF P
    <3> QED  BY <1>1, <2>1, <2>3, <3>1
  <2>5. RowWritten'
    <3>1. Target(op.page)' = Target(op.page)  BY <2>1 DEF Target
    <3> QED  BY <2>1, <2>2, <2>3, <3>1 DEF RowWritten, Indexed
  <2> QED  BY <2>1, <2>4, <2>5 DEF SoleInv, WritesWhenReady
<1>9. CASE UpsertFts
  <2>1. /\ op.pc = "fts" /\ op # Idle /\ op.id \in Id /\ op.page \in Page /\ op.page.id = op.id
        /\ op' = Idle /\ UNCHANGED <<pages, rows, ready, crashes>> /\ pages[Target(op.page)] = op.page
        /\ Target(op.page) \in Path /\ Target(op.page) = <<op.page.kind, op.id>> /\ op.page.kind \in Kind
        /\ \A i \in Id : acked'[i] = IF i = op.id THEN {op.page.text} ELSE acked[i]
        /\ sole' = IF Holders(pages, Decodable(pages), op.id) = {Target(op.page)}
                   THEN sole \cup {op.id} ELSE sole \ {op.id}
    BY <1>9, TargetPath DEF UpsertFts, TypeOK, Idle, HomeInv, OpReady, PageWritten, Target, Page
  <2>2. Indexed' = Indexed  BY <2>1 DEF Indexed
  <2>3. ASSUME crashes = 0, NEW i \in sole', acked'[i] # {}
        PROVE  \E h \in Path : /\ SoleHome(pages, i, h)'
                               /\ (ready \/ Indexed # {} => RowAt(i, h))'
    <3>1. CASE i = op.id
      <4>1. Holders(pages, Decodable(pages), i) = {Target(op.page)}  BY <2>1, <2>3, <3>1
      <4>2. PICK h \in Path : h = Target(op.page)  BY <2>1
      <4>3. SoleHome(pages, i, h)'
        BY <2>1, <3>1, <4>1, <4>2 DEF SoleHome
      <4>4. RowAt(i, h)'
        BY <2>1, <2>2, <3>1, <4>2 DEF RowAt, SoleInv, RowWritten
      <4> QED  BY <4>3, <4>4
    <3>2. CASE i # op.id
      <4>1. i \in sole /\ i \in Id /\ acked'[i] = acked[i]  BY <2>1, <2>3, <3>2 DEF TypeOK
      <4>2. PICK h \in Path : SoleHome(pages, i, h) /\ (ready \/ Indexed # {} => RowAt(i, h))
        BY <2>3, <3>2, <4>1 DEF SoleInv, SoleIndexed
      <4>3. SoleHome(pages, i, h)' /\ (RowAt(i, h) => RowAt(i, h)')
        BY <2>1, <2>2, <4>1, <4>2 DEF SoleHome, RowAt
      <4> QED  BY <2>1, <2>2, <4>2, <4>3
    <3> QED  BY <3>1, <3>2
  <2>4. SoleIndexed'  BY <2>1, <2>3 DEF SoleIndexed
  <2> QED  BY <2>1, <2>4 DEF SoleInv, RowWritten, WritesWhenReady, Idle
<1>10. ASSUME NEW i \in Id, DeleteBegin(i) PROVE SoleInv'
  <2>1. /\ op = Idle /\ ready /\ op'.id = i /\ op'.pc = "del"
        /\ UNCHANGED <<pages, rows, ready, sole, crashes>>
        /\ \A j \in Id : j # i => acked'[j] = acked[j]
    BY <1>10 DEF DeleteBegin, TypeOK, Idle
  <2>2. Indexed' = Indexed  BY <2>1 DEF Indexed
  <2>3. ASSUME crashes = 0, NEW j \in sole, acked'[j] # {}, j # i
        PROVE  \E h \in Path : /\ SoleHome(pages, j, h)'
                               /\ (ready \/ Indexed # {} => RowAt(j, h))'
    <3>1. j \in Id /\ acked'[j] = acked[j]  BY <2>1, <2>3 DEF TypeOK
    <3>2. PICK h \in Path : SoleHome(pages, j, h) /\ (ready \/ Indexed # {} => RowAt(j, h))
      BY <2>1, <2>3, <3>1 DEF SoleInv, SoleIndexed
    <3>3. SoleHome(pages, j, h)' /\ (RowAt(j, h) => RowAt(j, h)')
      BY <2>1, <2>2, <3>1, <3>2 DEF SoleHome, RowAt
    <3> QED  BY <2>1, <2>2, <3>2, <3>3
  <2>4. SoleIndexed'  BY <2>1, <2>3, StoreAssumption DEF SoleIndexed, Idle, StoreAssumption
  <2> QED  BY <2>1, <2>4 DEF SoleInv, RowWritten, WritesWhenReady
<1>11. CASE DeleteRow
  <2>1. /\ op.pc = "delrow" /\ op # Idle /\ op.id \in Id /\ op'.pc = "delfts" /\ op'.id = op.id
        /\ UNCHANGED <<pages, ready, acked, sole>>
        /\ \A j \in Id : j # op.id => rows'[j] = rows[j]
    BY <1>0, <1>11 DEF DeleteRow, TypeOK, Op, Idle, Rows
  <2>2. SoleIndexed'
    <3> DEFINE P == {}
    <3>1. /\ P \in SUBSET Path /\ \A p \in P : MayHold(p, op.id)
          /\ \A p \in Path \ P : pages'[p] = pages[p]
          /\ \A p \in P : IsPage(pages'[p]) => pages'[p] = pages[p] \/ pages'[p].id = op.id
      BY <2>1
    <3> HIDE DEF P
    <3> QED  BY <1>1, <2>1, <3>1
  <2> QED  BY <2>1, <2>2 DEF SoleInv, RowWritten, WritesWhenReady
<1>12. CASE DeleteFts
  <2>1. /\ op.pc = "delfts" /\ op' = Idle /\ UNCHANGED <<pages, rows, ready, acked, sole, crashes>>
        /\ acked[op.id] = {}
    BY <1>12 DEF DeleteFts, HomeInv, Promised
  <2>2. SoleIndexed'  BY <1>0, <2>1, SoleSame
  <2> QED  BY <2>1, <2>2 DEF SoleInv, RowWritten, WritesWhenReady, Idle
<1>13. CASE Reconcile \/ ReconcileDeferred \/ Reindex
  BY <1>3, <1>13 DEF Reconcile, ReconcileDeferred, Reindex
<1>14. CASE Close
  BY <1>0, <1>14, SoleSame DEF Close, SoleInv, RowWritten, WritesWhenReady, Idle
<1>15. CASE Crash \/ CrashInMigration
  <2>1. crashes' # 0  BY <1>15 DEF Crash, CrashInMigration, Dies, TypeOK
  <2>2. op' = Idle  BY <1>15 DEF Crash, CrashInMigration
  <2> QED  BY <2>1, <2>2 DEF SoleInv, SoleIndexed, RowWritten, WritesWhenReady, Idle
<1>16. CASE LoseDatabase
  <2>1. op = Idle /\ op' = op /\ UNCHANGED <<pages, ready, acked, sole>> /\ ~ready' /\ Indexed' = {}
    BY <1>16 DEF LoseDatabase, Indexed
  <2>2. SoleIndexed'
    <3>1. \A i, h : SoleHome(pages, i, h) => SoleHome(pages, i, h)'  BY <2>1 DEF SoleHome
    <3>2. sole \subseteq Id  BY DEF TypeOK
    <3> QED  BY <1>0, <2>1, <3>1, <3>2 DEF SoleInv, SoleIndexed
  <2> QED  BY <2>1, <2>2 DEF SoleInv, RowWritten, WritesWhenReady, Idle
<1>17. ASSUME op = Idle, op' = op, ready' = ready, SoleIndexed' PROVE SoleInv'
  BY <1>17 DEF SoleInv, RowWritten, WritesWhenReady, Idle
<1>18. ASSUME NEW p \in Path, NEW g \in Page \cup {Junk}, EditPage(p, g) PROVE SoleInv'
  <2> DEFINE P == {p}
             S == IF IsPage(g) THEN {g.id} ELSE {}
  <2>1. /\ P \in SUBSET Path /\ op = Idle /\ op' = op /\ Disown(P, S) /\ rows' = Outdate(P)
        /\ UNCHANGED <<ready, sole, crashes>>
    BY <1>18 DEF EditPage, Outside
  <2>2. /\ \A q \in Path \ P : pages'[q] = pages[q]
        /\ \A q \in P : IsPage(pages'[q]) => pages'[q].id \in S
    BY <1>0, <1>18 DEF EditPage, Files
  <2> HIDE DEF P, S
  <2> QED  BY <1>17, <2>1, <2>2, OutsideSole
<1>19. ASSUME NEW p \in Path, RemovePage(p) PROVE SoleInv'
  <2> DEFINE P == {p}
  <2>1. /\ P \in SUBSET Path /\ op = Idle /\ op' = op /\ Disown(P, {}) /\ rows' = Outdate(P)
        /\ UNCHANGED <<ready, sole, crashes>>
    BY <1>19 DEF RemovePage, Outside
  <2>2. /\ \A q \in Path \ P : pages'[q] = pages[q]
        /\ \A q \in P : ~IsPage(pages'[q])
    BY <1>0, <1>19 DEF RemovePage, Files, IsPage
  <2> HIDE DEF P
  <2> QED  BY <1>17, <2>1, <2>2, OutsideSole
<1>20. ASSUME NEW p \in Path, NEW q \in Path, RenamePage(p, q) PROVE SoleInv'
  <2> DEFINE P == {p, q}
  <2>1. /\ P \in SUBSET Path /\ op = Idle /\ op' = op /\ Disown(P, {}) /\ rows' = Outdate(P)
        /\ UNCHANGED <<ready, sole, crashes>>
    BY <1>20 DEF RenamePage, Outside
  <2>2. /\ \A r \in Path \ P : pages'[r] = pages[r]
        /\ \A r \in P : IsPage(pages'[r]) => pages'[r] = pages[p] /\ p \in P
    BY <1>0, <1>20 DEF RenamePage, Files, IsPage
  <2> HIDE DEF P
  <2>3. \A r \in P : IsPage(pages'[r]) =>
            \E s \in P : IsPage(pages[s]) /\ pages[s].id = pages'[r].id
    BY <2>2
  <2> QED  BY <1>17, <2>1, <2>2, <2>3, OutsideSole
<1>21. CASE UNCHANGED vars
  BY <1>0, <1>21, SoleSame DEF vars, SoleInv, RowWritten, WritesWhenReady, Indexed, Target
<1> QED
  BY <1>4, <1>5, <1>6, <1>7, <1>8, <1>9, <1>10, <1>11, <1>12, <1>13, <1>14, <1>15, <1>16, <1>18,
     <1>19, <1>20, <1>21 DEF Next, Step, Interference

\* A ready store answers from its index with what upsert acknowledged.
THEOREM AckedIndexed == Spec => []AckedIsIndexed
<1>1. Init => SoleInv
  BY DEF Init, SoleInv, SoleIndexed, RowWritten, WritesWhenReady, Idle
<1>2. SoleInv => AckedIsIndexed
  BY DEF SoleInv, SoleIndexed, RowAt, AckedIsIndexed
<1> QED  BY <1>1, <1>2, SoleStep, TypeCorrect, KeyInvariant, HomeInvariant, RowsInvariant, PTL DEF Spec, KeyInv
=============================================================================

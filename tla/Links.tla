------------------------------- MODULE Links -------------------------------
(***************************************************************************)
(* References between entries: how save, update, forget, delete and heal   *)
(* of the engine (src/core/application/engine.ts) change them.             *)
(*                                                                         *)
(* Each command reads rows of the index, computes the entries to write and *)
(* hands them to the store one after the other; the store writes the page  *)
(* and then the row (module MemoryStore has the details).  Commands do not *)
(* interleave, but the process may die between any two writes, and people  *)
(* and sync tools edit, move, copy and remove pages between commands.      *)
(*                                                                         *)
(* A page lies where the store writes it, or away from there.  Titles stay *)
(* as they are, so the store always writes an entry to the same place.     *)
(***************************************************************************)
EXTENDS Naturals, FiniteSets

CONSTANTS
    Id,         \* entry ids; callers may name ids that no entry has
    None,       \* no page, no row, no id
    MaxCalls,   \* bound on saves, updates, forgets and deletes
    MaxFaults   \* bound on crashes and outside changes together

Status == {"active", "superseded"}   \* archived is treated like superseded
Entry  == [status : Status, supersedes : SUBSET Id, supersededBy : SUBSET Id,
           related : SUBSET Id]

ASSUME LinksAssumption ==
    /\ None \notin Id /\ None \notin Entry
    /\ MaxCalls \in Nat /\ MaxFaults \in Nat

VARIABLES
    pages,   \* Id -> page on disk, where the store writes it
    away,    \* Id -> page on disk in another place
    rows,    \* Id -> row of the index
    afar,    \* ids whose row names the other place as its path
    op,      \* the command in progress: its writes in two batches
    born,    \* ids some entry has had: ids are never made twice
    calls, faults,
    heirs,   \* history: <<old, new>> when a save of new has superseded old
    gone,    \* history: ids a delete has removed with all references
    heals    \* history: complete heals since anything else happened (3: or more)

disk == <<pages, away>>
index == <<rows, afar>>
vars == <<disk, index, op, born, calls, faults, heirs, gone, heals>>
history == <<heirs, gone, heals>>

IsWrites(f) == DOMAIN f \subseteq Id /\ f \in [DOMAIN f -> Entry]
NoWrites == [i \in {} |-> None]

\* first and then are the writes still to make, page the id whose page is
\* written and whose row is not; promise is what a complete save or delete adds
\* to the history.
Idle == [kind |-> "idle", id |-> None, first |-> NoWrites, then |-> NoWrites,
         page |-> None, promise |-> {}]

TypeOK ==
    /\ pages \in [Id -> Entry \cup {None}] /\ away \in [Id -> Entry \cup {None}]
    /\ rows \in [Id -> Entry \cup {None}] /\ afar \subseteq {i \in Id : rows[i] # None}
    /\ op.kind \in {"idle", "save", "update", "forget", "delete", "heal"}
    /\ op.id \in Id \cup {None}
    /\ IsWrites(op.first) /\ IsWrites(op.then)
    /\ op.page # None => op.page \in DOMAIN op.first \cup DOMAIN op.then
    /\ op.promise \subseteq Id
    /\ born \subseteq Id
    /\ heirs \subseteq Id \X Id /\ gone \subseteq Id
    /\ calls \in 0..MaxCalls /\ faults \in 0..MaxFaults
    /\ heals \in 0..3

-----------------------------------------------------------------------------
(* Helpers *)

Indexed == {i \in Id : rows[i] # None}
Listed  == {i \in Id : pages[i] # None}
Strayed == {i \in Id : away[i] # None}
Twins   == Listed \cap Strayed

\* The page at the path the row of i names, and the page it does not know of.
Named(i) == IF i \in afar THEN away[i] ELSE pages[i]
Other(i) == IF i \in afar THEN pages[i] ELSE away[i]

RefsOf(e) == e.supersedes \cup e.supersededBy \cup e.related

Blank == [status |-> "active", supersedes |-> {}, supersededBy |-> {}, related |-> {}]

\* Entries that differ from e, the entry of id i, in one field.
Patched(e, i) ==
    {[e EXCEPT !.status = s] : s \in Status}
    \cup {[e EXCEPT !.supersedes = S] : S \in SUBSET (Id \ {i})}
    \cup {[e EXCEPT !.supersededBy = S] : S \in SUBSET (Id \ {i})}
    \cup {[e EXCEPT !.related = S] : S \in SUBSET (Id \ {i})}

\* A reader finds the reference by either side.
Records(t, old, new) ==
    /\ t[old] # None /\ t[new] # None
    /\ t[old].status = "superseded"
    /\ new \in t[old].supersededBy /\ old \in t[new].supersedes

Without(f, i) == [j \in DOMAIN f \ {i} |-> f[j]]

-----------------------------------------------------------------------------

\* An empty store, or entries without references.
Init ==
    /\ \E S \in SUBSET Id :
          /\ pages = [i \in Id |-> IF i \in S THEN Blank ELSE None]
          /\ born = S
    /\ rows = pages
    /\ away = [i \in Id |-> None] /\ afar = {}
    /\ op = Idle
    /\ calls = 0 /\ faults = 0
    /\ heirs = {} /\ gone = {} /\ heals = 0

Command(kind, id, first, then, promise) ==
    /\ op = Idle
    /\ op' = [kind |-> kind, id |-> id, first |-> first, then |-> then,
              page |-> None, promise |-> promise]
    /\ UNCHANGED <<disk, index, faults>>

Call == calls < MaxCalls /\ calls' = calls + 1 /\ heals' = 0

(* Engine.save: the entry is new, or the one that owns the external key,    *)
(* and then it starts from defaults.  Active entries it supersedes are      *)
(* marked first.                                                            *)

\* Mutant of Superseded: the successor is not recorded.
SupersededForgetting(S, id) ==
    [o \in {i \in S \cap Indexed : rows[i].status = "active"} |->
        [rows[o] EXCEPT !.status = "superseded", !.supersededBy = {}]]

\* Mutant of Superseded: a status no entry may have.
SupersededAsReplaced(S, id) ==
    [o \in {i \in S \cap Indexed : rows[i].status = "active"} |->
        [rows[o] EXCEPT !.status = "replaced", !.supersededBy = @ \cup {id}]]

Superseded(S, id) ==
    [o \in {i \in S \cap Indexed : rows[i].status = "active"} |->
        [rows[o] EXCEPT !.status = "superseded", !.supersededBy = @ \cup {id}]]

Save(id, S, R) ==
    /\ Call
    /\ id \notin born \/ id \in Indexed
    /\ Command("save", id, Superseded(S, id),
               [i \in {id} |-> [Blank EXCEPT !.supersedes = S, !.related = R]],
               DOMAIN Superseded(S, id) \ {id})
    /\ born' = born \cup {id}
    /\ heirs' = {h \in heirs : id \notin {h[1], h[2]}}
    /\ gone' = gone \ (S \cup R)

(* Engine.update: patch the row read from the index.                        *)
Update(id, e) ==
    /\ Call
    /\ id \in Indexed
    /\ Command("update", id, [i \in {id} |-> e], NoWrites, {})
    /\ heirs' = {h \in heirs :
                   /\ h[1] = id => e.status = rows[id].status /\ e.supersededBy = rows[id].supersededBy
                   /\ h[2] = id => e.supersedes = rows[id].supersedes}
    /\ gone' = gone \ RefsOf(e)
    /\ UNCHANGED born

(* Engine.forget: an entry that is not active stays as it is.               *)
Forget(id) ==
    /\ Call
    /\ id \in Indexed /\ rows[id].status = "active"
    /\ Command("forget", id, [i \in {id} |-> [rows[id] EXCEPT !.status = "superseded"]],
               NoWrites, {})
    /\ UNCHANGED <<born, heirs, gone>>

(* Engine.delete: references go first, the entry itself last.               *)

\* Every entry has one page, and its row names it and says the same.
Tidy == \A i \in Id : rows[i] = Named(i) /\ Other(i) = None

\* Mutant of Stripped: only entries that replace the deleted one are visited.
StrippedOfSuccessors(id) ==
    [j \in {i \in Indexed \ {id} : id \in rows[i].supersedes} |->
        [rows[j] EXCEPT !.supersedes = @ \ {id}, !.supersededBy = @ \ {id},
                        !.related = @ \ {id}]]

Stripped(id) ==
    [j \in {i \in Indexed \ {id} : id \in RefsOf(rows[i])} |->
        [rows[j] EXCEPT !.supersedes = @ \ {id}, !.supersededBy = @ \ {id},
                        !.related = @ \ {id}]]

Delete(id) ==
    /\ Call
    /\ id \in Indexed
    /\ Command("delete", id, Stripped(id), NoWrites, IF Tidy THEN {id} ELSE {})
    /\ heirs' = {h \in heirs : id \notin {h[1], h[2]}}
    /\ UNCHANGED <<born, gone>>

(* Engine.heal, up to the reconcile pass: drop references to ids the index  *)
(* does not know, then add the missing reverse links.                       *)

Kept(i) ==
    [rows[i] EXCEPT !.supersedes = @ \cap Indexed, !.supersededBy = @ \cap Indexed,
                    !.related = @ \cap Indexed]

Healed(i) ==
    [Kept(i) EXCEPT
        !.supersededBy = @ \cup {j \in Indexed : i \in Kept(j).supersedes},
        !.related = @ \cup {j \in Indexed : i \in Kept(j).related}]

Heal ==
    /\ Command("heal", None, [j \in {i \in Indexed : Healed(i) # rows[i]} |-> Healed(j)],
               NoWrites, {})
    /\ UNCHANGED <<born, calls, heirs, gone, heals>>

-----------------------------------------------------------------------------
(* The writes of a command, in any order within a batch.                    *)

Batch == IF DOMAIN op.first # {} THEN op.first ELSE op.then

WritePage ==
    /\ op.page = None
    /\ \E i \in DOMAIN Batch :
          /\ pages' = [pages EXCEPT ![i] = Batch[i]]
          /\ op' = [op EXCEPT !.page = i]
    /\ UNCHANGED <<away, index, born, calls, faults, history>>

\* The row names another page: that one goes.
UnlinkPage ==
    /\ op.page \in afar \cap Strayed
    /\ away' = [away EXCEPT ![op.page] = None]
    /\ UNCHANGED <<pages, index, op, born, calls, faults, history>>

\* The row is written; the command goes on, and a save, an update or a forget
\* without writes left is done.
WriteRow ==
    LET i    == op.page
        next == IF i \in DOMAIN op.first
                THEN [op EXCEPT !.page = None, !.first = Without(@, i)]
                ELSE [op EXCEPT !.page = None, !.then = Without(@, i)]
        done == /\ op.kind \in {"save", "update", "forget"}
                /\ DOMAIN next.first \cup DOMAIN next.then = {}
        kept == {o \in op.promise : Strayed \cap {o, op.id} = {}}
    IN /\ i # None /\ i \notin afar \cap Strayed
       /\ rows' = [rows EXCEPT ![i] = Batch[i]] /\ afar' = afar \ {i}
       /\ op' = IF done THEN Idle ELSE next
       /\ heirs' = IF done THEN heirs \cup (kept \X {op.id}) ELSE heirs
       /\ UNCHANGED <<disk, born, calls, faults, gone, heals>>

Written == op.page = None /\ DOMAIN Batch = {}

\* store.delete: the page the row names, then the row.
DeletePage ==
    /\ op.kind = "delete" /\ Written /\ Named(op.id) # None
    /\ pages' = [pages EXCEPT ![op.id] = IF op.id \in afar THEN @ ELSE None]
    /\ away' = [away EXCEPT ![op.id] = IF op.id \in afar THEN None ELSE @]
    /\ UNCHANGED <<index, op, born, calls, faults, history>>

DeleteRow ==
    /\ op.kind = "delete" /\ Written /\ Named(op.id) = None
    /\ rows' = [rows EXCEPT ![op.id] = None] /\ afar' = afar \ {op.id}
    /\ op' = Idle
    /\ gone' = gone \cup op.promise
    /\ UNCHANGED <<disk, born, calls, faults, heirs, heals>>

\* Rows whose page is not where they say.  A pass removes them by their id, after
\* it has written what it read: a page that moved is without a row until the next.
Lost == {i \in Indexed : Named(i) = None}

\* The rows of the entries in far may end at the page away.  Of two pages of an
\* entry the pass skips the one its row names, if that has not changed, and reads
\* the other, whose row is then the entry's; of two it reads the later one wins.
Turned(far) ==
    /\ Strayed \ Listed \subseteq far /\ far \subseteq Strayed
    /\ \A i \in Twins \cap Indexed : rows[i] = Named(i) => (i \in far <=> i \notin afar)

\* Mutant of Reconcile: rows whose page is not where they say stay.
ReconcileKeepingRows ==
    /\ op.kind = "heal" /\ Written
    /\ \E unread \in SUBSET (Listed \cup Strayed), far \in SUBSET Strayed :
          /\ Turned(far)
          /\ rows' = [i \in Id |-> IF i \in unread \cup Lost THEN rows[i]
                                    ELSE IF i \in far THEN away[i] ELSE pages[i]]
          /\ afar' = (afar \cap (unread \cup Lost)) \cup (far \ (unread \cup Lost))
          /\ heals' = IF unread # {} THEN 0 ELSE IF heals = 3 THEN 3 ELSE heals + 1
    /\ op' = Idle
    /\ UNCHANGED <<disk, born, calls, faults, heirs, gone>>

\* The end of heal, reconcileFromDisk.  The pass is complete, or its budget is used
\* up and it leaves pages unread, whose rows stay.
Reconcile ==
    /\ op.kind = "heal" /\ Written
    /\ \E unread \in SUBSET (Listed \cup Strayed), far \in SUBSET Strayed :
          /\ Turned(far)
          /\ rows' = [i \in Id |-> IF i \in Lost THEN None
                                    ELSE IF i \in unread THEN rows[i]
                                    ELSE IF i \in far THEN away[i] ELSE pages[i]]
          /\ afar' = ((afar \cap unread) \cup (far \ unread)) \ Lost
          /\ heals' = IF unread # {} THEN 0 ELSE IF heals = 3 THEN 3 ELSE heals + 1
    /\ op' = Idle
    /\ UNCHANGED <<disk, born, calls, faults, heirs, gone>>

-----------------------------------------------------------------------------
(* The world *)

Crash ==
    /\ op # Idle /\ faults < MaxFaults
    /\ faults' = faults + 1
    /\ op' = Idle /\ heals' = 0
    /\ UNCHANGED <<disk, index, born, calls, heirs, gone>>

Outside ==
    /\ op = Idle /\ faults < MaxFaults
    /\ faults' = faults + 1
    /\ heirs' = {} /\ gone' = {} /\ heals' = 0
    /\ UNCHANGED <<index, op, calls>>

\* A person or a sync tool changes a page or brings one.
PutPage(i, e) ==
    /\ Outside
    /\ pages' = [pages EXCEPT ![i] = e]
    /\ born' = born \cup {i}
    /\ UNCHANGED away

\* The same in another place, beside a page of the entry or not.
CopyPage(i, e) ==
    /\ Outside
    /\ away' = [away EXCEPT ![i] = e]
    /\ born' = born \cup {i}
    /\ UNCHANGED pages

RemovePage(i) ==
    /\ Outside
    /\ \/ i \in Listed /\ pages' = [pages EXCEPT ![i] = None] /\ UNCHANGED away
       \/ i \in Strayed /\ away' = [away EXCEPT ![i] = None] /\ UNCHANGED pages
    /\ UNCHANGED born

\* The only page of an entry goes to the other place.
MovePage(i) ==
    /\ Outside
    /\ i \in (Listed \cup Strayed) \ Twins
    /\ pages' = [pages EXCEPT ![i] = away[i]] /\ away' = [away EXCEPT ![i] = pages[i]]
    /\ UNCHANGED born

\* The entry the pages of i, or a new page, say something about.
Shown(i) == IF i \in Listed THEN pages[i] ELSE IF i \in Strayed THEN away[i] ELSE Blank

Next ==
    \/ op = Idle /\ \E i \in Id, S, R \in SUBSET Id : i \notin S \cup R /\ Save(i, S, R)
    \/ op = Idle /\ \E i \in Indexed : \E e \in Patched(rows[i], i) : Update(i, e)
    \/ \E i \in Id : Forget(i) \/ Delete(i)
    \/ Heal
    \/ WritePage \/ UnlinkPage \/ WriteRow \/ DeletePage \/ DeleteRow \/ Reconcile
    \/ Crash
    \/ op = Idle /\ \E i \in Id : \E e \in Patched(Shown(i), i) : PutPage(i, e)
    \/ op = Idle /\ \E i \in Id, S \in SUBSET Id :
          i \notin S /\ CopyPage(i, [Shown(i) EXCEPT !.related = S])
    \/ \E i \in Id : RemovePage(i) \/ MovePage(i)

Spec == Init /\ [][Next]_vars

-----------------------------------------------------------------------------
(* Properties *)

\* A replacement a complete save recorded stays readable from both sides, in the
\* index and on disk, through every later command, crash and heal, until a caller
\* changes or deletes one of the two entries.  Entries with a second page, which the
\* next pass may prefer, are left out (Engine.save, heal).
SupersessionRecorded ==
    \A h \in heirs : Records(rows, h[1], h[2]) /\ Records(pages, h[1], h[2])

\* When a delete ran while index and pages agreed, nothing mentions the entry
\* afterwards, whatever is saved, healed or interrupted, unless a caller names
\* the id again (Engine.delete).
DeletedUnreferenced ==
    \A d \in gone :
        /\ rows[d] = None /\ d \notin Listed \cup Strayed
        /\ \A i \in Indexed : d \notin RefsOf(rows[i])
        /\ \A i \in Listed : d \notin RefsOf(pages[i])
        /\ \A i \in Strayed : d \notin RefsOf(away[i])

Closed == \A i \in Indexed : RefsOf(rows[i]) \subseteq Indexed

Mirrored ==
    \A i, j \in Indexed :
        /\ j \in rows[i].supersedes => i \in rows[j].supersededBy
        /\ j \in rows[i].related => i \in rows[j].related

\* Crashes and pages edited, moved, copied or removed outside are made good by
\* complete heals.  After two every page's entry has its row, which says what the
\* page it names says; the first one can lose the row of a moved page, and then the
\* second strips the references to it.  After a third all references point at
\* entries and carry their reverse links, unless an entry has two pages: its row
\* shows them in turn (Engine.heal, store.reconcileFromDisk).
HealsSettle ==
    op = Idle =>
        /\ heals >= 2 => \A i \in Id : /\ rows[i] = Named(i)
                                       /\ i \in Listed \cup Strayed => i \in Indexed
        /\ heals = 3 /\ Twins = {} => Closed /\ Mirrored
=============================================================================

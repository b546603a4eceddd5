------------------------------- MODULE Recall -------------------------------
(***************************************************************************)
(* Recall reads, waits for the query embedding and, in the memory service, *)
(* writes back what it read (src/core/application/memory-service.ts,       *)
(* recall and reinforced; src/core/application/engine.ts, recall; vector   *)
(* search in src/core/application/vector-leg.ts; reinforcement in          *)
(* src/core/application/maintenance.ts).  Saves, forgets, deletes and      *)
(* consolidations run while recalls wait.                                  *)
(*                                                                         *)
(* The engine asks one layer of entries after the other and only shows     *)
(* what it found; the service asks all entries at once and reinforces.     *)
(***************************************************************************)
EXTENDS Naturals, Sequences, FiniteSets

CONSTANTS
    Id,           \* entry ids
    UserIds,      \* ids of the user layer; the others are the project's
    Text,         \* bodies
    Request,      \* recalls that may be open at once
    None,         \* no page, no row, no copy, no recall
    Confidence,   \* confidences a new entry may have, counted in boosts
    Limit,        \* most entries one recall returns
    PromoteHits,  \* reads before an entry is promoted (twice that: again)
    PromoteTrust, \* confidence, in boosts, before an entry is promoted
    MaxRecalls,   \* bound on recalls
    MaxCalls,     \* bound on saves, forgets, deletes and consolidations
    MaxEdits      \* bound on pages edited outside

Status == {"active", "superseded"}
Level  == {"episodic", "semantic", "procedural"}
Copy   == [status : Status, text : Text, hits : Nat, trust : Nat, level : Level]
Entry  == {e \in Copy : e.hits <= MaxRecalls}

ASSUME RecallAssumption ==
    /\ UserIds \subseteq Id
    /\ Confidence \subseteq Nat
    /\ None \notin Copy /\ None \notin Status
    /\ Limit \in Nat /\ PromoteHits \in Nat \ {0} /\ PromoteTrust \in Nat
    /\ MaxRecalls \in Nat /\ MaxCalls \in Nat /\ MaxEdits \in Nat

VARIABLES
    pages,   \* Id -> page on disk
    rows,    \* Id -> row of the index
    vecs,    \* Id -> status the vector index has for the entry
    recall,  \* Request -> the open recall
    said,    \* history: Id -> the last command about the id
    held,    \* history: Id -> a waiting recall had a copy when it was given
    recalls, calls, edits

vars == <<pages, rows, vecs, recall, said, held, recalls, calls, edits>>

\* Service and engine: what a recall asks for and whether it reinforces.
Plans ==
    {[touch |-> t, layers |-> <<Id>>] : t \in BOOLEAN}
    \cup {[touch |-> FALSE, layers |-> <<Id \ UserIds, UserIds>>]}

TypeOK ==
    /\ pages \in [Id -> Entry \cup {None}]
    /\ rows \in [Id -> Entry \cup {None}]
    /\ vecs \in [Id -> Status \cup {None}]
    /\ \A r \in Request : recall[r] # None =>
          /\ recall[r].plan \in Plans
          /\ recall[r].layer \in 1..Len(recall[r].plan.layers)
          /\ DOMAIN recall[r].items \subseteq Id
          /\ recall[r].items \in [DOMAIN recall[r].items -> Entry]
          /\ recall[r].semantic \subseteq Id
    /\ said \in [Id -> {"nothing", "save", "forget", "delete"}]
    /\ held \in [Id -> BOOLEAN]

-----------------------------------------------------------------------------
(* Helpers *)

Indexed == {i \in Id : rows[i] # None}
Active(S) == {i \in S \cap Indexed : rows[i].status = "active"}

\* g replaces f where it is defined.
Over(f, g) == [i \in DOMAIN f \cup DOMAIN g |-> IF i \in DOMAIN g THEN g[i] ELSE f[i]]

\* Store.upsert of several entries: pages and rows.
Upsert(new) == pages' = Over(pages, new) /\ rows' = Over(rows, new)

\* Mutant of Promoted: confidence does not count.
PromotedByHits(e) ==
    IF e.level = "episodic" /\ e.hits >= PromoteHits THEN "semantic"
    ELSE IF e.level = "semantic" /\ e.hits >= 2 * PromoteHits THEN "procedural"
    ELSE e.level

\* promote: one level at a time, by reads and confidence.
Promoted(e) ==
    IF e.trust < PromoteTrust \/ e.hits < PromoteHits THEN e.level
    ELSE IF e.level = "episodic" THEN "semantic"
    ELSE IF e.level = "semantic" /\ e.hits >= 2 * PromoteHits THEN "procedural"
    ELSE e.level

\* Mutant of Reinforced: a read counts twice.
ReinforcedTwice(e) ==
    LET next == [e EXCEPT !.hits = @ + 2,
                          !.trust = IF e.status = "active" THEN @ + 1 ELSE @]
    IN IF e.status = "active" THEN [next EXCEPT !.level = Promoted(next)] ELSE next

\* reinforce: entries that are not active are only counted.
Reinforced(e) ==
    LET next == [e EXCEPT !.hits = @ + 1,
                          !.trust = IF e.status = "active" THEN @ + 1 ELSE @]
    IN IF e.status = "active" THEN [next EXCEPT !.level = Promoted(next)] ELSE next

-----------------------------------------------------------------------------

Init ==
    /\ pages = [i \in Id |-> None] /\ rows = pages
    /\ vecs = [i \in Id |-> None]
    /\ recall = [r \in Request |-> None]
    /\ said = [i \in Id |-> "nothing"]
    /\ held = [i \in Id |-> FALSE]
    /\ recalls = 0 /\ calls = 0 /\ edits = 0

Call == calls < MaxCalls /\ calls' = calls + 1

\* A waiting recall that will write back what it read about id.
Holding(id) ==
    \E r \in Request : recall[r] # None /\ recall[r].plan.touch /\ id \in DOMAIN recall[r].items

Say(id, word) ==
    /\ said' = [said EXCEPT ![id] = word]
    /\ held' = [held EXCEPT ![id] = Holding(id)]

Save(id, t, c) ==
    /\ Call
    /\ said[id] = "nothing"
    /\ Upsert([i \in {id} |-> [status |-> "active", text |-> t, hits |-> 0,
                               trust |-> c, level |-> "episodic"]])
    /\ Say(id, "save")
    /\ UNCHANGED <<vecs, recall, recalls, edits>>

Forget(id) ==
    /\ Call
    /\ id \in Indexed
    /\ Upsert([i \in {id} |-> [rows[id] EXCEPT !.status = "superseded"]])
    /\ Say(id, "forget")
    /\ UNCHANGED <<vecs, recall, recalls, edits>>

Delete(id) ==
    /\ Call
    /\ id \in Indexed
    /\ pages' = [pages EXCEPT ![id] = None]
    /\ rows' = [rows EXCEPT ![id] = None]
    /\ vecs' = [vecs EXCEPT ![id] = None]
    /\ Say(id, "delete")
    /\ UNCHANGED <<recall, recalls, edits>>

Consolidate ==
    LET Risen == {i \in Active(Id) : Promoted(rows[i]) # rows[i].level}
    IN /\ Call
       /\ Upsert([i \in Risen |-> [rows[i] EXCEPT !.level = Promoted(rows[i])]])
       /\ UNCHANGED <<vecs, recall, said, held, recalls, edits>>

-----------------------------------------------------------------------------
(* A recall *)

\* Lexical search of one layer: active entries, of which it finds some.
Lexical(items, S) == Over(items, [i \in S |-> rows[i]])

\* Rank: some of the candidates, at most Limit.
Rankings(items) == {S \in SUBSET DOMAIN items : Cardinality(S) <= Limit}

\* What is shown is written back, when the caller reinforces.
Reinforce(items, touch) ==
    IF touch THEN Upsert([i \in DOMAIN items |-> Reinforced(items[i])])
    ELSE UNCHANGED <<pages, rows>>

\* An empty query lists and answers at once.
Browse(r, touch) ==
    /\ recall[r] = None /\ recalls < MaxRecalls
    /\ recalls' = recalls + 1
    /\ \E S \in Rankings([i \in Active(Id) |-> rows[i]]) :
          Reinforce([i \in S |-> rows[i]], touch)
    /\ UNCHANGED <<vecs, recall, said, held, calls, edits>>

\* Up to the await of the query embedding.
Ask(r, plan) ==
    /\ recall[r] = None /\ recalls < MaxRecalls
    /\ recalls' = recalls + 1
    /\ \E S \in SUBSET Active(plan.layers[1]) :
          recall' = [recall EXCEPT ![r] =
                       [plan |-> plan, layer |-> 1,
                        items |-> Lexical([i \in {} |-> None], S), semantic |-> {}]]
    /\ UNCHANGED <<pages, rows, vecs, said, held, calls, edits>>

\* Hits of the vector index by its own copy of the status; none when the
\* embedding fails.
Hits(S) == SUBSET {i \in S : vecs[i] = "active"}

\* The embedding arrives and another layer follows.
NextLayer(r) ==
    LET q == recall[r] IN
    /\ q # None /\ q.layer < Len(q.plan.layers)
    /\ \E H \in Hits(q.plan.layers[q.layer]), S \in SUBSET Active(q.plan.layers[q.layer + 1]) :
          recall' = [recall EXCEPT ![r] =
                       [plan |-> q.plan, layer |-> q.layer + 1,
                        items |-> Lexical(q.items, S), semantic |-> q.semantic \cup H]]
    /\ UNCHANGED <<pages, rows, vecs, said, held, recalls, calls, edits>>

\* Mutant of Fetched: the copy of the vector index is trusted.
FetchedAsIndexed(items, H) ==
    Over(items, [i \in (H \cap Indexed) \ DOMAIN items |->
                    [rows[i] EXCEPT !.status = vecs[i]]])

\* Hits the lexical search did not find are read from the store.
Fetched(items, H) == Over(items, [i \in (H \cap Indexed) \ DOMAIN items |-> rows[i]])

\* The last embedding arrives: fetch, rank, reinforce, answer.
Answer(r) ==
    LET q == recall[r] IN
    /\ q # None /\ q.layer = Len(q.plan.layers)
    /\ \E H \in Hits(q.plan.layers[q.layer]) :
       \E S \in Rankings(Fetched(q.items, q.semantic \cup H)) :
          LET found == Fetched(q.items, q.semantic \cup H)
          IN Reinforce([i \in S |-> found[i]], q.plan.touch)
    /\ recall' = [recall EXCEPT ![r] = None]
    /\ UNCHANGED <<vecs, said, held, recalls, calls, edits>>

-----------------------------------------------------------------------------
(* The world *)

\* The queue copies an entry's status to the vector index (module EmbedQueue).
CatchUp(id) ==
    /\ vecs' = [vecs EXCEPT ![id] = IF rows[id] = None THEN None ELSE rows[id].status]
    /\ UNCHANGED <<pages, rows, recall, said, held, recalls, calls, edits>>

EditPage(id, t) ==
    /\ edits < MaxEdits /\ edits' = edits + 1
    /\ pages[id] # None
    /\ pages' = [pages EXCEPT ![id].text = t]
    /\ UNCHANGED <<rows, vecs, recall, said, held, recalls, calls>>

\* A pass over the disk (module MemoryStore).
Reconcile ==
    /\ rows' = pages
    /\ UNCHANGED <<pages, vecs, recall, said, held, recalls, calls, edits>>

Next ==
    \/ \E i \in Id : Forget(i) \/ Delete(i) \/ CatchUp(i)
    \/ \E i \in Id, t \in Text : EditPage(i, t) \/ \E c \in Confidence : Save(i, t, c)
    \/ Consolidate
    \/ \E r \in Request, touch \in BOOLEAN : Browse(r, touch)
    \/ \E r \in Request, plan \in Plans : Ask(r, plan)
    \/ \E r \in Request : NextLayer(r) \/ Answer(r)
    \/ Reconcile

Spec == Init /\ [][Next]_vars

-----------------------------------------------------------------------------
(* Properties *)

\* A forgotten entry stays out of the active ones and a deleted entry stays
\* away, in the index and on disk, through every recall, consolidation and
\* pass, unless a recall that reinforces held a copy when the command came
\* (MemoryService.forget, delete, recall).
CommandsStick ==
    \A i \in Id : ~held[i] =>
        /\ said[i] = "forget" => /\ rows[i] # None /\ rows[i].status = "superseded"
                                 /\ pages[i] # None /\ pages[i].status = "superseded"
        /\ said[i] = "delete" => rows[i] = None /\ pages[i] = None

\* However copies are interleaved and written back, an entry above the first
\* level has the reads and the confidence for it (promote, reinforce).
LevelEarned ==
    \A i \in Indexed :
        /\ rows[i].level # "episodic" =>
              rows[i].hits >= PromoteHits /\ rows[i].trust >= PromoteTrust
        /\ rows[i].level = "procedural" => rows[i].hits >= 2 * PromoteHits

=============================================================================

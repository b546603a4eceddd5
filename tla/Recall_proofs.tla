---------------------------- MODULE Recall_proofs ----------------------------
(***************************************************************************)
(* Proofs about Recall, for every set of ids and requests, every limit and *)
(* any number of recalls, commands and edits: commands are not undone by   *)
(* recalls that held no copy (CommandsStick), levels are earned            *)
(* (LevelEarned), and an entry counts no more reads than there were        *)
(* recalls (TypeOK).                                                       *)
(***************************************************************************)
EXTENDS Recall, FiniteSetTheorems, TLAPS

Items == UNION {[S -> Copy] : S \in SUBSET Id}
Open  == [plan : Plans, layer : Nat, items : Items, semantic : SUBSET Id]

\* The shape of the state, without the bound on reads.
Shape ==
    /\ pages \in [Id -> Copy \cup {None}]
    /\ rows \in [Id -> Copy \cup {None}]
    /\ recall \in [Request -> Open \cup {None}]
    /\ \A r \in Request : recall[r] # None =>
           recall[r].layer \in 1..Len(recall[r].plan.layers)
    /\ said \in [Id -> {"nothing", "save", "forget", "delete"}]
    /\ held \in [Id -> BOOLEAN]

\* Reads and confidence that go with the level.
Earned(e) ==
    /\ e.level # "episodic" => e.hits >= PromoteHits /\ e.trust >= PromoteTrust
    /\ e.level = "procedural" => e.hits >= 2 * PromoteHits

\* What may be written for entry i: nothing that undoes the last command about it.
Allowed(i, e) ==
    ~held[i] => /\ said[i] = "forget" => e # None /\ e.status = "superseded"
                /\ said[i] = "delete" => e = None

\* A copy, or the absence of one, that may be written for i.
Sound(i, e) == Allowed(i, e) /\ (e # None => Earned(e))

\* Copies that will be written are as good as what is stored.
CopiesSound ==
    /\ \A i \in Id : Sound(i, rows[i]) /\ Sound(i, pages[i])
    /\ \A r \in Request : recall[r] # None =>
           \A i \in DOMAIN recall[r].items :
               /\ Earned(recall[r].items[i])
               /\ recall[r].plan.touch => Allowed(i, recall[r].items[i])

RecallInv == Shape /\ CopiesSound

-----------------------------------------------------------------------------
(* Operators                                                               *)

\* Some items: a function from ids to copies.
LEMMA ItemsAre ==
    /\ \A f \in Items : DOMAIN f \subseteq Id /\ \A i \in DOMAIN f : f[i] \in Copy
    /\ \A S \in SUBSET Id : \A f \in [S -> Copy] : f \in Items
BY DEF Items

\* Writing some entries over all.
LEMMA OverAll ==
    ASSUME NEW f \in [Id -> Copy \cup {None}], NEW g \in Items
    PROVE  /\ Over(f, g) \in [Id -> Copy \cup {None}]
           /\ \A i \in Id : Over(f, g)[i] = IF i \in DOMAIN g THEN g[i] ELSE f[i]
<1>1. DOMAIN g \subseteq Id /\ \A i \in DOMAIN g : g[i] \in Copy
  BY ItemsAre
<1>2. DOMAIN f \cup DOMAIN g = Id
  BY <1>1
<1> QED BY <1>1, <1>2 DEF Over

\* Adding items to items.
LEMMA OverItems ==
    ASSUME NEW f \in Items, NEW g \in Items
    PROVE  /\ Over(f, g) \in Items
           /\ DOMAIN Over(f, g) = DOMAIN f \cup DOMAIN g
           /\ \A i \in DOMAIN f \cup DOMAIN g :
                  Over(f, g)[i] = IF i \in DOMAIN g THEN g[i] ELSE f[i]
<1>1. /\ DOMAIN f \subseteq Id /\ DOMAIN g \subseteq Id
      /\ \A i \in DOMAIN f : f[i] \in Copy
      /\ \A i \in DOMAIN g : g[i] \in Copy
  BY ItemsAre
<1>2. DOMAIN f \cup DOMAIN g \in SUBSET Id
  BY <1>1
<1>3. Over(f, g) \in [DOMAIN f \cup DOMAIN g -> Copy]
  BY <1>1 DEF Over
<1> QED BY <1>2, <1>3, ItemsAre DEF Over

\* Reinforcing keeps the status, and earns the level it gives.
LEMMA ReinforcedSound ==
    ASSUME NEW e \in Copy
    PROVE  /\ Reinforced(e) \in Copy
           /\ Reinforced(e).status = e.status
           /\ Earned(e) => Earned(Reinforced(e))
<1> DEFINE next == [e EXCEPT !.hits = @ + 1,
                             !.trust = IF e.status = "active" THEN @ + 1 ELSE @]
<1>1. /\ next \in Copy /\ next.status = e.status /\ next.level = e.level
      /\ next.hits = e.hits + 1 /\ next.trust \in {e.trust, e.trust + 1}
      /\ e.hits \in Nat /\ e.trust \in Nat /\ e.level \in Level
  <2>1. e.hits \in Nat /\ e.trust \in Nat /\ e.level \in Level
    BY DEF Copy
  <2>2. e.hits + 1 \in Nat /\ (IF e.status = "active" THEN e.trust + 1 ELSE e.trust) \in Nat
    BY <2>1
  <2>3. next.trust = IF e.status = "active" THEN e.trust + 1 ELSE e.trust
    BY DEF Copy
  <2> QED BY <2>1, <2>2, <2>3 DEF Copy
<1>2. Promoted(next) \in Level
  BY <1>1 DEF Promoted, Level
<1>3. CASE e.status # "active"
  <2>1. Reinforced(e) = next
    BY <1>3 DEF Reinforced
  <2> HIDE DEF next
  <2> QED BY <1>1, <2>1, RecallAssumption DEF Earned
<1>4. CASE e.status = "active"
  <2>1. Reinforced(e) = [next EXCEPT !.level = Promoted(next)]
    BY <1>4 DEF Reinforced
  <2> HIDE DEF next
  <2>2. /\ Reinforced(e) \in Copy /\ Reinforced(e).status = e.status
        /\ Reinforced(e).level = Promoted(next)
        /\ Reinforced(e).hits = next.hits /\ Reinforced(e).trust = next.trust
    BY <1>1, <1>2, <2>1 DEF Copy
  <2>3. Earned(e) => Earned(Reinforced(e))
    BY <1>1, <2>2, RecallAssumption DEF Earned, Promoted, Level
  <2> QED BY <2>2, <2>3
<1> QED BY <1>3, <1>4

\* Promotion alone earns the level it gives.
LEMMA PromotedSound ==
    ASSUME NEW e \in Copy
    PROVE  LET p == [e EXCEPT !.level = Promoted(e)]
           IN  p \in Copy /\ p.status = e.status /\ (Earned(e) => Earned(p))
<1> DEFINE p == [e EXCEPT !.level = Promoted(e)]
<1>1. e.hits \in Nat /\ e.trust \in Nat /\ e.level \in Level
  BY DEF Copy
<1>2. Promoted(e) \in Level
  BY <1>1 DEF Promoted, Level
<1>3. /\ p \in Copy /\ p.status = e.status /\ p.level = Promoted(e)
      /\ p.hits = e.hits /\ p.trust = e.trust
  BY <1>2 DEF Copy
<1> HIDE DEF p
<1>4. Earned(e) => Earned(p)
  BY <1>1, <1>3, RecallAssumption DEF Earned, Promoted, Level
<1> QED BY <1>3, <1>4 DEF p

-----------------------------------------------------------------------------
(* Steps                                                                   *)

\* Open recalls stay as they are.
LEMMA OthersWait ==
    ASSUME RecallInv, UNCHANGED <<recall, said, held>>,
           pages' \in [Id -> Copy \cup {None}], rows' \in [Id -> Copy \cup {None}],
           \A i \in Id : Sound(i, rows'[i]) /\ Sound(i, pages'[i])
    PROVE  RecallInv'
BY DEF RecallInv, Shape, CopiesSound, Sound, Allowed, Earned

\* Writing sound copies.
LEMMA Upserting ==
    ASSUME RecallInv, NEW new \in Items, \A i \in DOMAIN new : Sound(i, new[i]), Upsert(new)
    PROVE  /\ pages' \in [Id -> Copy \cup {None}] /\ rows' \in [Id -> Copy \cup {None}]
           /\ \A i \in Id : Sound(i, rows'[i]) /\ Sound(i, pages'[i])
<1>1. pages \in [Id -> Copy \cup {None}] /\ rows \in [Id -> Copy \cup {None}]
  BY DEF RecallInv, Shape
<1>2. /\ pages' = Over(pages, new) /\ rows' = Over(rows, new)
  BY DEF Upsert
<1>3. \A i \in Id : /\ rows'[i] \in {rows[i], new[i]} /\ (i \notin DOMAIN new => rows'[i] = rows[i])
                    /\ pages'[i] \in {pages[i], new[i]} /\ (i \notin DOMAIN new => pages'[i] = pages[i])
                    /\ (i \in DOMAIN new => rows'[i] = new[i] /\ pages'[i] = new[i])
  BY <1>1, <1>2, OverAll
<1>4. \A i \in Id : Sound(i, rows[i]) /\ Sound(i, pages[i])
  BY DEF RecallInv, CopiesSound
<1>5. \A i \in Id : Sound(i, rows'[i]) /\ Sound(i, pages'[i])
  BY <1>3, <1>4
<1>6. pages' \in [Id -> Copy \cup {None}] /\ rows' \in [Id -> Copy \cup {None}]
  BY <1>1, <1>2, OverAll
<1> QED BY <1>5, <1>6

\* What a recall that reinforces writes back is sound if what it has found is.
LEMMA Reinforcing ==
    ASSUME RecallInv, NEW found \in Items, NEW S \in SUBSET DOMAIN found,
           NEW touch \in BOOLEAN,
           \A i \in DOMAIN found : Earned(found[i]) /\ (touch => Allowed(i, found[i])),
           Reinforce([i \in S |-> found[i]], touch)
    PROVE  /\ pages' \in [Id -> Copy \cup {None}] /\ rows' \in [Id -> Copy \cup {None}]
           /\ \A i \in Id : Sound(i, rows'[i]) /\ Sound(i, pages'[i])
<1> DEFINE new == [i \in S |-> Reinforced(found[i])]
<1>1. CASE ~touch
  BY <1>1 DEF Reinforce, RecallInv, Shape, CopiesSound
<1>2. CASE touch
  <2>1. /\ S \in SUBSET Id
        /\ \A i \in S : found[i] \in Copy /\ i \in DOMAIN found
    BY ItemsAre
  <2>2. \A i \in S : /\ Reinforced(found[i]) \in Copy
                     /\ Reinforced(found[i]).status = found[i].status
                     /\ Earned(Reinforced(found[i]))
    BY <2>1, ReinforcedSound
  <2>3. \A i \in S : Sound(i, Reinforced(found[i]))
    BY <1>2, <2>1, <2>2, RecallAssumption DEF Sound, Allowed
  <2>4. new \in Items
    <3>1. new \in [S -> Copy]
      BY <2>2
    <3> QED BY <2>1, <3>1, ItemsAre
  <2>5. \A i \in DOMAIN new : Sound(i, new[i])
    BY <2>3
  <2>6. Upsert(new)
    <3>1. DOMAIN [i \in S |-> found[i]] = S
      OBVIOUS
    <3>2. [i \in S |-> Reinforced([j \in S |-> found[j]][i])] = new
      OBVIOUS
    <3> QED BY <1>2, <3>1, <3>2 DEF Reinforce
  <2> QED BY <2>4, <2>5, <2>6, Upserting
<1> QED BY <1>1, <1>2

\* Active rows, taken as items.
LEMMA RowsAsItems ==
    ASSUME RecallInv, NEW S \in SUBSET Indexed
    PROVE  /\ [i \in S |-> rows[i]] \in Items
           /\ \A i \in S : Earned(rows[i]) /\ Allowed(i, rows[i])
<1>1. S \in SUBSET Id /\ \A i \in S : rows[i] # None /\ rows[i] \in Copy
  BY DEF Indexed, RecallInv, Shape
<1>2. [i \in S |-> rows[i]] \in [S -> Copy]
  BY <1>1
<1>3. \A i \in S : Earned(rows[i]) /\ Allowed(i, rows[i])
  BY <1>1 DEF RecallInv, CopiesSound, Sound
<1> QED BY <1>1, <1>2, <1>3, ItemsAre

\* A plan has layers, each of them ids.
LEMMA PlansAre ==
    ASSUME NEW p \in Plans
    PROVE  /\ p.touch \in BOOLEAN
           /\ 1 \in 1..Len(p.layers)
           /\ \A l \in 1..Len(p.layers) : p.layers[l] \subseteq Id
<1>1. CASE \E t \in BOOLEAN : p = [touch |-> t, layers |-> <<Id>>]
  <2>1. p.touch \in BOOLEAN /\ p.layers = <<Id>>
    BY <1>1
  <2>2. 1 \in 1..Len(<<Id>>) /\ \A l \in 1..Len(<<Id>>) : <<Id>>[l] \subseteq Id
    OBVIOUS
  <2> QED BY <2>1, <2>2
<1>2. CASE p = [touch |-> FALSE, layers |-> <<Id \ UserIds, UserIds>>]
  <2>1. p.touch \in BOOLEAN /\ p.layers = <<Id \ UserIds, UserIds>>
    BY <1>2
  <2>2. /\ 1 \in 1..Len(<<Id \ UserIds, UserIds>>)
        /\ \A l \in 1..Len(<<Id \ UserIds, UserIds>>) : <<Id \ UserIds, UserIds>>[l] \subseteq Id
    BY RecallAssumption
  <2> QED BY <2>1, <2>2
<1> QED BY <1>1, <1>2 DEF Plans

\* What is known of an open recall.
LEMMA OpenRecall ==
    ASSUME RecallInv, NEW r \in Request, recall[r] # None
    PROVE  /\ recall[r] \in Open /\ recall[r].items \in Items
           /\ recall[r].plan \in Plans /\ recall[r].plan.touch \in BOOLEAN
           /\ recall[r].semantic \in SUBSET Id /\ recall[r].layer \in Nat
           /\ recall[r].layer \in 1..Len(recall[r].plan.layers)
           /\ recall[r].plan.layers[recall[r].layer] \subseteq Id
           /\ \A i \in DOMAIN recall[r].items :
                  /\ Earned(recall[r].items[i])
                  /\ recall[r].plan.touch => Allowed(i, recall[r].items[i])
<1>1. recall[r] \in Open /\ recall[r].layer \in 1..Len(recall[r].plan.layers)
  BY DEF RecallInv, Shape
<1>2. \A p \in Plans : p.touch \in BOOLEAN /\ \A l \in 1..Len(p.layers) : p.layers[l] \subseteq Id
  BY PlansAre
<1>3. /\ recall[r].items \in Items /\ recall[r].plan \in Plans
      /\ recall[r].semantic \in SUBSET Id /\ recall[r].layer \in Nat
  BY <1>1 DEF Open
<1>4. \A i \in DOMAIN recall[r].items :
          /\ Earned(recall[r].items[i])
          /\ recall[r].plan.touch => Allowed(i, recall[r].items[i])
  BY DEF RecallInv, CopiesSound
<1> QED BY <1>1, <1>2, <1>3, <1>4

\* A command about one entry: no other entry is concerned, and the copies of this
\* one that will still be written are known.
LEMMA Command ==
    ASSUME RecallInv, NEW id \in Id, NEW e \in Copy \cup {None},
           NEW word \in {"save", "forget", "delete"}, Say(id, word),
           pages' = [pages EXCEPT ![id] = e], rows' = [rows EXCEPT ![id] = e],
           e # None => Earned(e),
           word = "forget" => e # None /\ e.status = "superseded",
           word = "delete" => e = None,
           UNCHANGED recall
    PROVE  RecallInv'
<1>1. /\ said' = [said EXCEPT ![id] = word] /\ held' = [held EXCEPT ![id] = Holding(id)]
      /\ said \in [Id -> {"nothing", "save", "forget", "delete"}] /\ held \in [Id -> BOOLEAN]
      /\ pages \in [Id -> Copy \cup {None}] /\ rows \in [Id -> Copy \cup {None}]
  BY DEF Say, RecallInv, Shape
<1>2. Holding(id) \in BOOLEAN
  BY DEF Holding
<1>3. Shape'
  BY <1>1, <1>2 DEF RecallInv, Shape
<1>4. \A i \in Id \ {id} : \A x : Allowed(i, x)' <=> Allowed(i, x')
  BY <1>1 DEF Allowed
<1>5. Allowed(id, e)'
  BY <1>1 DEF Allowed
<1>6. \A i \in Id : Sound(i, rows[i])' /\ Sound(i, pages[i])'
  <2> SUFFICES ASSUME NEW i \in Id PROVE Sound(i, rows[i])' /\ Sound(i, pages[i])'
    OBVIOUS
  <2>1. CASE i = id
    BY <1>1, <2>1 DEF Sound, Allowed, Earned
  <2>2. CASE i # id
    BY <1>1, <2>2 DEF RecallInv, CopiesSound, Sound, Allowed, Earned
  <2> QED BY <2>1, <2>2
<1>7. ASSUME NEW r \in Request, recall'[r] # None, NEW i \in DOMAIN recall'[r].items
      PROVE  /\ Earned(recall'[r].items[i])
             /\ recall'[r].plan.touch => Allowed(i, recall[r].items[i])'
  <2>1. recall' = recall /\ i \in Id
    BY <1>7, OpenRecall, ItemsAre
  <2>2. Earned(recall[r].items[i]) /\ (recall[r].plan.touch => Allowed(i, recall[r].items[i]))
    BY <1>7, <2>1, OpenRecall
  <2>3. CASE i # id
    BY <1>1, <2>1, <2>2, <2>3 DEF Allowed
  <2>4. CASE i = id
    <3>1. recall[r].plan.touch => Holding(id)
      BY <1>7, <2>1, <2>4 DEF Holding
    <3> QED BY <1>1, <2>1, <2>2, <2>4, <3>1 DEF Allowed
  <2> QED BY <2>3, <2>4
<1>8. CopiesSound'
  BY <1>6, <1>7 DEF CopiesSound, Earned
<1> QED BY <1>3, <1>8 DEF RecallInv

\* Commands and edits.
LEMMA CommandStep ==
    ASSUME RecallInv, NEW id \in Id
    PROVE  /\ \A t \in Text, c \in Confidence : Save(id, t, c) => RecallInv'
           /\ Forget(id) => RecallInv'
           /\ Delete(id) => RecallInv'
           /\ \A t \in Text : EditPage(id, t) => RecallInv'
<1>0. pages \in [Id -> Copy \cup {None}] /\ rows \in [Id -> Copy \cup {None}]
  BY DEF RecallInv, Shape
<1>a. ASSUME NEW e \in Copy, Upsert([i \in {id} |-> e])
      PROVE  pages' = [pages EXCEPT ![id] = e] /\ rows' = [rows EXCEPT ![id] = e]
  BY <1>0, <1>a DEF Upsert, Over
<1>1. ASSUME NEW t \in Text, NEW c \in Confidence, Save(id, t, c) PROVE RecallInv'
  <2> DEFINE e == [status |-> "active", text |-> t, hits |-> 0, trust |-> c, level |-> "episodic"]
  <2>1. e \in Copy /\ Earned(e)
    BY RecallAssumption DEF Copy, Status, Level, Earned
  <2>2. Upsert([i \in {id} |-> e]) /\ Say(id, "save") /\ UNCHANGED recall
    BY <1>1 DEF Save
  <2> HIDE DEF e
  <2> QED BY <1>a, <2>1, <2>2, Command
<1>2. ASSUME Forget(id) PROVE RecallInv'
  <2> DEFINE e == [rows[id] EXCEPT !.status = "superseded"]
  <2>1. rows[id] \in Copy /\ Earned(rows[id])
    BY <1>0, <1>2 DEF Forget, Indexed, RecallInv, CopiesSound, Sound
  <2>2. e \in Copy /\ Earned(e) /\ e.status = "superseded"
    BY <2>1 DEF Copy, Status, Earned
  <2>3. Upsert([i \in {id} |-> e]) /\ Say(id, "forget") /\ UNCHANGED recall
    BY <1>2 DEF Forget
  <2> HIDE DEF e
  <2> QED BY <1>a, <2>2, <2>3, Command, RecallAssumption
<1>3. ASSUME Delete(id) PROVE RecallInv'
  BY <1>3, Command DEF Delete
<1>4. ASSUME NEW t \in Text, EditPage(id, t) PROVE RecallInv'
  <2>1. pages[id] \in Copy /\ Sound(id, pages[id])
    BY <1>0, <1>4 DEF EditPage, RecallInv, CopiesSound
  <2> DEFINE e == [pages[id] EXCEPT !.text = t]
  <2>2. e \in Copy /\ e # None /\ Sound(id, e)
    BY <2>1, RecallAssumption DEF Copy, Sound, Allowed, Earned
  <2>3. pages' = [pages EXCEPT ![id] = e]
    BY <1>4 DEF EditPage
  <2>4. UNCHANGED <<rows, recall, said, held>>
    BY <1>4 DEF EditPage
  <2> HIDE DEF e
  <2>5. \A i \in Id : Sound(i, rows[i]) /\ Sound(i, pages'[i])
    BY <1>0, <2>2, <2>3 DEF RecallInv, CopiesSound
  <2>6. pages' \in [Id -> Copy \cup {None}]
    BY <1>0, <2>2, <2>3
  <2> QED BY <1>0, <2>4, <2>5, <2>6, OthersWait
<1> QED BY <1>1, <1>2, <1>3, <1>4

\* Consolidation and the pass over the disk.
LEMMA MaintenanceStep ==
    ASSUME RecallInv, Consolidate \/ Reconcile PROVE RecallInv'
<1>1. CASE Consolidate
  <2> DEFINE Risen == {i \in Active(Id) : Promoted(rows[i]) # rows[i].level}
             new == [i \in Risen |-> [rows[i] EXCEPT !.level = Promoted(rows[i])]]
  <2>1. \A i \in Risen : /\ i \in Id /\ rows[i] \in Copy /\ rows[i].status = "active"
                         /\ Sound(i, rows[i]) /\ rows[i] # None
    BY DEF Active, Indexed, RecallInv, Shape, CopiesSound
  <2>2. \A i \in Risen : new[i] \in Copy /\ Sound(i, new[i])
    <3> SUFFICES ASSUME NEW i \in Risen PROVE new[i] \in Copy /\ Sound(i, new[i])
      OBVIOUS
    <3>1. new[i] \in Copy /\ new[i].status = rows[i].status /\ Earned(new[i])
      BY <2>1, PromotedSound DEF Sound
    <3> QED BY <2>1, <3>1, RecallAssumption DEF Sound, Allowed
  <2>3. new \in Items
    <3>1. new \in [Risen -> Copy] /\ Risen \in SUBSET Id
      BY <2>1, <2>2
    <3> QED BY <3>1, ItemsAre
  <2>4. Upsert(new) /\ UNCHANGED <<recall, said, held>>
    BY <1>1 DEF Consolidate
  <2>5. \A i \in DOMAIN new : Sound(i, new[i])
    BY <2>2
  <2> HIDE DEF new
  <2> QED BY <2>3, <2>4, <2>5, Upserting, OthersWait
<1>2. CASE Reconcile
  <2>1. rows' = pages /\ pages' = pages /\ UNCHANGED <<recall, said, held>>
    BY <1>2 DEF Reconcile
  <2> QED BY <2>1, OthersWait DEF RecallInv, Shape, CopiesSound
<1> QED BY <1>1, <1>2

\* One recall is opened or goes on, holding sound copies.
LEMMA RecallGoesOn ==
    ASSUME RecallInv, NEW r \in Request, NEW q \in Open,
           q.layer \in 1..Len(q.plan.layers),
           \A i \in DOMAIN q.items :
               Earned(q.items[i]) /\ (q.plan.touch => Allowed(i, q.items[i])),
           recall' = [recall EXCEPT ![r] = q], UNCHANGED <<pages, rows, said, held>>
    PROVE  RecallInv'
<1>1. Shape'
  BY DEF RecallInv, Shape
<1>2. \A i \in Id : Sound(i, rows[i])' /\ Sound(i, pages[i])'
  BY DEF RecallInv, CopiesSound, Sound, Allowed, Earned
<1>3. ASSUME NEW p \in Request, recall'[p] # None, NEW i \in DOMAIN recall'[p].items
      PROVE  /\ Earned(recall'[p].items[i])
             /\ recall'[p].plan.touch => Allowed(i, recall'[p].items[i])
  <2>1. CASE p = r
    <3>1. recall'[p] = q
      BY <2>1 DEF RecallInv, Shape
    <3> QED BY <1>3, <3>1
  <2>2. CASE p # r
    <3>1. recall'[p] = recall[p]
      BY <2>2 DEF RecallInv, Shape
    <3> QED BY <1>3, <3>1, OpenRecall
  <2> QED BY <2>1, <2>2
<1>4. CopiesSound'
  BY <1>2, <1>3 DEF CopiesSound, Earned, Allowed
<1> QED BY <1>1, <1>4 DEF RecallInv

\* Items of an open recall with rows read now are sound.
LEMMA MoreItems ==
    ASSUME RecallInv, NEW items \in Items, NEW touch \in BOOLEAN, NEW S \in SUBSET Indexed,
           \A i \in DOMAIN items : Earned(items[i]) /\ (touch => Allowed(i, items[i]))
    PROVE  LET more == Over(items, [i \in S |-> rows[i]])
           IN  /\ more \in Items
               /\ \A i \in DOMAIN more : Earned(more[i]) /\ (touch => Allowed(i, more[i]))
<1> DEFINE read == [i \in S |-> rows[i]]
<1>1. read \in Items /\ \A i \in S : Earned(rows[i]) /\ Allowed(i, rows[i])
  BY RowsAsItems
<1>2. DOMAIN read = S /\ \A i \in S : read[i] = rows[i]
  OBVIOUS
<1> HIDE DEF read
<1>3. /\ Over(items, read) \in Items
      /\ DOMAIN Over(items, read) = DOMAIN items \cup S
      /\ \A i \in DOMAIN items \cup S :
             Over(items, read)[i] = IF i \in S THEN rows[i] ELSE items[i]
  <2>1. read \in Items
    BY <1>1
  <2>2. /\ Over(items, read) \in Items
        /\ DOMAIN Over(items, read) = DOMAIN items \cup DOMAIN read
        /\ \A i \in DOMAIN items \cup DOMAIN read :
               Over(items, read)[i] = IF i \in DOMAIN read THEN read[i] ELSE items[i]
    BY <2>1, OverItems, Zenon
  <2> QED BY <1>2, <2>2
<1>4. \A i \in DOMAIN Over(items, read) :
          Earned(Over(items, read)[i]) /\ (touch => Allowed(i, Over(items, read)[i]))
  BY <1>1, <1>3
<1> QED BY <1>3, <1>4 DEF read

\* A recall without a query.
LEMMA BrowseStep ==
    ASSUME RecallInv, NEW r \in Request, NEW touch \in BOOLEAN, Browse(r, touch)
    PROVE  RecallInv'
<1> DEFINE found == [i \in Active(Id) |-> rows[i]]
<1>1. Active(Id) \in SUBSET Indexed
  BY DEF Active
<1>2. found \in Items /\ \A i \in DOMAIN found : Earned(found[i]) /\ Allowed(i, found[i])
  BY <1>1, RowsAsItems
<1>3. PICK S \in Rankings(found) : Reinforce([i \in S |-> rows[i]], touch)
  BY DEF Browse
<1>4. S \in SUBSET DOMAIN found /\ DOMAIN found = Active(Id)
  BY DEF Rankings
<1>5. [i \in S |-> rows[i]] = [i \in S |-> found[i]]
  BY <1>4
<1>6. Reinforce([i \in S |-> found[i]], touch)
  BY <1>3, <1>5
<1>7. UNCHANGED <<recall, said, held>>
  BY DEF Browse
<1> HIDE DEF found
<1> QED BY <1>2, <1>4, <1>6, <1>7, Reinforcing, OthersWait

\* A recall up to its first await.
LEMMA AskStep ==
    ASSUME RecallInv, NEW r \in Request, NEW plan \in Plans, Ask(r, plan)
    PROVE  RecallInv'
<1> DEFINE none == [i \in {} |-> None]
<1>1. PICK S \in SUBSET Active(plan.layers[1]) :
          recall' = [recall EXCEPT ![r] =
                       [plan |-> plan, layer |-> 1, items |-> Lexical(none, S), semantic |-> {}]]
  BY DEF Ask
<1>2. S \in SUBSET Indexed
  BY <1>1 DEF Active
<1>3. none \in Items /\ DOMAIN none = {}
  <2>1. none \in [{} -> Copy]
    OBVIOUS
  <2> QED BY <2>1, ItemsAre
<1>4. 1 \in 1..Len(plan.layers) /\ plan.touch \in BOOLEAN
  BY PlansAre
<1> HIDE DEF none
<1>5. /\ Lexical(none, S) \in Items
      /\ \A i \in DOMAIN Lexical(none, S) :
             /\ Earned(Lexical(none, S)[i])
             /\ plan.touch => Allowed(i, Lexical(none, S)[i])
  BY <1>2, <1>3, <1>4, MoreItems DEF Lexical
<1> DEFINE q == [plan |-> plan, layer |-> 1, items |-> Lexical(none, S), semantic |-> {}]
<1>6. q \in Open /\ q.items = Lexical(none, S) /\ q.plan = plan /\ q.layer = 1
  BY <1>5 DEF Open
<1>7. recall' = [recall EXCEPT ![r] = q] /\ UNCHANGED <<pages, rows, said, held>>
  BY <1>1 DEF Ask
<1> HIDE DEF q
<1> QED BY <1>4, <1>5, <1>6, <1>7, RecallGoesOn

\* The second layer of a recall.
LEMMA NextLayerStep ==
    ASSUME RecallInv, NEW r \in Request, NextLayer(r)
    PROVE  RecallInv'
<1> DEFINE q == recall[r]
<1>1. q # None /\ q.layer < Len(q.plan.layers) /\ UNCHANGED <<pages, rows, said, held>>
  BY DEF NextLayer
<1>2. PICK H \in Hits(q.plan.layers[q.layer]), S \in SUBSET Active(q.plan.layers[q.layer + 1]) :
          recall' = [recall EXCEPT ![r] =
                       [plan |-> q.plan, layer |-> q.layer + 1,
                        items |-> Lexical(q.items, S), semantic |-> q.semantic \cup H]]
  BY DEF NextLayer
<1>3. /\ q \in Open /\ q.items \in Items /\ q.plan \in Plans /\ q.plan.touch \in BOOLEAN
      /\ q.semantic \in SUBSET Id /\ q.layer \in Nat
      /\ q.layer \in 1..Len(q.plan.layers)
      /\ q.plan.layers[q.layer] \subseteq Id
      /\ \A i \in DOMAIN q.items : Earned(q.items[i]) /\ (q.plan.touch => Allowed(i, q.items[i]))
  BY <1>1, OpenRecall
<1> HIDE DEF q
<1>4. H \in SUBSET Id /\ S \in SUBSET Indexed
  BY <1>2, <1>3 DEF Hits, Active
<1>5. /\ Lexical(q.items, S) \in Items
      /\ \A i \in DOMAIN Lexical(q.items, S) :
             /\ Earned(Lexical(q.items, S)[i])
             /\ q.plan.touch => Allowed(i, Lexical(q.items, S)[i])
  BY <1>3, <1>4, MoreItems DEF Lexical
<1> DEFINE n == [plan |-> q.plan, layer |-> q.layer + 1,
                 items |-> Lexical(q.items, S), semantic |-> q.semantic \cup H]
<1>6. /\ n.plan = q.plan /\ n.items = Lexical(q.items, S) /\ n.layer = q.layer + 1
      /\ n \in Open
  <2>1. q.layer + 1 \in Nat /\ q.semantic \cup H \in SUBSET Id
    BY <1>3, <1>4
  <2> QED BY <1>3, <1>5, <2>1 DEF Open
<1>7. recall' = [recall EXCEPT ![r] = n]
  BY <1>2
<1>8. n.layer \in 1..Len(n.plan.layers)
  BY <1>1, <1>3, <1>6
<1> HIDE DEF n
<1> QED BY <1>1, <1>5, <1>6, <1>7, <1>8, RecallGoesOn

\* The end of a recall: what it found is written back.
LEMMA AnswerStep ==
    ASSUME RecallInv, NEW r \in Request, Answer(r)
    PROVE  RecallInv'
<1> DEFINE q == recall[r]
<1>1. q # None /\ recall' = [recall EXCEPT ![r] = None] /\ UNCHANGED <<said, held>>
  BY DEF Answer
<1>2. PICK H \in Hits(q.plan.layers[q.layer]) :
          \E S \in Rankings(Fetched(q.items, q.semantic \cup H)) :
             Reinforce([i \in S |-> Fetched(q.items, q.semantic \cup H)[i]], q.plan.touch)
  BY DEF Answer
<1>3. /\ q.items \in Items /\ q.plan.touch \in BOOLEAN
      /\ \A i \in DOMAIN q.items : Earned(q.items[i]) /\ (q.plan.touch => Allowed(i, q.items[i]))
  BY <1>1, OpenRecall
<1> DEFINE found == Fetched(q.items, q.semantic \cup H)
<1>4. /\ found \in Items
      /\ \A i \in DOMAIN found : Earned(found[i]) /\ (q.plan.touch => Allowed(i, found[i]))
  BY <1>3, MoreItems DEF Fetched
<1>5. PICK S \in Rankings(found) : Reinforce([i \in S |-> found[i]], q.plan.touch)
  BY <1>2
<1> HIDE DEF found, q
<1>6. S \in SUBSET DOMAIN found
  BY <1>5 DEF Rankings
<1>7. /\ pages' \in [Id -> Copy \cup {None}] /\ rows' \in [Id -> Copy \cup {None}]
      /\ \A i \in Id : Sound(i, rows'[i]) /\ Sound(i, pages'[i])
  BY <1>3, <1>4, <1>5, <1>6, Reinforcing
<1>8. Shape'
  BY <1>1, <1>7 DEF RecallInv, Shape
<1>9. \A p \in Request : recall'[p] # None => recall'[p] = recall[p]
  BY <1>1 DEF RecallInv, Shape
<1>10. \A p \in Request : recall'[p] # None =>
           \A i \in DOMAIN recall'[p].items :
               /\ Earned(recall'[p].items[i])
               /\ recall'[p].plan.touch => Allowed(i, recall'[p].items[i])
  BY <1>9, OpenRecall
<1>11. CopiesSound'
  BY <1>1, <1>7, <1>10 DEF CopiesSound, Sound, Allowed, Earned
<1> QED BY <1>8, <1>11 DEF RecallInv

-----------------------------------------------------------------------------
(* Theorems                                                                *)

\* The inductive invariant of recalls and commands.
LEMMA RecallInvariant == Spec => []RecallInv
<1>1. Init => RecallInv
  BY RecallAssumption DEF Init, RecallInv, Shape, CopiesSound, Sound, Allowed
<1>2. RecallInv /\ [Next]_vars => RecallInv'
  <2> SUFFICES ASSUME RecallInv, [Next]_vars PROVE RecallInv'
    OBVIOUS
  <2>1. ASSUME NEW i \in Id, CatchUp(i) PROVE RecallInv'
    BY <2>1 DEF CatchUp, RecallInv, Shape, CopiesSound, Sound, Allowed, Earned
  <2>2. CASE UNCHANGED vars
    BY <2>2 DEF vars, RecallInv, Shape, CopiesSound, Sound, Allowed, Earned
  <2> QED BY <2>1, <2>2, CommandStep, MaintenanceStep, BrowseStep, AskStep, NextLayerStep,
             AnswerStep DEF Next
<1> QED BY <1>1, <1>2, PTL DEF Spec

\* A forgotten or deleted entry stays so through every recall, unless one that
\* reinforces held a copy when the command came.  (MemoryService.forget, delete, recall.)
THEOREM CommandsHold == Spec => []CommandsStick
<1>1. RecallInv => CommandsStick
  BY DEF RecallInv, CopiesSound, Sound, Allowed, CommandsStick
<1> QED BY RecallInvariant, <1>1, PTL

\* No interleaving of copies written back promotes an entry without the reads and the
\* confidence for its level.  (promote, reinforce.)
THEOREM LevelsEarned == Spec => []LevelEarned
<1>1. RecallInv => LevelEarned
  BY DEF RecallInv, CopiesSound, Sound, Earned, LevelEarned, Indexed
<1> QED BY RecallInvariant, <1>1, PTL

-----------------------------------------------------------------------------
(* Reads counted                                                           *)

Waiting == {r \in Request : recall[r] # None}

\* Recalls that have answered: no copy counts more reads.
Spent == recalls - Cardinality(Waiting)

\* An entry, or none, that counts at most n reads.
Within(e, n) == e # None => e.hits <= n

\* Each waiting recall may still add a read to what is stored, and none but those.
CountInv ==
    /\ recalls \in 0..MaxRecalls
    /\ IsFiniteSet(Waiting) /\ Cardinality(Waiting) <= recalls
    /\ vecs \in [Id -> Status \cup {None}]
    /\ \A i \in Id : Within(rows[i], Spent) /\ Within(pages[i], Spent)
    /\ \A r \in Waiting : \A i \in DOMAIN recall[r].items : recall[r].items[i].hits <= Spent

\* Reinforcing adds a read, promoting none.
LEMMA ReadsOf ==
    ASSUME NEW e \in Copy
    PROVE  /\ e.hits \in Nat
           /\ Reinforced(e).hits = e.hits + 1
           /\ \A l : [e EXCEPT !.level = l].hits = e.hits
<1> DEFINE next == [e EXCEPT !.hits = @ + 1,
                             !.trust = IF e.status = "active" THEN @ + 1 ELSE @]
<1>1. e.hits \in Nat /\ \A l : [e EXCEPT !.level = l].hits = e.hits
  BY DEF Copy
<1>2. next.hits = e.hits + 1 /\ \A l : [next EXCEPT !.level = l].hits = next.hits
  BY DEF Copy
<1>3. Reinforced(e) \in {next, [next EXCEPT !.level = Promoted(next)]}
  BY DEF Reinforced
<1> HIDE DEF next
<1> QED  BY <1>1, <1>2, <1>3

\* The numbers of recalls are numbers.
LEMMA SpentIs ==
    ASSUME CountInv
    PROVE  recalls \in Nat /\ Cardinality(Waiting) \in Nat /\ Spent \in Nat /\ Spent <= recalls
<1>1. recalls \in Nat /\ Cardinality(Waiting) \in Nat /\ Cardinality(Waiting) <= recalls
  BY FS_CardinalityType, RecallAssumption DEF CountInv, RecallAssumption
<1> QED  BY <1>1 DEF Spent

\* A recall that opens is one more that waits: nothing is answered by it.
LEMMA Opening ==
    ASSUME RecallInv, CountInv, NEW r \in Request, NEW q,
           recall' = [recall EXCEPT ![r] = q], recalls' = recalls + 1
    PROVE  IsFiniteSet(Waiting') /\ Cardinality(Waiting') <= recalls' /\ Spent' >= Spent
<1>1. recall \in [Request -> Open \cup {None}]  BY DEF RecallInv, Shape
<1>2. Waiting' \in {Waiting \cup {r}, Waiting \ {r}}  BY <1>1 DEF Waiting
<1>3. IsFiniteSet(Waiting) /\ Cardinality(Waiting) <= recalls  BY DEF CountInv
<1>4. recalls \in Nat /\ Cardinality(Waiting) \in Nat  BY SpentIs
<1>5. /\ IsFiniteSet(Waiting \cup {r}) /\ IsFiniteSet(Waiting \ {r})
      /\ Cardinality(Waiting \cup {r}) \in {Cardinality(Waiting), Cardinality(Waiting) + 1}
      /\ Cardinality(Waiting \ {r}) \in {Cardinality(Waiting), Cardinality(Waiting) - 1}
  BY <1>3, FS_AddElement, FS_RemoveElement
<1>6. IsFiniteSet(Waiting')  BY <1>2, <1>5
<1>7. Cardinality(Waiting') \in {Cardinality(Waiting) - 1, Cardinality(Waiting),
                                Cardinality(Waiting) + 1}
  BY <1>2, <1>5
<1> QED  BY <1>3, <1>4, <1>6, <1>7 DEF Spent

\* An open recall that goes on or answers: the one that answers is spent.
LEMMA GoingOn ==
    ASSUME RecallInv, CountInv, NEW r \in Request, NEW q,
           recall[r] # None, recall' = [recall EXCEPT ![r] = q], recalls' = recalls
    PROVE  /\ IsFiniteSet(Waiting') /\ Cardinality(Waiting') <= recalls' /\ Spent' >= Spent
           /\ q = None => Spent' = Spent + 1
<1>1. recall \in [Request -> Open \cup {None}]  BY DEF RecallInv, Shape
<1>2. r \in Waiting /\ Waiting' = IF q = None THEN Waiting \ {r} ELSE Waiting
  BY <1>1 DEF Waiting
<1>3. IsFiniteSet(Waiting) /\ Cardinality(Waiting) <= recalls  BY DEF CountInv
<1>4. recalls \in Nat /\ Cardinality(Waiting) \in Nat  BY SpentIs
<1>5. IsFiniteSet(Waiting \ {r}) /\ Cardinality(Waiting \ {r}) = Cardinality(Waiting) - 1
  BY <1>2, <1>3, FS_RemoveElement
<1>6. CASE q = None
  <2>1. Cardinality(Waiting') = Cardinality(Waiting) - 1 /\ IsFiniteSet(Waiting')
    BY <1>2, <1>5, <1>6
  <2> QED  BY <1>3, <1>4, <1>6, <2>1 DEF Spent
<1>7. CASE q # None
  <2>1. Waiting' = Waiting  BY <1>2, <1>7
  <2> QED  BY <1>3, <1>4, <1>7, <2>1 DEF Spent
<1> QED  BY <1>6, <1>7

\* What may be read by a recall counts no more than what has been answered.
LEMMA MoreReads ==
    ASSUME RecallInv, CountInv, NEW items \in Items, NEW S \in SUBSET Indexed,
           \A i \in DOMAIN items : items[i].hits <= Spent
    PROVE  LET more == Over(items, [i \in S |-> rows[i]])
           IN  more \in Items /\ \A i \in DOMAIN more : more[i].hits <= Spent
<1> DEFINE read == [i \in S |-> rows[i]]
<1>1. read \in Items /\ DOMAIN read = S /\ \A i \in S : read[i] = rows[i]
  BY RowsAsItems
<1>2. \A i \in S : rows[i].hits <= Spent
  BY DEF Indexed, CountInv, Within
<1> HIDE DEF read
<1>3. /\ Over(items, read) \in Items
      /\ DOMAIN Over(items, read) = DOMAIN items \cup DOMAIN read
      /\ \A i \in DOMAIN items \cup DOMAIN read :
             Over(items, read)[i] = IF i \in DOMAIN read THEN read[i] ELSE items[i]
  BY <1>1, OverItems, Zenon
<1>4. \A i \in DOMAIN Over(items, read) : Over(items, read)[i].hits <= Spent
  BY <1>1, <1>2, <1>3
<1> QED  BY <1>3, <1>4 DEF read

\* A step after which as many recalls have answered, and that writes and holds no
\* more reads than that.
LEMMA Counted ==
    ASSUME RecallInv, RecallInv', CountInv,
           recalls' \in 0..MaxRecalls, IsFiniteSet(Waiting'),
           Cardinality(Waiting') <= recalls', Spent' >= Spent,
           vecs' \in [Id -> Status \cup {None}],
           \A i \in Id : /\ rows'[i] = rows[i] \/ rows'[i] = pages[i] \/ Within(rows'[i], Spent')
                         /\ pages'[i] = pages[i] \/ Within(pages'[i], Spent'),
           \A r \in Request :
              \/ recall'[r] \in {recall[r], None}
              \/ \A i \in DOMAIN recall'[r].items : recall'[r].items[i].hits <= Spent'
    PROVE  CountInv'
<1>1. Spent \in Nat  BY SpentIs
<1>2. Spent' \in Int
  <2>1. Cardinality(Waiting') \in Nat  BY FS_CardinalityType
  <2> QED  BY <2>1 DEF Spent
<1>3. \A e \in Copy : e.hits \in Nat  BY ReadsOf
<1>4. \A e \in Copy \cup {None} : Within(e, Spent) => Within(e, Spent')
  BY <1>1, <1>2, <1>3 DEF Within
<1>5. /\ rows \in [Id -> Copy \cup {None}] /\ pages \in [Id -> Copy \cup {None}]
      /\ \A i \in Id : Within(rows[i], Spent) /\ Within(pages[i], Spent)
  BY DEF RecallInv, Shape, CountInv
<1>6. \A i \in Id : Within(rows'[i], Spent') /\ Within(pages'[i], Spent')
  <2> SUFFICES ASSUME NEW i \in Id
               PROVE  Within(rows'[i], Spent') /\ Within(pages'[i], Spent')
    OBVIOUS
  <2>1. Within(rows[i], Spent') /\ Within(pages[i], Spent')  BY <1>4, <1>5
  <2> QED  BY <2>1
<1>7. ASSUME NEW r \in Waiting', NEW i \in DOMAIN recall'[r].items
      PROVE  recall'[r].items[i].hits <= Spent'
  <2>1. r \in Request /\ recall'[r] # None  BY <1>7 DEF Waiting
  <2>2. CASE recall'[r] = recall[r]
    <3>1. recall[r].items \in Items /\ r \in Waiting
      BY <2>1, <2>2, OpenRecall DEF Waiting
    <3>2. recall[r].items[i] \in Copy /\ recall[r].items[i].hits <= Spent
      BY <1>7, <2>2, <3>1, ItemsAre DEF CountInv
    <3> QED  BY <1>1, <1>2, <1>3, <2>2, <3>2
  <2> QED  BY <1>7, <2>1, <2>2
<1> QED  BY <1>6, <1>7 DEF CountInv

\* Steps that open and end no recall.
LEMMA QuietCounted ==
    ASSUME RecallInv, RecallInv', CountInv, UNCHANGED <<recall, recalls>>,
           vecs' \in [Id -> Status \cup {None}],
           \A i \in Id : /\ rows'[i] = rows[i] \/ rows'[i] = pages[i] \/ Within(rows'[i], Spent)
                         /\ pages'[i] = pages[i] \/ Within(pages'[i], Spent)
    PROVE  CountInv'
<1>1. Waiting' = Waiting /\ Spent' = Spent /\ Spent \in Nat  BY SpentIs DEF Waiting, Spent
<1>2. /\ recalls' \in 0..MaxRecalls /\ IsFiniteSet(Waiting')
      /\ Cardinality(Waiting') <= recalls' /\ Spent' >= Spent
  BY <1>1 DEF CountInv
<1> QED  BY <1>1, <1>2, Counted

\* What a recall writes back counts one read more than what it found.
LEMMA WritesCounted ==
    ASSUME RecallInv, CountInv, NEW found \in Items, NEW S \in SUBSET DOMAIN found,
           NEW touch \in BOOLEAN, \A i \in DOMAIN found : found[i].hits <= Spent,
           Reinforce([i \in S |-> found[i]], touch)
    PROVE  \A i \in Id : /\ rows'[i] = rows[i] \/ Within(rows'[i], Spent + 1)
                         /\ pages'[i] = pages[i] \/ Within(pages'[i], Spent + 1)
<1> DEFINE new == [i \in S |-> Reinforced(found[i])]
<1>1. CASE ~touch
  BY <1>1 DEF Reinforce
<1>2. CASE touch
  <2>1. /\ S \in SUBSET Id
        /\ \A i \in S : found[i] \in Copy /\ found[i].hits <= Spent
    BY ItemsAre
  <2>2. \A i \in S : Reinforced(found[i]) \in Copy /\ Reinforced(found[i]).hits = found[i].hits + 1
                    /\ found[i].hits \in Nat
    BY <2>1, ReinforcedSound, ReadsOf
  <2>3. new \in Items
    <3>1. new \in [S -> Copy]  BY <2>2
    <3> QED  BY <2>1, <3>1, ItemsAre
  <2>4. \A i \in DOMAIN new : Within(new[i], Spent + 1)
    BY <2>1, <2>2, SpentIs DEF Within
  <2>5. rows' = Over(rows, new) /\ pages' = Over(pages, new)
    <3>1. DOMAIN [i \in S |-> found[i]] = S
      OBVIOUS
    <3>2. [i \in S |-> Reinforced([j \in S |-> found[j]][i])] = new
      OBVIOUS
    <3> QED  BY <1>2, <3>1, <3>2 DEF Reinforce, Upsert
  <2> HIDE DEF new
  <2>6. rows \in [Id -> Copy \cup {None}] /\ pages \in [Id -> Copy \cup {None}]
    BY DEF RecallInv, Shape
  <2>7. \A i \in Id : /\ rows'[i] = IF i \in DOMAIN new THEN new[i] ELSE rows[i]
                      /\ pages'[i] = IF i \in DOMAIN new THEN new[i] ELSE pages[i]
    BY <2>3, <2>5, <2>6, OverAll
  <2> QED  BY <2>4, <2>7
<1> QED  BY <1>1, <1>2

\* Commands, edits and maintenance add no reads.
LEMMA CommandCounted ==
    ASSUME RecallInv, RecallInv', CountInv, NEW id \in Id,
           (\E t \in Text, c \in Confidence : Save(id, t, c)) \/ Forget(id) \/ Delete(id)
             \/ \E t \in Text : EditPage(id, t)
    PROVE  CountInv'
<1>0. /\ pages \in [Id -> Copy \cup {None}] /\ rows \in [Id -> Copy \cup {None}]
      /\ vecs \in [Id -> Status \cup {None}] /\ Spent \in Nat
      /\ \A i \in Id : Within(rows[i], Spent) /\ Within(pages[i], Spent)
  BY SpentIs DEF RecallInv, Shape, CountInv
<1>a. ASSUME NEW e, Upsert([i \in {id} |-> e])
      PROVE  pages' = [pages EXCEPT ![id] = e] /\ rows' = [rows EXCEPT ![id] = e]
  BY <1>0, <1>a DEF Upsert, Over
<1>b. ASSUME NEW e, Upsert([i \in {id} |-> e]), Within(e, Spent),
             UNCHANGED <<recall, recalls, vecs>>
      PROVE  CountInv'
  <2>1. pages' = [pages EXCEPT ![id] = e] /\ rows' = [rows EXCEPT ![id] = e]
    BY <1>a, <1>b
  <2>2. \A i \in Id : /\ rows'[i] = rows[i] \/ Within(rows'[i], Spent)
                      /\ pages'[i] = pages[i] \/ Within(pages'[i], Spent)
    BY <1>0, <1>b, <2>1
  <2> QED  BY <1>0, <1>b, <2>2, QuietCounted
<1>1. ASSUME NEW t \in Text, NEW c \in Confidence, Save(id, t, c) PROVE CountInv'
  <2> DEFINE e == [status |-> "active", text |-> t, hits |-> 0, trust |-> c, level |-> "episodic"]
  <2>1. Within(e, Spent)  BY <1>0 DEF Within
  <2>2. Upsert([i \in {id} |-> e]) /\ UNCHANGED <<recall, recalls, vecs>>
    BY <1>1 DEF Save
  <2> HIDE DEF e
  <2> QED  BY <1>b, <2>1, <2>2
<1>2. ASSUME Forget(id) PROVE CountInv'
  <2> DEFINE e == [rows[id] EXCEPT !.status = "superseded"]
  <2>1. rows[id] \in Copy /\ rows[id].hits <= Spent
    BY <1>0, <1>2 DEF Forget, Indexed, Within
  <2>2. e.hits = rows[id].hits  BY <2>1 DEF Copy
  <2>3. Upsert([i \in {id} |-> e]) /\ UNCHANGED <<recall, recalls, vecs>>
    BY <1>2 DEF Forget
  <2>4. Within(e, Spent)  BY <2>1, <2>2 DEF Within
  <2> HIDE DEF e
  <2> QED  BY <1>b, <2>3, <2>4
<1>3. ASSUME Delete(id) PROVE CountInv'
  <2>1. /\ pages' = [pages EXCEPT ![id] = None] /\ rows' = [rows EXCEPT ![id] = None]
        /\ vecs' = [vecs EXCEPT ![id] = None] /\ UNCHANGED <<recall, recalls>>
    BY <1>3 DEF Delete
  <2> QED  BY <1>0, <2>1, QuietCounted DEF Within
<1>4. ASSUME NEW t \in Text, EditPage(id, t) PROVE CountInv'
  <2> DEFINE e == [pages[id] EXCEPT !.text = t]
  <2>1. pages[id] \in Copy /\ pages[id].hits <= Spent
    BY <1>0, <1>4 DEF EditPage, Within
  <2>2. e.hits = pages[id].hits  BY <2>1 DEF Copy
  <2>3. pages' = [pages EXCEPT ![id] = e] /\ UNCHANGED <<rows, recall, recalls, vecs>>
    BY <1>4 DEF EditPage
  <2>4. Within(e, Spent)  BY <2>1, <2>2 DEF Within
  <2> HIDE DEF e
  <2>5. \A i \in Id : rows'[i] = rows[i] /\ (pages'[i] = pages[i] \/ Within(pages'[i], Spent))
    BY <1>0, <2>3, <2>4
  <2> QED  BY <1>0, <2>3, <2>5, QuietCounted
<1> QED  BY <1>1, <1>2, <1>3, <1>4

\* Consolidation, the pass over the disk and the queue add no reads.
LEMMA MaintenanceCounted ==
    ASSUME RecallInv, RecallInv', CountInv,
           Consolidate \/ Reconcile \/ \E id \in Id : CatchUp(id)
    PROVE  CountInv'
<1>0. /\ pages \in [Id -> Copy \cup {None}] /\ rows \in [Id -> Copy \cup {None}]
      /\ vecs \in [Id -> Status \cup {None}] /\ Spent \in Nat
      /\ \A i \in Id : Within(rows[i], Spent) /\ Within(pages[i], Spent)
  BY SpentIs DEF RecallInv, Shape, CountInv
<1>1. CASE Consolidate
  <2> DEFINE Risen == {i \in Active(Id) : Promoted(rows[i]) # rows[i].level}
             new == [i \in Risen |-> [rows[i] EXCEPT !.level = Promoted(rows[i])]]
  <2>1. \A i \in Risen : i \in Id /\ rows[i] \in Copy /\ rows[i].hits <= Spent
    BY <1>0 DEF Active, Indexed, Within
  <2>2. \A i \in Risen : new[i] \in Copy /\ new[i].hits = rows[i].hits
    BY <2>1, PromotedSound, ReadsOf
  <2>3. new \in Items
    <3>1. new \in [Risen -> Copy] /\ Risen \in SUBSET Id
      BY <2>1, <2>2
    <3> QED  BY <3>1, ItemsAre
  <2>4. /\ rows' = Over(rows, new) /\ pages' = Over(pages, new)
        /\ UNCHANGED <<recall, recalls, vecs>>
    BY <1>1 DEF Consolidate, Upsert
  <2>5. \A i \in DOMAIN new : Within(new[i], Spent)
    BY <2>1, <2>2 DEF Within
  <2> HIDE DEF new
  <2>6. \A i \in Id : /\ rows'[i] = IF i \in DOMAIN new THEN new[i] ELSE rows[i]
                      /\ pages'[i] = IF i \in DOMAIN new THEN new[i] ELSE pages[i]
    BY <1>0, <2>3, <2>4, OverAll
  <2>7. \A i \in Id : /\ rows'[i] = rows[i] \/ Within(rows'[i], Spent)
                      /\ pages'[i] = pages[i] \/ Within(pages'[i], Spent)
    BY <2>5, <2>6
  <2> QED  BY <1>0, <2>4, <2>7, QuietCounted
<1>2. CASE Reconcile
  <2>1. rows' = pages /\ pages' = pages /\ UNCHANGED <<recall, recalls, vecs>>
    BY <1>2 DEF Reconcile
  <2> QED  BY <1>0, <2>1, QuietCounted
<1>3. ASSUME NEW id \in Id, CatchUp(id) PROVE CountInv'
  <2>1. UNCHANGED <<pages, rows, recall, recalls>>  BY <1>3 DEF CatchUp
  <2>2. vecs' = [vecs EXCEPT ![id] = IF rows[id] = None THEN None ELSE rows[id].status]
    BY <1>3 DEF CatchUp
  <2>3. (IF rows[id] = None THEN None ELSE rows[id].status) \in Status \cup {None}
    BY <1>0 DEF Copy
  <2>4. vecs' \in [Id -> Status \cup {None}]  BY <1>0, <2>2, <2>3
  <2> QED  BY <2>1, <2>4, QuietCounted
<1> QED  BY <1>1, <1>2, <1>3

\* A recall without a query is answered at once.
LEMMA BrowseCounted ==
    ASSUME RecallInv, RecallInv', CountInv, NEW r \in Request, NEW touch \in BOOLEAN,
           Browse(r, touch)
    PROVE  CountInv'
<1> DEFINE found == [i \in Active(Id) |-> rows[i]]
<1>1. Active(Id) \in SUBSET Indexed
  BY DEF Active
<1>2. found \in Items /\ \A i \in DOMAIN found : found[i].hits <= Spent
  BY <1>1, RowsAsItems DEF Indexed, CountInv, Within
<1>3. PICK S \in Rankings(found) : Reinforce([i \in S |-> rows[i]], touch)
  BY DEF Browse
<1>4. S \in SUBSET DOMAIN found /\ DOMAIN found = Active(Id)
  BY DEF Rankings
<1>5. [i \in S |-> rows[i]] = [i \in S |-> found[i]]
  BY <1>4
<1>6. Reinforce([i \in S |-> found[i]], touch)
  BY <1>3, <1>5
<1>7. UNCHANGED <<recall, vecs>> /\ recalls' = recalls + 1 /\ recalls < MaxRecalls
  BY DEF Browse
<1> HIDE DEF found
<1>8. \A i \in Id : /\ rows'[i] = rows[i] \/ Within(rows'[i], Spent + 1)
                    /\ pages'[i] = pages[i] \/ Within(pages'[i], Spent + 1)
  BY <1>2, <1>4, <1>6, WritesCounted
<1>9. /\ recalls \in 0..MaxRecalls /\ MaxRecalls \in Nat /\ Spent \in Nat
      /\ Cardinality(Waiting) \in Nat /\ Cardinality(Waiting) <= recalls
      /\ IsFiniteSet(Waiting) /\ vecs \in [Id -> Status \cup {None}]
  BY SpentIs, RecallAssumption DEF CountInv, RecallAssumption
<1>10. Waiting' = Waiting  BY <1>7 DEF Waiting
<1>11. Spent' = Spent + 1  BY <1>7, <1>9, <1>10 DEF Spent
<1>12. recalls' \in 0..MaxRecalls /\ Cardinality(Waiting') <= recalls' /\ Spent' >= Spent
  BY <1>7, <1>9, <1>10, <1>11
<1> QED  BY <1>7, <1>8, <1>9, <1>10, <1>11, <1>12, Counted

\* A recall that holds what it has found so far.
LEMMA RecallSoFar ==
    ASSUME RecallInv, RecallInv', CountInv, NEW q, q.items \in Items,
           \A i \in DOMAIN q.items : q.items[i].hits <= Spent,
           \A p \in Request : recall'[p] = recall[p] \/ recall'[p] = q,
           recalls' \in 0..MaxRecalls, IsFiniteSet(Waiting'),
           Cardinality(Waiting') <= recalls', Spent' >= Spent,
           UNCHANGED <<pages, rows, vecs>>
    PROVE  CountInv'
<1>1. Spent \in Nat  BY SpentIs
<1>2. Spent' \in Int
  <2>1. Cardinality(Waiting') \in Nat  BY FS_CardinalityType
  <2> QED  BY <2>1 DEF Spent
<1>3. \A i \in DOMAIN q.items : q.items[i] \in Copy /\ q.items[i].hits \in Nat
  BY ItemsAre, ReadsOf
<1>4. \A i \in DOMAIN q.items : q.items[i].hits <= Spent'
  BY <1>1, <1>2, <1>3
<1>5. vecs' \in [Id -> Status \cup {None}]  BY DEF CountInv
<1>6. \A p \in Request :
        \/ recall'[p] \in {recall[p], None}
        \/ \A i \in DOMAIN recall'[p].items : recall'[p].items[i].hits <= Spent'
  BY <1>4
<1> QED  BY <1>5, <1>6, Counted

\* A recall up to its first await writes nothing.
LEMMA AskCounted ==
    ASSUME RecallInv, RecallInv', CountInv, NEW r \in Request, NEW plan \in Plans,
           Ask(r, plan)
    PROVE  CountInv'
<1> DEFINE none == [i \in {} |-> None]
<1>1. PICK S \in SUBSET Active(plan.layers[1]) :
          recall' = [recall EXCEPT ![r] =
                       [plan |-> plan, layer |-> 1, items |-> Lexical(none, S), semantic |-> {}]]
  BY DEF Ask
<1>2. S \in SUBSET Indexed
  BY <1>1 DEF Active
<1>3. none \in Items /\ DOMAIN none = {}
  <2>1. none \in [{} -> Copy]
    OBVIOUS
  <2> QED BY <2>1, ItemsAre
<1> HIDE DEF none
<1>4. \A i \in DOMAIN Lexical(none, S) : Lexical(none, S)[i].hits <= Spent
  BY <1>2, <1>3, MoreReads DEF Lexical
<1> DEFINE q == [plan |-> plan, layer |-> 1, items |-> Lexical(none, S), semantic |-> {}]
<1>5. q.items = Lexical(none, S)
  OBVIOUS
<1>6. recall' = [recall EXCEPT ![r] = q]
  BY <1>1
<1>7. UNCHANGED <<pages, rows, vecs>> /\ recalls' = recalls + 1 /\ recalls < MaxRecalls
  BY DEF Ask
<1> HIDE DEF q
<1>8. IsFiniteSet(Waiting') /\ Cardinality(Waiting') <= recalls' /\ Spent' >= Spent
  BY <1>6, <1>7, Opening
<1>9. \A p \in Request : recall'[p] = recall[p] \/ recall'[p] = q
  BY <1>6 DEF RecallInv, Shape
<1>10. q.items \in Items  BY <1>2, <1>3, <1>5, MoreReads DEF Lexical, CountInv
<1>11. recalls' \in 0..MaxRecalls  BY <1>7, RecallAssumption DEF CountInv, RecallAssumption
<1> QED  BY <1>4, <1>5, <1>7, <1>8, <1>9, <1>10, <1>11, RecallSoFar

\* The second layer of a recall writes nothing.
LEMMA NextLayerCounted ==
    ASSUME RecallInv, RecallInv', CountInv, NEW r \in Request, NextLayer(r)
    PROVE  CountInv'
<1> DEFINE q == recall[r]
<1>1. q # None /\ UNCHANGED <<pages, rows, vecs, recalls>>
  BY DEF NextLayer
<1>2. PICK H \in Hits(q.plan.layers[q.layer]), S \in SUBSET Active(q.plan.layers[q.layer + 1]) :
          recall' = [recall EXCEPT ![r] =
                       [plan |-> q.plan, layer |-> q.layer + 1,
                        items |-> Lexical(q.items, S), semantic |-> q.semantic \cup H]]
  BY DEF NextLayer
<1>3. q.items \in Items /\ \A i \in DOMAIN q.items : q.items[i].hits <= Spent
  BY <1>1, OpenRecall DEF CountInv, Waiting
<1> HIDE DEF q
<1>4. S \in SUBSET Indexed
  BY <1>2 DEF Active
<1>5. /\ Lexical(q.items, S) \in Items
      /\ \A i \in DOMAIN Lexical(q.items, S) : Lexical(q.items, S)[i].hits <= Spent
  BY <1>3, <1>4, MoreReads DEF Lexical
<1> DEFINE n == [plan |-> q.plan, layer |-> q.layer + 1,
                 items |-> Lexical(q.items, S), semantic |-> q.semantic \cup H]
<1>6. n.items = Lexical(q.items, S)
  OBVIOUS
<1>7. recall' = [recall EXCEPT ![r] = n]
  BY <1>2
<1> HIDE DEF n
<1>8. IsFiniteSet(Waiting') /\ Cardinality(Waiting') <= recalls' /\ Spent' >= Spent
  BY <1>1, <1>7, GoingOn DEF q
<1>9. \A p \in Request : recall'[p] = recall[p] \/ recall'[p] = n
  BY <1>7 DEF RecallInv, Shape
<1>10. recalls' \in 0..MaxRecalls  BY <1>1 DEF CountInv
<1> QED  BY <1>1, <1>5, <1>6, <1>8, <1>9, <1>10, RecallSoFar

\* A recall that answers may add one read to each entry it found.
LEMMA AnswerCounted ==
    ASSUME RecallInv, RecallInv', CountInv, NEW r \in Request, Answer(r)
    PROVE  CountInv'
<1> DEFINE q == recall[r]
<1>1. /\ q # None /\ recall' = [recall EXCEPT ![r] = None]
      /\ UNCHANGED <<vecs, recalls>>
  BY DEF Answer
<1>2. PICK H \in Hits(q.plan.layers[q.layer]) :
          \E S \in Rankings(Fetched(q.items, q.semantic \cup H)) :
             Reinforce([i \in S |-> Fetched(q.items, q.semantic \cup H)[i]], q.plan.touch)
  BY DEF Answer
<1>3. /\ q.items \in Items /\ q.plan.touch \in BOOLEAN
      /\ \A i \in DOMAIN q.items : q.items[i].hits <= Spent
  BY <1>1, OpenRecall DEF CountInv, Waiting
<1> DEFINE found == Fetched(q.items, q.semantic \cup H)
<1>4. found \in Items /\ \A i \in DOMAIN found : found[i].hits <= Spent
  BY <1>3, MoreReads DEF Fetched
<1>5. PICK S \in Rankings(found) : Reinforce([i \in S |-> found[i]], q.plan.touch)
  BY <1>2
<1> HIDE DEF found
<1>6. S \in SUBSET DOMAIN found
  BY <1>5 DEF Rankings
<1>7. /\ IsFiniteSet(Waiting') /\ Cardinality(Waiting') <= recalls'
      /\ Spent' >= Spent /\ Spent' = Spent + 1
  BY <1>1, GoingOn
<1> HIDE DEF q
<1>8. \A i \in Id : /\ rows'[i] = rows[i] \/ Within(rows'[i], Spent')
                    /\ pages'[i] = pages[i] \/ Within(pages'[i], Spent')
  BY <1>3, <1>4, <1>5, <1>6, <1>7, WritesCounted
<1>9. \A p \in Request : recall'[p] \in {recall[p], None}
  BY <1>1 DEF RecallInv, Shape
<1>10. recalls' \in 0..MaxRecalls /\ vecs' \in [Id -> Status \cup {None}]
  BY <1>1 DEF CountInv
<1> QED  BY <1>7, <1>8, <1>9, <1>10, Counted

\* Reads are counted: what is stored or held counts the recalls that have answered
\* at most.
LEMMA CountInvariant == Spec => [](RecallInv /\ CountInv)
<1>1. Init => CountInv
  <2> SUFFICES ASSUME Init PROVE CountInv
    OBVIOUS
  <2>1. Waiting = {}  BY DEF Init, Waiting
  <2>2. IsFiniteSet(Waiting) /\ Cardinality(Waiting) = 0  BY <2>1, FS_EmptySet
  <2>3. recalls \in 0..MaxRecalls /\ recalls = 0
    BY RecallAssumption DEF Init, RecallAssumption
  <2> QED  BY <2>1, <2>2, <2>3 DEF Init, CountInv, Within
<1>2. RecallInv /\ RecallInv' /\ CountInv /\ [Next]_vars => CountInv'
  <2> SUFFICES ASSUME RecallInv, RecallInv', CountInv, [Next]_vars PROVE CountInv'
    OBVIOUS
  <2>1. CASE UNCHANGED vars
    <3>1. vecs' \in [Id -> Status \cup {None}]  BY <2>1 DEF vars, CountInv
    <3> QED  BY <2>1, <3>1, QuietCounted DEF vars
  <2> QED
    BY <2>1, CommandCounted, MaintenanceCounted, BrowseCounted, AskCounted,
       NextLayerCounted, AnswerCounted DEF Next
<1> QED  BY <1>1, <1>2, RecallInvariant, PTL DEF Spec

\* Types are kept, and no entry counts more reads than there were recalls, however
\* copies are held and written back over one another.
THEOREM ReadsBounded == Spec => []TypeOK
<1>1. RecallInv /\ CountInv => TypeOK
  <2> SUFFICES ASSUME RecallInv, CountInv PROVE TypeOK
    OBVIOUS
  <2>1. Spent \in Nat /\ recalls \in Nat /\ Spent <= recalls /\ recalls <= MaxRecalls
        /\ MaxRecalls \in Nat
    BY SpentIs, RecallAssumption DEF CountInv, RecallAssumption
  <2>2. \A e \in Copy : e.hits \in Nat  BY ReadsOf
  <2>3. \A e \in Copy : e.hits <= Spent => e \in Entry
    BY <2>1, <2>2 DEF Entry
  <2>4. rows \in [Id -> Entry \cup {None}] /\ pages \in [Id -> Entry \cup {None}]
    BY <2>3 DEF RecallInv, Shape, CountInv, Within
  <2>5. ASSUME NEW r \in Request, recall[r] # None
        PROVE  /\ recall[r].plan \in Plans
               /\ recall[r].layer \in 1..Len(recall[r].plan.layers)
               /\ DOMAIN recall[r].items \subseteq Id
               /\ recall[r].items \in [DOMAIN recall[r].items -> Entry]
               /\ recall[r].semantic \subseteq Id
    <3>1. /\ recall[r].plan \in Plans /\ recall[r].items \in Items
          /\ recall[r].layer \in 1..Len(recall[r].plan.layers)
          /\ recall[r].semantic \in SUBSET Id
      BY <2>5, OpenRecall
    <3>2. \A i \in DOMAIN recall[r].items : recall[r].items[i] \in Entry
      BY <2>3, <2>5, <3>1, ItemsAre DEF CountInv, Waiting
    <3>3. recall[r].items \in [DOMAIN recall[r].items -> Copy]
      BY <3>1 DEF Items
    <3>4. recall[r].items \in [DOMAIN recall[r].items -> Entry]
      BY <3>2, <3>3
    <3> QED  BY <3>1, <3>4, ItemsAre
  <2> QED  BY <2>4, <2>5 DEF TypeOK, CountInv, RecallInv, Shape
<1> QED  BY <1>1, CountInvariant, PTL

=============================================================================

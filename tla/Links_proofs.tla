---------------------------- MODULE Links_proofs ----------------------------
(***************************************************************************)
(* Proofs about Links, for every set of ids and any number of commands,    *)
(* crashes and outside changes: recorded replacements stay readable        *)
(* (SupersessionRecorded), a deleted entry stays unmentioned               *)
(* (DeletedUnreferenced), and three heals repair any table (HealsSettle).  *)
(***************************************************************************)
EXTENDS Links, TLAPS

Writes == UNION {[S -> Entry] : S \in SUBSET Id}
Kinds  == {"idle", "save", "update", "forget", "delete", "heal"}
Ops    == [kind : Kinds, id : Id \cup {None}, first : Writes, then : Writes,
           page : Id \cup {None}, promise : SUBSET Id]

\* The shape of the state: only a save writes in two batches, and the page of the
\* write under way is written as the batch says.
Shape ==
    /\ pages \in [Id -> Entry \cup {None}] /\ away \in [Id -> Entry \cup {None}]
    /\ rows \in [Id -> Entry \cup {None}] /\ afar \subseteq Indexed
    /\ op \in Ops
    /\ op.page # None => op.page \in DOMAIN Batch /\ pages[op.page] = Batch[op.page]
    /\ op.kind \in {"save", "update", "forget", "delete"} => op.id \in Id
    /\ op.kind # "save" => DOMAIN op.then = {}
    /\ op.kind = "idle" => DOMAIN op.first = {}
    /\ op.kind \in {"update", "forget"} => op.promise = {}
    /\ born \subseteq Id /\ heirs \subseteq Id \X Id /\ gone \subseteq Id
    /\ calls \in 0..MaxCalls /\ faults \in 0..MaxFaults /\ heals \in 0..3

-----------------------------------------------------------------------------
(* Operators                                                               *)

\* Pending writes: some ids, each with an entry.
LEMMA WritesAre ==
    /\ \A f \in Writes : /\ DOMAIN f \subseteq Id /\ IsWrites(f)
                         /\ \A i \in DOMAIN f : f[i] \in Entry
    /\ \A S \in SUBSET Id : \A f \in [S -> Entry] : f \in Writes
    /\ NoWrites \in Writes /\ DOMAIN NoWrites = {}
<1>1. \A S \in SUBSET Id : \A f \in [S -> Entry] : f \in Writes  BY DEF Writes
<1>2. NoWrites \in [{} -> Entry] /\ DOMAIN NoWrites = {}  BY DEF NoWrites
<1>3. {} \in SUBSET Id  OBVIOUS
<1>4. NoWrites \in Writes  BY <1>1, <1>2, <1>3
<1>5. \A f \in Writes : /\ DOMAIN f \subseteq Id /\ IsWrites(f)
                        /\ \A i \in DOMAIN f : f[i] \in Entry
  BY DEF Writes, IsWrites
<1> QED  BY <1>1, <1>2, <1>4, <1>5

\* A write less.
LEMMA WithoutIs ==
    ASSUME NEW f \in Writes, NEW i
    PROVE  /\ Without(f, i) \in Writes /\ DOMAIN Without(f, i) = DOMAIN f \ {i}
           /\ \A j \in DOMAIN f \ {i} : Without(f, i)[j] = f[j]
<1>1. DOMAIN f \subseteq Id /\ \A j \in DOMAIN f : f[j] \in Entry  BY WritesAre
<1>2. Without(f, i) \in [DOMAIN f \ {i} -> Entry]  BY <1>1 DEF Without
<1>3. Without(f, i) \in Writes  BY <1>1, <1>2, WritesAre
<1> QED  BY <1>3 DEF Without

\* No id is none.
LEMMA SomeId == None \notin Id /\ None \notin Entry
BY LinksAssumption DEF LinksAssumption

\* The references of an entry are ids.
LEMMA EntryIs ==
    ASSUME NEW e \in Entry
    PROVE  /\ e.status \in Status
           /\ e.supersedes \subseteq Id /\ e.supersededBy \subseteq Id /\ e.related \subseteq Id
BY DEF Entry

\* A patch is an entry.
LEMMA PatchIs == ASSUME NEW e \in Entry, NEW i \in Id PROVE Patched(e, i) \subseteq Entry
BY DEF Patched, Entry

LEMMA BlankIs == Blank \in Entry
BY DEF Blank, Entry, Status

\* What is edited outside, and what is brought.
LEMMA ShownIs ==
    ASSUME Shape, NEW i \in Id
    PROVE  Shown(i) \in Entry /\ \A S \in SUBSET Id : [Shown(i) EXCEPT !.related = S] \in Entry
<1>1. Shown(i) \in Entry  BY BlankIs DEF Shown, Shape, Listed, Strayed
<1> QED  BY <1>1 DEF Entry

\* A record of a command under way.
LEMMA CommandIs ==
    ASSUME NEW kind \in Kinds, NEW id \in Id \cup {None}, NEW first \in Writes,
           NEW then \in Writes, NEW promise \in SUBSET Id, Command(kind, id, first, then, promise)
    PROVE  /\ op = Idle /\ op' \in Ops
           /\ op'.kind = kind /\ op'.id = id /\ op'.first = first /\ op'.then = then
           /\ op'.page = None /\ op'.promise = promise
           /\ UNCHANGED <<pages, away, rows, afar, faults>>
BY DEF Command, Ops, disk, index

\* What Superseded writes.
LEMMA SupersededIs ==
    ASSUME Shape, NEW S \in SUBSET Id, NEW id \in Id
    PROVE  /\ Superseded(S, id) \in Writes
           /\ DOMAIN Superseded(S, id) = {i \in S \cap Indexed : rows[i].status = "active"}
<1> DEFINE D == {i \in S \cap Indexed : rows[i].status = "active"}
           w(o) == [rows[o] EXCEPT !.status = "superseded", !.supersededBy = @ \cup {id}]
<1>1. Superseded(S, id) = [o \in D |-> w(o)]  BY DEF Superseded
<1>2. \A o \in D : o \in Indexed /\ o \in Id /\ rows[o] \in Entry
  BY DEF Indexed, Shape
<1>3. \A o \in D : w(o) \in Entry
  BY <1>2 DEF Entry, Status
<1> HIDE DEF w
<1>4. [o \in D |-> w(o)] \in [D -> Entry] /\ D \in SUBSET Id  BY <1>2, <1>3
<1>5. [o \in D |-> w(o)] \in Writes  BY <1>4, WritesAre
<1> QED  BY <1>1, <1>5

\* Each of the entries Superseded writes.
LEMMA SupersededAt ==
    ASSUME Shape, NEW S \in SUBSET Id, NEW id \in Id, NEW o \in DOMAIN Superseded(S, id)
    PROVE  /\ o \in S /\ o \in Indexed /\ o \in Id /\ rows[o] \in Entry
           /\ rows[o].status = "active"
           /\ Superseded(S, id)[o].status = "superseded"
           /\ Superseded(S, id)[o].supersedes = rows[o].supersedes
           /\ Superseded(S, id)[o].supersededBy = rows[o].supersededBy \cup {id}
           /\ Superseded(S, id)[o].related = rows[o].related
<1> DEFINE w == [rows[o] EXCEPT !.status = "superseded", !.supersededBy = @ \cup {id}]
<1>1. o \in S /\ o \in Indexed /\ rows[o].status = "active" /\ Superseded(S, id)[o] = w
  BY DEF Superseded
<1>2. o \in Id /\ rows[o] \in Entry  BY <1>1 DEF Indexed, Shape
<1>3. /\ w.status = "superseded" /\ w.supersedes = rows[o].supersedes
      /\ w.supersededBy = rows[o].supersededBy \cup {id} /\ w.related = rows[o].related
  BY <1>2 DEF Entry
<1> HIDE DEF w
<1> QED  BY <1>1, <1>2, <1>3

\* What Stripped writes.
LEMMA StrippedIs ==
    ASSUME Shape, NEW id \in Id
    PROVE  /\ Stripped(id) \in Writes
           /\ DOMAIN Stripped(id) = {i \in Indexed \ {id} : id \in RefsOf(rows[i])}
           /\ \A j \in DOMAIN Stripped(id) :
                /\ j \in Indexed /\ j \in Id /\ rows[j] \in Entry
                /\ Stripped(id)[j].status = rows[j].status
                /\ Stripped(id)[j].supersedes = rows[j].supersedes \ {id}
                /\ Stripped(id)[j].supersededBy = rows[j].supersededBy \ {id}
                /\ Stripped(id)[j].related = rows[j].related \ {id}
<1> DEFINE D == {i \in Indexed \ {id} : id \in RefsOf(rows[i])}
           w(j) == [rows[j] EXCEPT !.supersedes = @ \ {id}, !.supersededBy = @ \ {id},
                                   !.related = @ \ {id}]
<1>1. Stripped(id) = [j \in D |-> w(j)]  BY DEF Stripped
<1>2. \A j \in D : j \in Indexed /\ j \in Id /\ rows[j] \in Entry
  BY DEF Indexed, Shape
<1>3. \A j \in D : /\ w(j) \in Entry
                   /\ w(j).status = rows[j].status /\ w(j).supersedes = rows[j].supersedes \ {id}
                   /\ w(j).supersededBy = rows[j].supersededBy \ {id}
                   /\ w(j).related = rows[j].related \ {id}
  BY <1>2 DEF Entry
<1> HIDE DEF w
<1>4. [j \in D |-> w(j)] \in [D -> Entry] /\ D \in SUBSET Id  BY <1>2, <1>3
<1>5. [j \in D |-> w(j)] \in Writes  BY <1>4, WritesAre
<1> QED  BY <1>1, <1>2, <1>3, <1>5

\* What healing keeps and adds.
LEMMA HealedIs ==
    ASSUME Shape, NEW i \in Indexed
    PROVE  /\ i \in Id /\ rows[i] \in Entry /\ Healed(i) \in Entry
           /\ Healed(i).status = rows[i].status
           /\ Healed(i).supersedes = rows[i].supersedes \cap Indexed
           /\ Healed(i).supersededBy = (rows[i].supersededBy \cap Indexed)
                \cup {j \in Indexed : i \in rows[j].supersedes}
           /\ Healed(i).related = (rows[i].related \cap Indexed)
                \cup {j \in Indexed : i \in rows[j].related}
<1>1. Indexed \subseteq Id /\ \A j \in Indexed : rows[j] \in Entry
  BY DEF Indexed, Shape
<1>2. \A j \in Indexed :
        /\ Kept(j) \in Entry /\ Kept(j).status = rows[j].status
        /\ Kept(j).supersedes = rows[j].supersedes \cap Indexed
        /\ Kept(j).supersededBy = rows[j].supersededBy \cap Indexed
        /\ Kept(j).related = rows[j].related \cap Indexed
  BY <1>1 DEF Kept, Entry
<1> DEFINE B == {j \in Indexed : i \in Kept(j).supersedes}
           R == {j \in Indexed : i \in Kept(j).related}
<1>3. B = {j \in Indexed : i \in rows[j].supersedes} /\ R = {j \in Indexed : i \in rows[j].related}
  BY <1>2
<1>4. Healed(i) = [Kept(i) EXCEPT !.supersededBy = @ \cup B, !.related = @ \cup R]
  BY DEF Healed
<1>5. B \subseteq Id /\ R \subseteq Id  BY <1>1
<1> HIDE DEF B, R
<1>6. /\ Healed(i) \in Entry /\ Healed(i).status = Kept(i).status
      /\ Healed(i).supersedes = Kept(i).supersedes
      /\ Healed(i).supersededBy = Kept(i).supersededBy \cup B
      /\ Healed(i).related = Kept(i).related \cup R
  BY <1>2, <1>4, <1>5 DEF Entry
<1> QED  BY <1>1, <1>2, <1>3, <1>6

\* What a heal writes.
LEMMA HealWrites ==
    ASSUME Shape
    PROVE  LET D == {i \in Indexed : Healed(i) # rows[i]}
           IN  [j \in D |-> Healed(j)] \in Writes /\ D \subseteq Id
<1> DEFINE D == {i \in Indexed : Healed(i) # rows[i]}
<1>1. D \in SUBSET Id /\ \A j \in D : Healed(j) \in Entry  BY HealedIs DEF Indexed
<1>2. [j \in D |-> Healed(j)] \in [D -> Entry]  BY <1>1
<1> QED  BY <1>1, <1>2, WritesAre

-----------------------------------------------------------------------------
(* Steps                                                                   *)

\* No command is under way.
LEMMA IdleIs ==
    /\ Idle \in Ops /\ Idle.kind = "idle" /\ Idle.id = None /\ Idle.page = None
    /\ Idle.first = NoWrites /\ Idle.then = NoWrites /\ Idle.promise = {}
BY WritesAre DEF Idle, Ops, Kinds

\* The batch under way.
LEMMA BatchIs ==
    ASSUME Shape
    PROVE  /\ op.first \in Writes /\ op.then \in Writes /\ Batch \in Writes
           /\ DOMAIN Batch \subseteq Id /\ \A i \in DOMAIN Batch : Batch[i] \in Entry
           /\ op.page # None => op.page \in Id
BY WritesAre DEF Shape, Ops, Batch

\* A page is written as the batch says.
LEMMA PageWritten ==
    ASSUME Shape, WritePage
    PROVE  \E i \in DOMAIN Batch :
             /\ i \in Id /\ i # None /\ Batch[i] \in Entry /\ op.page = None
             /\ pages' = [pages EXCEPT ![i] = Batch[i]]
             /\ op' \in Ops /\ op'.page = i /\ op'.kind = op.kind /\ op'.id = op.id
             /\ op'.first = op.first /\ op'.then = op.then /\ op'.promise = op.promise
             /\ Batch' = Batch
             /\ UNCHANGED <<away, rows, afar, born, calls, faults, heirs, gone, heals>>
<1>1. PICK i \in DOMAIN Batch :
        pages' = [pages EXCEPT ![i] = Batch[i]] /\ op' = [op EXCEPT !.page = i]
  BY DEF WritePage
<1>2. i \in Id /\ i # None /\ Batch[i] \in Entry  BY <1>1, BatchIs, SomeId
<1>3. /\ op' \in Ops /\ op'.page = i /\ op'.kind = op.kind /\ op'.id = op.id
      /\ op'.first = op.first /\ op'.then = op.then /\ op'.promise = op.promise
  BY <1>1, <1>2 DEF Shape, Ops
<1>4. Batch' = Batch  BY <1>3 DEF Batch
<1> QED  BY <1>1, <1>2, <1>3, <1>4 DEF WritePage, history, index

\* The page the row names goes, and nothing else changes.
LEMMA PageUnlinked ==
    ASSUME Shape, UnlinkPage
    PROVE  /\ op.page \in Id /\ op.page # None /\ op.page \in afar /\ op.page \in DOMAIN Batch
           /\ away' \in [Id -> Entry \cup {None}] /\ away'[op.page] = None
           /\ \A j \in Id \ {op.page} : away'[j] = away[j]
           /\ UNCHANGED <<pages, rows, afar, op, born, calls, faults, heirs, gone, heals>>
<1>1. op.page \in afar /\ away' = [away EXCEPT ![op.page] = None]
      /\ UNCHANGED <<pages, rows, afar, op, born, calls, faults, heirs, gone, heals>>
  BY DEF UnlinkPage, index, history
<1>2. op.page \in Id /\ op.page # None  BY <1>1, SomeId DEF Shape, Indexed
<1> QED  BY <1>1, <1>2 DEF Shape

\* Of the entries in P, those that have one page, if id has one.
Alone(P, id) == {o \in P : Strayed \cap {o, id} = {}}

\* A row follows its page, and the command goes on or is done.
LEMMA RowWritten ==
    ASSUME Shape, WriteRow
    PROVE  LET i == op.page IN
           /\ i \in Id /\ i \in DOMAIN Batch /\ Batch[i] \in Entry /\ pages[i] = Batch[i]
           /\ rows' = [rows EXCEPT ![i] = Batch[i]]
           /\ afar' = afar \ {i} /\ (i \in afar => away[i] = None)
           /\ op.kind # "idle"
           /\ UNCHANGED <<pages, away, born, calls, faults, gone, heals>>
           /\ \/ /\ op' = Idle /\ op.kind \in {"save", "update", "forget"}
                 /\ heirs' = heirs \cup (Alone(op.promise, op.id) \X {op.id})
                 /\ \/ i \in DOMAIN op.first /\ DOMAIN op.then = {}
                    \/ i \in DOMAIN op.then /\ DOMAIN op.first = {}
              \/ /\ op' \in Ops /\ op'.page = None /\ op'.kind = op.kind /\ op'.id = op.id
                 /\ op'.promise = op.promise /\ heirs' = heirs
                 /\ op.kind = "save" => DOMAIN op'.first \cup DOMAIN op'.then # {}
                 /\ \/ /\ i \in DOMAIN op.first /\ Batch = op.first
                       /\ op'.first = Without(op.first, i) /\ op'.then = op.then
                    \/ /\ i \in DOMAIN op.then /\ DOMAIN op.first = {} /\ Batch = op.then
                       /\ op'.first = op.first /\ op'.then = Without(op.then, i)
<1> DEFINE i == op.page
           next == IF i \in DOMAIN op.first
                   THEN [op EXCEPT !.page = None, !.first = Without(@, i)]
                   ELSE [op EXCEPT !.page = None, !.then = Without(@, i)]
           done == /\ op.kind \in {"save", "update", "forget"}
                   /\ DOMAIN next.first \cup DOMAIN next.then = {}
<1>1. /\ i # None /\ rows' = [rows EXCEPT ![i] = Batch[i]] /\ afar' = afar \ {i}
      /\ op' = IF done THEN Idle ELSE next
      /\ heirs' = IF done THEN heirs \cup (Alone(op.promise, op.id) \X {op.id}) ELSE heirs
      /\ UNCHANGED <<pages, away, born, calls, faults, gone, heals>>
  BY DEF WriteRow, Alone, disk
<1>0. i \in afar => away[i] = None
  BY DEF WriteRow, Strayed, Shape, Indexed
<1>2. /\ i \in Id /\ i \in DOMAIN Batch /\ Batch[i] \in Entry /\ pages[i] = Batch[i]
      /\ op \in Ops /\ op.first \in Writes /\ op.then \in Writes
  BY <1>1, BatchIs DEF Shape
<1>3. op.kind # "idle"
  <2>1. op.kind = "idle" => DOMAIN Batch = {}  BY DEF Shape, Batch
  <2> QED  BY <1>2, <2>1
<1>4. CASE i \in DOMAIN op.first
  <2>1. next = [op EXCEPT !.page = None, !.first = Without(@, i)]  BY <1>4
  <2>2. Without(op.first, i) \in Writes  BY <1>2, WithoutIs
  <2>3. /\ next \in Ops /\ next.page = None /\ next.kind = op.kind /\ next.id = op.id
        /\ next.promise = op.promise
        /\ next.first = Without(op.first, i) /\ next.then = op.then
    BY <1>2, <2>1, <2>2 DEF Ops
  <2>4. Batch = op.first  BY <1>4 DEF Batch
  <2> HIDE DEF next
  <2> QED  BY <1>0, <1>1, <1>2, <1>3, <1>4, <2>3, <2>4
<1>5. CASE i \notin DOMAIN op.first
  <2>0. DOMAIN op.first = {} /\ Batch = op.then  BY <1>2, <1>5 DEF Batch
  <2>1. next = [op EXCEPT !.page = None, !.then = Without(@, i)]  BY <1>5
  <2>2. Without(op.then, i) \in Writes  BY <1>2, WithoutIs
  <2>3. /\ next \in Ops /\ next.page = None /\ next.kind = op.kind /\ next.id = op.id
        /\ next.promise = op.promise
        /\ next.first = op.first /\ next.then = Without(op.then, i)
    BY <1>2, <2>1, <2>2 DEF Ops
  <2> HIDE DEF next
  <2> QED  BY <1>0, <1>1, <1>2, <1>3, <2>0, <2>3
<1> QED  BY <1>4, <1>5

\* A batch that is written to the end leaves nothing to write.
LEMMA WrittenIs ==
    ASSUME Shape, Written
    PROVE  op.page = None /\ DOMAIN op.first = {} /\ DOMAIN op.then = {}
BY DEF Written, Batch

\* The commands, one by one.
LEMMA SaveIs ==
    ASSUME Shape, NEW id \in Id, NEW S \in SUBSET Id, NEW R \in SUBSET Id, id \notin S \cup R,
           Save(id, S, R)
    PROVE  /\ op = Idle /\ op' \in Ops /\ op'.kind = "save" /\ op'.id = id
           /\ op'.first = Superseded(S, id) /\ op'.page = None
           /\ op'.then \in Writes /\ DOMAIN op'.then = {id}
           /\ op'.then[id].supersedes = S /\ RefsOf(op'.then[id]) = S \cup R
           /\ op'.promise = DOMAIN Superseded(S, id)
           /\ id \notin DOMAIN Superseded(S, id)
           /\ (id \notin born \/ id \in Indexed) /\ born' = born \cup {id}
           /\ heirs' = {h \in heirs : id \notin {h[1], h[2]}} /\ gone' = gone \ (S \cup R)
           /\ heals' = 0 /\ calls < MaxCalls /\ calls' = calls + 1
           /\ UNCHANGED <<pages, away, rows, afar, faults>>
<1> DEFINE e == [Blank EXCEPT !.supersedes = S, !.related = R]
           then == [i \in {id} |-> e]
<1>1. /\ e \in Entry /\ e.supersedes = S /\ RefsOf(e) = S \cup R
  BY BlankIs DEF Entry, RefsOf, Blank
<1>2. then \in [{id} -> Entry] /\ then[id] = e /\ DOMAIN then = {id} /\ {id} \in SUBSET Id
  BY <1>1
<1>3. then \in Writes  BY <1>2, WritesAre
<1>4. Superseded(S, id) \in Writes /\ DOMAIN Superseded(S, id) \subseteq S
      /\ DOMAIN Superseded(S, id) \subseteq Id
  <2>1. /\ Superseded(S, id) \in Writes
        /\ DOMAIN Superseded(S, id) = {i \in S \cap Indexed : rows[i].status = "active"}
    BY SupersededIs
  <2> QED  BY <2>1, WritesAre
<1>5. id \notin DOMAIN Superseded(S, id)  BY <1>4
<1>6. DOMAIN Superseded(S, id) \ {id} = DOMAIN Superseded(S, id)  BY <1>5
<1>7. Command("save", id, Superseded(S, id), then, DOMAIN Superseded(S, id) \ {id})
  BY DEF Save
<1> HIDE DEF then, e
<1>8. /\ op = Idle /\ op' \in Ops /\ op'.kind = "save" /\ op'.id = id
      /\ op'.first = Superseded(S, id) /\ op'.then = then
      /\ op'.page = None /\ op'.promise = DOMAIN Superseded(S, id)
      /\ UNCHANGED <<pages, away, rows, afar, faults>>
  BY <1>3, <1>4, <1>6, <1>7, CommandIs DEF Kinds
<1> QED  BY <1>1, <1>2, <1>3, <1>5, <1>8 DEF Save, Call

LEMMA PatchCommandIs ==
    ASSUME Shape, NEW id \in Id, NEW e \in Entry, NEW kind \in {"update", "forget"},
           Command(kind, id, [i \in {id} |-> e], NoWrites, {})
    PROVE  /\ op = Idle /\ op' \in Ops /\ op'.kind = kind /\ op'.id = id
           /\ op'.first \in Writes /\ DOMAIN op'.first = {id} /\ op'.first[id] = e
           /\ op'.page = None /\ op'.then = NoWrites /\ op'.promise = {}
           /\ UNCHANGED <<pages, away, rows, afar, faults>>
<1> DEFINE first == [i \in {id} |-> e]
<1>1. first \in [{id} -> Entry] /\ first[id] = e /\ DOMAIN first = {id} /\ {id} \in SUBSET Id
  OBVIOUS
<1>2. first \in Writes  BY <1>1, WritesAre
<1> HIDE DEF first
<1>3. Command(kind, id, first, NoWrites, {})  BY DEF first
<1> QED  BY <1>1, <1>2, <1>3, WritesAre, CommandIs DEF Kinds

LEMMA ForgottenIs ==
    ASSUME NEW e \in Entry
    PROVE  /\ [e EXCEPT !.status = "superseded"] \in Entry
           /\ [e EXCEPT !.status = "superseded"].status = "superseded"
           /\ [e EXCEPT !.status = "superseded"].supersedes = e.supersedes
           /\ [e EXCEPT !.status = "superseded"].supersededBy = e.supersededBy
           /\ RefsOf([e EXCEPT !.status = "superseded"]) = RefsOf(e)
BY DEF Entry, Status, RefsOf

LEMMA DeleteIs ==
    ASSUME Shape, NEW id \in Id, Delete(id)
    PROVE  /\ op = Idle /\ op' \in Ops /\ op'.kind = "delete" /\ op'.id = id
           /\ op'.first = Stripped(id) /\ op'.page = None /\ op'.then = NoWrites
           /\ op'.promise = IF Tidy THEN {id} ELSE {}
           /\ id \in Indexed
           /\ heirs' = {h \in heirs : id \notin {h[1], h[2]}}
           /\ heals' = 0 /\ calls < MaxCalls /\ calls' = calls + 1
           /\ UNCHANGED <<pages, away, rows, afar, faults, born, gone>>
<1>1. Stripped(id) \in Writes  BY StrippedIs
<1>2. (IF Tidy THEN {id} ELSE {}) \in SUBSET Id  OBVIOUS
<1>3. Command("delete", id, Stripped(id), NoWrites, IF Tidy THEN {id} ELSE {})
  BY DEF Delete
<1>4. /\ op = Idle /\ op' \in Ops /\ op'.kind = "delete" /\ op'.id = id
      /\ op'.first = Stripped(id) /\ op'.page = None /\ op'.then = NoWrites
      /\ op'.promise = IF Tidy THEN {id} ELSE {}
      /\ UNCHANGED <<pages, away, rows, afar, faults>>
  BY <1>1, <1>2, <1>3, WritesAre, CommandIs DEF Kinds
<1> QED  BY <1>4 DEF Delete, Call

LEMMA HealIs ==
    ASSUME Shape, Heal
    PROVE  /\ op = Idle /\ op' \in Ops /\ op'.kind = "heal"
           /\ op'.page = None /\ op'.then = NoWrites /\ op'.promise = {}
           /\ DOMAIN op'.first = {i \in Indexed : Healed(i) # rows[i]}
           /\ \A j \in DOMAIN op'.first : op'.first[j] = Healed(j)
           /\ UNCHANGED <<pages, away, rows, afar, faults, born, calls, heirs, gone, heals>>
<1> DEFINE first == [j \in {i \in Indexed : Healed(i) # rows[i]} |-> Healed(j)]
<1>1. first \in Writes  BY HealWrites
<1>2. DOMAIN first = {i \in Indexed : Healed(i) # rows[i]}
      /\ \A j \in DOMAIN first : first[j] = Healed(j)
  OBVIOUS
<1>3. Command("heal", None, first, NoWrites, {})  BY DEF Heal
<1> HIDE DEF first
<1>4. /\ op = Idle /\ op' \in Ops /\ op'.kind = "heal" /\ op'.first = first
      /\ op'.page = None /\ op'.then = NoWrites /\ op'.promise = {}
      /\ UNCHANGED <<pages, away, rows, afar, faults>>
  BY <1>1, <1>3, WritesAre, CommandIs DEF Kinds
<1> QED  BY <1>2, <1>4 DEF Heal

\* What a pass makes of the rows.
LEMMA PassIs ==
    ASSUME Shape, Reconcile
    PROVE  \E unread \in SUBSET Id, far \in SUBSET Id :
             /\ op.kind = "heal" /\ Written /\ Turned(far)
             /\ rows' = [i \in Id |-> IF i \in Lost THEN None
                                      ELSE IF i \in unread THEN rows[i]
                                      ELSE IF i \in far THEN away[i] ELSE pages[i]]
             /\ afar' = ((afar \cap unread) \cup (far \ unread)) \ Lost
             /\ heals' = IF unread # {} THEN 0 ELSE IF heals = 3 THEN 3 ELSE heals + 1
             /\ op' = Idle
             /\ UNCHANGED <<pages, away, born, calls, faults, heirs, gone>>
<1>1. SUBSET (Listed \cup Strayed) \subseteq SUBSET Id /\ SUBSET Strayed \subseteq SUBSET Id
  BY DEF Listed, Strayed
<1>2. op.kind = "heal" /\ Written /\ op' = Idle
      /\ UNCHANGED <<pages, away, born, calls, faults, heirs, gone>>
  BY DEF Reconcile, disk
<1>3. PICK unread \in SUBSET (Listed \cup Strayed), far \in SUBSET Strayed :
        /\ Turned(far)
        /\ rows' = [i \in Id |-> IF i \in Lost THEN None
                                 ELSE IF i \in unread THEN rows[i]
                                 ELSE IF i \in far THEN away[i] ELSE pages[i]]
        /\ afar' = ((afar \cap unread) \cup (far \ unread)) \ Lost
        /\ heals' = IF unread # {} THEN 0 ELSE IF heals = 3 THEN 3 ELSE heals + 1
  BY Zenon DEF Reconcile
<1>4. unread \in SUBSET Id /\ far \in SUBSET Id  BY <1>1
<1> QED  BY <1>2, <1>3, <1>4

\* Each row ends as it was, as a page of its entry, or not at all; that of an entry with
\* one page, which it names, stays.
LEMMA RowsRead ==
    ASSUME Shape, Reconcile
    PROVE  /\ rows' \in [Id -> Entry \cup {None}] /\ afar' \subseteq Indexed'
           /\ \A i \in Id : rows'[i] \in {None, rows[i], pages[i], away[i]}
           /\ \A i \in Indexed \cap Listed :
                 i \notin Strayed \cup afar => rows'[i] \in {rows[i], pages[i]} /\ i \notin afar'
<1>1. PICK unread \in SUBSET Id, far \in SUBSET Id :
        /\ Turned(far)
        /\ rows' = [i \in Id |-> IF i \in Lost THEN None
                                 ELSE IF i \in unread THEN rows[i]
                                 ELSE IF i \in far THEN away[i] ELSE pages[i]]
        /\ afar' = ((afar \cap unread) \cup (far \ unread)) \ Lost
  BY PassIs
<1>2. \A i \in Id : rows'[i] = IF i \in Lost THEN None
                               ELSE IF i \in unread THEN rows[i]
                               ELSE IF i \in far THEN away[i] ELSE pages[i]
  BY <1>1
<1>3. \A i \in Id : rows'[i] \in {None, rows[i], pages[i], away[i]}  BY <1>2
<1>4. rows' \in [Id -> Entry \cup {None}]  BY <1>1 DEF Shape
<1>5. afar' \subseteq Indexed'
  <2>1. far \subseteq Strayed  BY <1>1 DEF Turned
  <2>2. \A i \in far : away[i] # None  BY <2>1 DEF Strayed
  <2>3. \A i \in afar : i \in Id /\ rows[i] # None  BY DEF Shape, Indexed
  <2> QED  BY <1>1, <1>2, <2>2, <2>3 DEF Indexed
<1>6. ASSUME NEW i \in Indexed \cap Listed, i \notin Strayed \cup afar
      PROVE  rows'[i] \in {rows[i], pages[i]} /\ i \notin afar'
  <2>1. i \in Id /\ i \notin Lost  BY <1>6 DEF Indexed, Listed, Lost, Named
  <2>2. i \notin far  BY <1>1, <1>6 DEF Turned
  <2> QED  BY <1>1, <1>2, <1>6, <2>1, <2>2
<1> QED  BY <1>3, <1>4, <1>5, <1>6

-----------------------------------------------------------------------------
(* Types                                                                   *)

\* Starting a command keeps the shape.
LEMMA StartShape ==
    ASSUME Shape, op' \in Ops, op'.page = None,
           UNCHANGED <<pages, away, rows, afar, faults>>,
           op'.kind # "idle",
           op'.kind \in {"save", "update", "forget", "delete"} => op'.id \in Id,
           op'.kind # "save" => DOMAIN op'.then = {},
           op'.kind \in {"update", "forget"} => op'.promise = {},
           born' \subseteq Id, heirs' \subseteq heirs, gone' \subseteq gone,
           calls' \in 0..MaxCalls, heals' \in 0..3
    PROVE  Shape'
BY DEF Shape, Indexed

LEMMA ShapeStep == ASSUME Shape, [Next]_vars PROVE Shape'
<1>0. calls \in 0..MaxCalls /\ calls \in Nat /\ faults \in 0..MaxFaults
      /\ MaxCalls \in Nat /\ MaxFaults \in Nat /\ 0 \in 0..3
      /\ born \subseteq Id /\ gone \subseteq Id
  BY LinksAssumption DEF LinksAssumption, Shape
<1>1. ASSUME NEW id \in Id, NEW S \in SUBSET Id, NEW R \in SUBSET Id,
             id \notin S \cup R, Save(id, S, R)
      PROVE  Shape'
  <2>1. /\ op' \in Ops /\ op'.page = None /\ op'.kind = "save" /\ op'.id = id
        /\ UNCHANGED <<pages, away, rows, afar, faults>> /\ calls' \in 0..MaxCalls /\ heals' \in 0..3
        /\ born' \subseteq Id /\ heirs' \subseteq heirs /\ gone' \subseteq gone
    BY <1>0, <1>1, SaveIs
  <2> QED  BY <2>1, StartShape
<1>2. ASSUME NEW id \in Indexed, NEW e \in Patched(rows[id], id), Update(id, e) PROVE Shape'
  <2>1. id \in Id /\ rows[id] \in Entry  BY DEF Indexed, Shape
  <2>2. e \in Entry  BY <2>1, PatchIs
  <2>3. /\ op' \in Ops /\ op'.page = None /\ op'.kind = "update" /\ op'.id = id
        /\ op'.then = NoWrites /\ op'.promise = {} /\ UNCHANGED <<pages, away, rows, afar, faults>>
    BY <1>2, <2>1, <2>2, PatchCommandIs DEF Update
  <2>4. /\ calls' \in 0..MaxCalls /\ heals' \in 0..3 /\ born' \subseteq Id
        /\ heirs' \subseteq heirs /\ gone' \subseteq gone
    BY <1>0, <1>2 DEF Update, Call
  <2> QED  BY <2>1, <2>3, <2>4, WritesAre, StartShape
<1>3. ASSUME NEW id \in Id, Forget(id) PROVE Shape'
  <2>1. rows[id] \in Entry  BY <1>3 DEF Forget, Indexed, Shape
  <2>2. /\ op' \in Ops /\ op'.page = None /\ op'.kind = "forget" /\ op'.id = id
        /\ op'.then = NoWrites /\ op'.promise = {} /\ UNCHANGED <<pages, away, rows, afar, faults>>
    BY <1>3, <2>1, ForgottenIs, PatchCommandIs, ZenonT(30) DEF Forget
  <2>3. /\ calls' \in 0..MaxCalls /\ heals' \in 0..3 /\ born' \subseteq Id
        /\ heirs' \subseteq heirs /\ gone' \subseteq gone
    BY <1>0, <1>3 DEF Forget, Call
  <2> QED  BY <2>2, <2>3, WritesAre, StartShape
<1>4. ASSUME NEW id \in Id, Delete(id) PROVE Shape'
  <2>1. /\ op' \in Ops /\ op'.page = None /\ op'.kind = "delete" /\ op'.id = id
        /\ op'.then = NoWrites /\ UNCHANGED <<pages, away, rows, afar, faults, born, gone>>
        /\ heirs' = {h \in heirs : id \notin {h[1], h[2]}}
        /\ heals' = 0 /\ calls < MaxCalls /\ calls' = calls + 1
    BY <1>4, DeleteIs
  <2>2. calls' \in 0..MaxCalls /\ heals' \in 0..3 /\ heirs' \subseteq heirs
    BY <1>0, <2>1
  <2> QED  BY <1>0, <2>1, <2>2, WritesAre, StartShape
<1>5. CASE Heal
  <2>1. /\ op' \in Ops /\ op'.page = None /\ op'.kind = "heal"
        /\ op'.then = NoWrites /\ UNCHANGED <<pages, away, rows, afar, faults, born, calls, heirs, gone, heals>>
    BY <1>5, HealIs
  <2>2. /\ calls' \in 0..MaxCalls /\ heals' \in 0..3 /\ born' \subseteq Id
    BY <2>1 DEF Shape
  <2> QED  BY <2>1, <2>2, WritesAre, StartShape
<1>6. CASE WritePage
  <2>1. PICK i \in DOMAIN Batch :
          /\ i \in Id /\ i # None /\ Batch[i] \in Entry /\ op.page = None
          /\ pages' = [pages EXCEPT ![i] = Batch[i]]
          /\ op' \in Ops /\ op'.page = i /\ op'.kind = op.kind /\ op'.id = op.id
          /\ op'.first = op.first /\ op'.then = op.then /\ op'.promise = op.promise
          /\ Batch' = Batch
          /\ UNCHANGED <<away, rows, afar, born, calls, faults, heirs, gone, heals>>
    BY <1>6, PageWritten
  <2>2. pages' \in [Id -> Entry \cup {None}] /\ pages'[i] = Batch[i]  BY <2>1 DEF Shape
  <2> QED  BY <2>1, <2>2 DEF Shape, Indexed
<1>18. CASE UnlinkPage
  <2>1. /\ away' \in [Id -> Entry \cup {None}]
        /\ UNCHANGED <<pages, rows, afar, op, born, calls, faults, heirs, gone, heals>>
    BY <1>18, PageUnlinked
  <2> QED  BY <2>1 DEF Shape, Indexed, Batch
<1>7. CASE WriteRow
  <2> DEFINE i == op.page
  <2>1. /\ i \in Id /\ Batch[i] \in Entry /\ rows' = [rows EXCEPT ![i] = Batch[i]]
        /\ afar' = afar \ {i}
        /\ op.kind # "idle" /\ UNCHANGED <<pages, away, born, calls, faults, gone, heals>>
    BY <1>7, RowWritten
  <2>2. rows' \in [Id -> Entry \cup {None}] /\ afar' \subseteq Indexed'
    BY <2>1 DEF Shape, Indexed
  <2>3. CASE op' = Idle /\ op.kind \in {"save", "update", "forget"}
             /\ heirs' = heirs \cup (Alone(op.promise, op.id) \X {op.id})
    <3>1. heirs' \subseteq Id \X Id
      <4>1. op.id \in Id /\ Alone(op.promise, op.id) \subseteq Id /\ heirs \subseteq Id \X Id
        BY <2>3 DEF Shape, Ops, Alone
      <4> QED  BY <2>3, <4>1
    <3> QED  BY <2>1, <2>2, <2>3, <3>1, IdleIs, WritesAre DEF Shape
  <2>4. CASE /\ op' \in Ops /\ op'.page = None /\ op'.kind = op.kind /\ op'.id = op.id
             /\ op'.promise = op.promise /\ heirs' = heirs
             /\ \/ /\ i \in DOMAIN op.first /\ Batch = op.first
                   /\ op'.first = Without(op.first, i) /\ op'.then = op.then
                \/ /\ i \in DOMAIN op.then /\ DOMAIN op.first = {} /\ Batch = op.then
                   /\ op'.first = op.first /\ op'.then = Without(op.then, i)
    <3>1. op.kind # "save" => DOMAIN op'.then = {}  BY <2>4 DEF Shape
    <3> QED  BY <2>1, <2>2, <2>4, <3>1 DEF Shape
  <2> QED  BY <1>7, <2>3, <2>4, RowWritten
<1>8. CASE DeletePage
  <2>1. /\ op.page = None /\ op.id \in Id
        /\ pages' \in [Id -> Entry \cup {None}] /\ away' \in [Id -> Entry \cup {None}]
        /\ UNCHANGED <<rows, afar, op, born, calls, faults, heirs, gone, heals>>
    BY <1>8 DEF DeletePage, Written, Shape, history, index
  <2> QED  BY <2>1 DEF Shape, Indexed
<1>9. CASE DeleteRow
  <2>1. op' = Idle /\ op.id \in Id /\ rows' = [rows EXCEPT ![op.id] = None]
        /\ afar' = afar \ {op.id}
        /\ gone' = gone \cup op.promise /\ op.promise \subseteq Id
        /\ UNCHANGED <<pages, away, born, calls, faults, heirs, heals>>
    BY <1>9 DEF DeleteRow, Shape, Ops, disk
  <2>2. rows' \in [Id -> Entry \cup {None}] /\ afar' \subseteq Indexed'
    BY <2>1 DEF Shape, Indexed
  <2> QED  BY <2>1, <2>2, IdleIs, WritesAre DEF Shape
<1>10. CASE Reconcile
  <2>1. op' = Idle /\ heals' \in 0..3
        /\ UNCHANGED <<pages, away, born, calls, faults, heirs, gone>>
    BY <1>10, PassIs DEF Shape
  <2> QED  BY <1>10, <2>1, RowsRead, IdleIs, WritesAre DEF Shape
<1>11. CASE Crash
  <2>1. op' = Idle /\ faults' \in 0..MaxFaults /\ heals' \in 0..3
        /\ UNCHANGED <<pages, away, rows, afar, born, calls, heirs, gone>>
    BY <1>0, <1>11 DEF Crash, disk, index
  <2> QED  BY <2>1, IdleIs, WritesAre DEF Shape, Indexed
<1>12. ASSUME Outside, pages' \in [Id -> Entry \cup {None}], away' \in [Id -> Entry \cup {None}],
              born' \subseteq Id
       PROVE  Shape'
  <2>1. op' = op /\ op = Idle /\ faults' \in 0..MaxFaults /\ heals' = 0 /\ heirs' = {} /\ gone' = {}
        /\ UNCHANGED <<rows, afar, calls>>
    BY <1>0, <1>12 DEF Outside, index
  <2> QED  BY <1>12, <2>1, IdleIs, WritesAre DEF Shape, Indexed
<1>13. ASSUME NEW i \in Id, NEW e \in Entry,
              PutPage(i, e) \/ CopyPage(i, e) \/ RemovePage(i) \/ MovePage(i)
       PROVE Shape'
  <2>1. /\ pages' \in [Id -> Entry \cup {None}] /\ away' \in [Id -> Entry \cup {None}]
        /\ born' \subseteq Id /\ Outside
    BY <1>0, <1>13 DEF PutPage, CopyPage, RemovePage, MovePage, Shape
  <2> QED  BY <1>12, <2>1
<1>14. CASE UNCHANGED vars
  BY <1>14 DEF vars, history, disk, index, Shape, Batch, Indexed
<1>15. ASSUME NEW i \in Id, NEW e \in Patched(Shown(i), i), PutPage(i, e) PROVE Shape'
  BY <1>13, <1>15, ShownIs, PatchIs
<1>16. ASSUME NEW i \in Id, NEW S \in SUBSET Id, CopyPage(i, [Shown(i) EXCEPT !.related = S])
       PROVE  Shape'
  BY <1>13, <1>16, ShownIs
<1>17. ASSUME NEW i \in Id, RemovePage(i) \/ MovePage(i) PROVE Shape'
  BY <1>13, <1>17, BlankIs
<1> QED
  BY <1>1, <1>2, <1>3, <1>4, <1>5, <1>6, <1>7, <1>8, <1>9, <1>10, <1>11, <1>14, <1>15, <1>16,
     <1>17, <1>18 DEF Next

-----------------------------------------------------------------------------
(* Recorded replacements                                                   *)

\* Entry e says that new has replaced it.
Marked(e, new) == e.status = "superseded" /\ new \in e.supersededBy

\* Pending writes do not undo the replacement h.
Keeps(f, h) ==
    \A i \in DOMAIN f : /\ i = h[1] => Marked(f[i], h[2])
                        /\ i = h[2] => h[1] \in f[i].supersedes

\* A save has marked each entry it promised to replace, or is about to, before it
\* writes the successor, which names them all.
SavePromise ==
    op.kind = "save" =>
        /\ DOMAIN op.then = {op.id} /\ op.id \notin DOMAIN op.first /\ op.id \notin op.promise
        /\ op.promise \subseteq op.then[op.id].supersedes
        /\ \A o \in op.promise :
              \/ o \in DOMAIN op.first /\ Marked(op.first[o], op.id)
              \/ /\ o \notin DOMAIN op.first
                 /\ rows[o] # None /\ Marked(rows[o], op.id) /\ o \notin afar
                 /\ pages[o] # None /\ Marked(pages[o], op.id)

\* Entry i has no page but the one the store writes, and its row names no other.
Home(i) == away[i] = None /\ i \notin afar

HeirsInv ==
    /\ SupersessionRecorded
    /\ \A h \in heirs : /\ Keeps(op.first, h) /\ Keeps(op.then, h) /\ Home(h[1]) /\ Home(h[2])
                        /\ op.kind = "delete" => op.id \notin {h[1], h[2]}
    /\ SavePromise

\* Writing a batch that keeps a replacement keeps it in the table written.
LEMMA RecordsKept ==
    ASSUME NEW t \in [Id -> Entry \cup {None}], NEW f \in Writes, NEW i \in DOMAIN f,
           NEW h \in Id \X Id, Keeps(f, h), Records(t, h[1], h[2])
    PROVE  Records([t EXCEPT ![i] = f[i]], h[1], h[2])
<1> DEFINE u == [t EXCEPT ![i] = f[i]]
<1>1. h[1] \in Id /\ h[2] \in Id /\ i \in Id /\ f[i] \in Entry /\ f[i] # None
  BY WritesAre, SomeId
<1>2. \A j \in Id : u[j] = IF j = i THEN f[i] ELSE t[j]  BY <1>1
<1> HIDE DEF u
<1>3. u[h[1]] # None /\ u[h[2]] # None  BY <1>1, <1>2 DEF Records
<1>4. u[h[1]].status = "superseded" /\ h[2] \in u[h[1]].supersededBy
  BY <1>1, <1>2 DEF Records, Keeps, Marked
<1>5. h[1] \in u[h[2]].supersedes  BY <1>1, <1>2 DEF Records, Keeps
<1> QED  BY <1>3, <1>4, <1>5 DEF Records, u

\* Fewer writes keep what more writes keep.
LEMMA KeepsWithout ==
    ASSUME NEW f \in Writes, NEW i, NEW h, Keeps(f, h)
    PROVE  Keeps(Without(f, i), h)
<1>1. /\ DOMAIN Without(f, i) = DOMAIN f \ {i}
      /\ \A j \in DOMAIN f \ {i} : Without(f, i)[j] = f[j]
  BY WithoutIs, Zenon
<1> QED  BY <1>1 DEF Keeps

\* The batch under way keeps what both batches keep.
LEMMA KeepsBatch ==
    ASSUME NEW h, Keeps(op.first, h), Keeps(op.then, h) PROVE Keeps(Batch, h)
BY DEF Batch

\* Starting a command keeps what was recorded, if its writes do.
LEMMA StartKeeps ==
    ASSUME HeirsInv, UNCHANGED <<pages, away, rows, afar>>, heirs' \subseteq heirs,
           \A h \in heirs' : /\ Keeps(op'.first, h) /\ Keeps(op'.then, h)
                             /\ op'.kind = "delete" => op'.id \notin {h[1], h[2]},
           op'.kind # "save"
    PROVE  HeirsInv'
BY DEF HeirsInv, SupersessionRecorded, Records, Keeps, Marked, SavePromise, Home

\* Nothing pending keeps everything.
LEMMA NothingKeeps == \A f, h : DOMAIN f = {} => Keeps(f, h)
BY DEF Keeps

LEMMA SaveHeirs ==
    ASSUME Shape, HeirsInv, NEW id \in Id, NEW S \in SUBSET Id, NEW R \in SUBSET Id,
           id \notin S \cup R, Save(id, S, R)
    PROVE  HeirsInv'
<1>1. /\ op' \in Ops /\ op'.kind = "save" /\ op'.id = id
      /\ op'.first = Superseded(S, id) /\ DOMAIN op'.then = {id}
      /\ op'.then[id].supersedes = S
      /\ op'.promise = DOMAIN Superseded(S, id) /\ id \notin DOMAIN Superseded(S, id)
      /\ heirs' = {h \in heirs : id \notin {h[1], h[2]}} /\ UNCHANGED <<pages, away, rows, afar>>
  BY SaveIs
<1>2. \A o \in DOMAIN Superseded(S, id) :
           /\ o \in S /\ rows[o].status = "active"
           /\ Superseded(S, id)[o].status = "superseded"
           /\ Superseded(S, id)[o].supersedes = rows[o].supersedes
           /\ Superseded(S, id)[o].supersededBy = rows[o].supersededBy \cup {id}
  BY SupersededAt
<1>3. \A h \in heirs : Records(rows, h[1], h[2])
  BY DEF HeirsInv, SupersessionRecorded
<1>4. \A h \in heirs : Keeps(Superseded(S, id), h)
  BY <1>2, <1>3 DEF Keeps, Records, Marked
<1>5. \A h \in heirs' : Keeps(op'.first, h) /\ Keeps(op'.then, h)
  BY <1>1, <1>4 DEF Keeps
<1>6. SavePromise'
  <2>1. op'.promise \subseteq S  BY <1>1, <1>2
  <2>2. \A o \in op'.promise : o \in DOMAIN op'.first /\ Marked(op'.first[o], op'.id)
    BY <1>1, <1>2 DEF Marked
  <2> QED  BY <1>1, <2>1, <2>2 DEF SavePromise, Marked
<1>7. SupersessionRecorded'
  BY <1>1 DEF HeirsInv, SupersessionRecorded, Records
<1> QED  BY <1>1, <1>5, <1>6, <1>7 DEF HeirsInv, Keeps, Marked, Home

LEMMA UpdateHeirs ==
    ASSUME Shape, HeirsInv, NEW id \in Indexed, NEW e \in Patched(rows[id], id), Update(id, e)
    PROVE  HeirsInv'
<1>1. id \in Id /\ rows[id] \in Entry  BY DEF Indexed, Shape
<1>2. e \in Entry  BY <1>1, PatchIs
<1>3. /\ op'.kind = "update" /\ op'.then = NoWrites /\ UNCHANGED <<pages, away, rows, afar>>
      /\ DOMAIN op'.first = {id} /\ op'.first[id] = e
  BY <1>1, <1>2, PatchCommandIs DEF Update
<1>4. heirs' = {h \in heirs :
           /\ h[1] = id => e.status = rows[id].status /\ e.supersededBy = rows[id].supersededBy
           /\ h[2] = id => e.supersedes = rows[id].supersedes}
  BY DEF Update
<1>5. \A h \in heirs' : Records(rows, h[1], h[2])
  BY <1>4 DEF HeirsInv, SupersessionRecorded
<1>6. \A h \in heirs' : Keeps(op'.first, h)
  BY <1>3, <1>4, <1>5 DEF Keeps, Marked, Records
<1>7. heirs' \subseteq heirs  BY <1>4
<1> QED  BY <1>3, <1>6, <1>7, WritesAre, NothingKeeps, StartKeeps

LEMMA ForgetHeirs ==
    ASSUME Shape, HeirsInv, NEW id \in Id, Forget(id)
    PROVE  HeirsInv'
<1> DEFINE e == [rows[id] EXCEPT !.status = "superseded"]
<1>1. rows[id] \in Entry /\ rows[id].status = "active"
  BY DEF Forget, Indexed, Shape
<1>2. e \in Entry /\ e.supersedes = rows[id].supersedes  BY <1>1, ForgottenIs
<1>3. Command("forget", id, [i \in {id} |-> e], NoWrites, {}) /\ heirs' = heirs
  BY DEF Forget
<1> HIDE DEF e
<1>4. /\ op'.kind = "forget" /\ op'.then = NoWrites /\ UNCHANGED <<pages, away, rows, afar>>
      /\ DOMAIN op'.first = {id} /\ op'.first[id] = e
  BY <1>2, <1>3, PatchCommandIs
<1>5. \A h \in heirs : Records(rows, h[1], h[2])
  BY DEF HeirsInv, SupersessionRecorded
<1>6. \A h \in heirs : Keeps(op'.first, h)
  BY <1>1, <1>2, <1>4, <1>5 DEF Keeps, Marked, Records
<1> QED  BY <1>3, <1>4, <1>6, WritesAre, NothingKeeps, StartKeeps

LEMMA DeleteHeirs ==
    ASSUME Shape, HeirsInv, NEW id \in Id, Delete(id)
    PROVE  HeirsInv'
<1>1. /\ op'.kind = "delete" /\ op'.id = id
      /\ op'.first = Stripped(id) /\ op'.then = NoWrites
      /\ heirs' = {h \in heirs : id \notin {h[1], h[2]}} /\ UNCHANGED <<pages, away, rows, afar>>
  BY DeleteIs
<1>2. \A j \in DOMAIN Stripped(id) :
        /\ Stripped(id)[j].status = rows[j].status
        /\ Stripped(id)[j].supersedes = rows[j].supersedes \ {id}
        /\ Stripped(id)[j].supersededBy = rows[j].supersededBy \ {id}
  BY StrippedIs
<1>3. \A h \in heirs' : Records(rows, h[1], h[2]) /\ id \notin {h[1], h[2]}
  BY <1>1 DEF HeirsInv, SupersessionRecorded
<1>4. \A h \in heirs' : Keeps(op'.first, h)
  BY <1>1, <1>2, <1>3 DEF Keeps, Marked, Records
<1>5. heirs' \subseteq heirs  BY <1>1
<1> QED  BY <1>1, <1>3, <1>4, <1>5, WritesAre, NothingKeeps, StartKeeps

LEMMA HealHeirs ==
    ASSUME Shape, HeirsInv, Heal
    PROVE  HeirsInv'
<1>1. /\ op'.kind = "heal" /\ op'.then = NoWrites /\ UNCHANGED <<pages, away, rows, afar, heirs>>
      /\ DOMAIN op'.first \subseteq Indexed
      /\ \A j \in DOMAIN op'.first : op'.first[j] = Healed(j)
  BY HealIs
<1>2. ASSUME NEW h \in heirs PROVE Keeps(op'.first, h)
  <2>1. h[1] \in Id /\ h[2] \in Id  BY DEF Shape
  <2>2. Records(rows, h[1], h[2])  BY DEF HeirsInv, SupersessionRecorded
  <2>3. h[1] \in Indexed /\ h[2] \in Indexed  BY <2>1, <2>2 DEF Records, Indexed
  <2>4. /\ Healed(h[1]).status = "superseded" /\ h[2] \in Healed(h[1]).supersededBy
        /\ h[1] \in Healed(h[2]).supersedes
    BY <2>2, <2>3, HealedIs DEF Records
  <2> QED  BY <1>1, <2>4 DEF Keeps, Marked
<1> QED  BY <1>1, <1>2, WritesAre, NothingKeeps, StartKeeps

LEMMA PageHeirs ==
    ASSUME Shape, HeirsInv, WritePage
    PROVE  HeirsInv'
<1>1. PICK i \in DOMAIN Batch :
        /\ i \in Id /\ i # None /\ Batch[i] \in Entry
        /\ pages' = [pages EXCEPT ![i] = Batch[i]]
        /\ op'.page = i /\ op'.kind = op.kind /\ op'.id = op.id
        /\ op'.first = op.first /\ op'.then = op.then /\ op'.promise = op.promise
        /\ UNCHANGED <<away, rows, afar, heirs>>
  BY PageWritten
<1>2. Batch \in Writes /\ pages \in [Id -> Entry \cup {None}]  BY BatchIs DEF Shape
<1>3. ASSUME NEW h \in heirs PROVE Records(pages', h[1], h[2])
  <2>1. h \in Id \X Id  BY DEF Shape
  <2>2. Keeps(Batch, h) /\ Records(pages, h[1], h[2])
    BY KeepsBatch DEF HeirsInv, SupersessionRecorded
  <2> QED  BY <1>1, <1>2, <2>1, <2>2, RecordsKept
<1>4. SupersessionRecorded'
  BY <1>1, <1>3 DEF HeirsInv, SupersessionRecorded, Records
<1>5. SavePromise'
  <2> SUFFICES ASSUME op.kind = "save" PROVE SavePromise'
    BY <1>1 DEF SavePromise
  <2>1. /\ DOMAIN op.then = {op.id} /\ op.id \notin DOMAIN op.first /\ op.id \notin op.promise
        /\ op.promise \subseteq op.then[op.id].supersedes
    BY DEF HeirsInv, SavePromise
  <2>2. ASSUME NEW o \in op.promise, o \notin DOMAIN op.first
        PROVE  /\ rows[o] # None /\ Marked(rows[o], op.id) /\ o \notin afar
               /\ pages'[o] # None /\ Marked(pages'[o], op.id)
    <3>1. /\ rows[o] # None /\ Marked(rows[o], op.id) /\ o \notin afar
          /\ pages[o] # None /\ Marked(pages[o], op.id)
      BY <2>2 DEF HeirsInv, SavePromise
    <3>2. o # i  BY <1>1, <2>1, <2>2 DEF Batch
    <3>3. o \in Id  BY DEF Shape, Ops
    <3>4. pages'[o] = pages[o]  BY <1>1, <1>2, <3>2, <3>3
    <3> QED  BY <3>1, <3>4
  <2>3. \A o \in op.promise : o \in DOMAIN op.first => Marked(op.first[o], op.id)
    BY DEF HeirsInv, SavePromise
  <2> QED  BY <1>1, <2>1, <2>2, <2>3 DEF SavePromise, Marked
<1> QED  BY <1>1, <1>4, <1>5 DEF HeirsInv, Keeps, Marked, Home

LEMMA UnlinkHeirs ==
    ASSUME Shape, HeirsInv, UnlinkPage
    PROVE  HeirsInv'
<1>1. /\ op.page \in Id /\ away'[op.page] = None /\ \A j \in Id \ {op.page} : away'[j] = away[j]
      /\ UNCHANGED <<pages, rows, afar, op, heirs>>
  BY PageUnlinked
<1>2. \A h \in heirs : h[1] \in Id /\ h[2] \in Id  BY DEF Shape
<1>3. \A h \in heirs : Home(h[1])' /\ Home(h[2])'  BY <1>1, <1>2 DEF HeirsInv, Home
<1> QED
  BY <1>1, <1>3 DEF HeirsInv, SupersessionRecorded, Records, Keeps, Marked, SavePromise

LEMMA RowHeirs ==
    ASSUME Shape, HeirsInv, WriteRow
    PROVE  HeirsInv'
<1> DEFINE i == op.page
<1>1. /\ i \in Id /\ i \in DOMAIN Batch /\ Batch[i] \in Entry /\ pages[i] = Batch[i]
      /\ rows' = [rows EXCEPT ![i] = Batch[i]] /\ afar' = afar \ {i} /\ UNCHANGED <<pages, away>>
  BY RowWritten
<1>2. /\ Batch \in Writes /\ rows \in [Id -> Entry \cup {None}] /\ heirs \subseteq Id \X Id
      /\ op.first \in Writes /\ op.then \in Writes /\ op.promise \subseteq Id
  BY BatchIs DEF Shape, Ops
<1>3. ASSUME NEW h \in heirs PROVE Records(rows', h[1], h[2]) /\ Records(pages', h[1], h[2])
  <2>1. h \in Id \X Id  BY <1>2
  <2>2. Keeps(Batch, h) /\ Records(rows, h[1], h[2]) /\ Records(pages, h[1], h[2])
    BY KeepsBatch DEF HeirsInv, SupersessionRecorded
  <2> QED  BY <1>1, <1>2, <2>1, <2>2, RecordsKept
<1>6. \A h \in heirs : Home(h[1])' /\ Home(h[2])'
  BY <1>1 DEF HeirsInv, Home
<1>4. CASE /\ op' = Idle /\ op.kind \in {"save", "update", "forget"}
           /\ heirs' = heirs \cup (Alone(op.promise, op.id) \X {op.id})
           /\ \/ i \in DOMAIN op.first /\ DOMAIN op.then = {}
              \/ i \in DOMAIN op.then /\ DOMAIN op.first = {}
  <2>1. ASSUME NEW o \in Alone(op.promise, op.id)
        PROVE  /\ Records(rows', o, op.id) /\ Records(pages', o, op.id)
               /\ Home(o)' /\ away'[op.id] = None /\ op.id \notin afar'
    <3>0. o \in op.promise /\ o \notin Strayed /\ op.id \notin Strayed  BY DEF Alone
    <3>1. op.kind = "save" /\ op.id \in Id  BY <1>4, <3>0 DEF Shape
    <3>2. /\ DOMAIN op.then = {op.id} /\ op.id \notin op.promise
          /\ op.promise \subseteq op.then[op.id].supersedes
      BY <3>1 DEF HeirsInv, SavePromise
    <3>3. i = op.id /\ DOMAIN op.first = {} /\ Batch = op.then  BY <1>4, <3>2 DEF Batch
    <3>4. /\ rows[o] # None /\ Marked(rows[o], op.id) /\ o \notin afar
          /\ pages[o] # None /\ Marked(pages[o], op.id)
      BY <3>0, <3>1, <3>3 DEF HeirsInv, SavePromise
    <3>5. o \in Id /\ o # op.id  BY <1>2, <3>0, <3>2
    <3>8. Home(o)' /\ away'[op.id] = None /\ op.id \notin afar'
      BY <1>1, <3>0, <3>1, <3>3, <3>4, <3>5 DEF Home, Strayed
    <3>6. rows'[o] = rows[o] /\ rows'[op.id] = op.then[op.id] /\ pages[op.id] = op.then[op.id]
      BY <1>1, <1>2, <3>1, <3>3, <3>5
    <3>7. op.then[op.id] # None  BY <1>1, <3>3, SomeId
    <3> QED  BY <1>1, <3>0, <3>2, <3>4, <3>6, <3>7, <3>8 DEF Records, Marked
  <2>2. ASSUME NEW h \in heirs'
        PROVE  /\ Records(rows', h[1], h[2]) /\ Records(pages', h[1], h[2])
               /\ Home(h[1])' /\ Home(h[2])'
    <3>1. CASE h \in heirs  BY <1>3, <1>6, <3>1
    <3>2. CASE h \in Alone(op.promise, op.id) \X {op.id}
      <4>1. h[1] \in Alone(op.promise, op.id) /\ h[2] = op.id  BY <3>2
      <4> QED  BY <2>1, <4>1 DEF Home
    <3> QED  BY <1>4, <2>2, <3>1, <3>2
  <2>3. /\ op'.kind = "idle" /\ DOMAIN op'.first = {} /\ DOMAIN op'.then = {}
    BY <1>4, IdleIs, WritesAre
  <2>4. SupersessionRecorded'  BY <2>2 DEF SupersessionRecorded, Records
  <2> QED  BY <2>2, <2>3, <2>4 DEF HeirsInv, Keeps, SavePromise, Marked
<1>5. CASE /\ op' \in Ops /\ op'.page = None /\ op'.kind = op.kind /\ op'.id = op.id
           /\ op'.promise = op.promise /\ heirs' = heirs
           /\ op.kind = "save" => DOMAIN op'.first \cup DOMAIN op'.then # {}
           /\ \/ /\ i \in DOMAIN op.first /\ Batch = op.first
                 /\ op'.first = Without(op.first, i) /\ op'.then = op.then
              \/ /\ i \in DOMAIN op.then /\ DOMAIN op.first = {} /\ Batch = op.then
                 /\ op'.first = op.first /\ op'.then = Without(op.then, i)
  <2>1. SupersessionRecorded'
    BY <1>3, <1>5 DEF SupersessionRecorded, Records
  <2>2. \A h \in heirs' : /\ Keeps(op'.first, h) /\ Keeps(op'.then, h)
                          /\ Home(h[1])' /\ Home(h[2])'
                          /\ op'.kind = "delete" => op'.id \notin {h[1], h[2]}
    BY <1>2, <1>5, <1>6, KeepsWithout DEF HeirsInv
  <2>3. SavePromise'
    <3> SUFFICES ASSUME op.kind = "save" PROVE SavePromise'
      BY <1>5 DEF SavePromise
    <3>1. /\ DOMAIN op.then = {op.id} /\ op.id \notin DOMAIN op.first /\ op.id \notin op.promise
          /\ op.promise \subseteq op.then[op.id].supersedes
      BY DEF HeirsInv, SavePromise
    <3>2. CASE i \in DOMAIN op.then /\ DOMAIN op.first = {}
               /\ op'.first = op.first /\ op'.then = Without(op.then, i)
      <4>1. DOMAIN Without(op.then, i) = DOMAIN op.then \ {i}
        BY <1>2, WithoutIs, Zenon
      <4>2. DOMAIN op'.then = {}  BY <3>1, <3>2, <4>1
      <4> QED  BY <1>5, <3>2, <4>2
    <3>3. CASE i \in DOMAIN op.first /\ Batch = op.first
               /\ op'.first = Without(op.first, i) /\ op'.then = op.then
      <4>1. /\ DOMAIN op'.first = DOMAIN op.first \ {i}
            /\ \A j \in DOMAIN op.first \ {i} : op'.first[j] = op.first[j]
        <5>1. /\ DOMAIN Without(op.first, i) = DOMAIN op.first \ {i}
              /\ \A j \in DOMAIN op.first \ {i} : Without(op.first, i)[j] = op.first[j]
          BY <1>2, WithoutIs, Zenon
        <5> QED  BY <3>3, <5>1
      <4>2. ASSUME NEW o \in op.promise
            PROVE  \/ o \in DOMAIN op'.first /\ Marked(op'.first[o], op.id)
                   \/ /\ o \notin DOMAIN op'.first
                      /\ rows'[o] # None /\ Marked(rows'[o], op.id) /\ o \notin afar'
                      /\ pages'[o] # None /\ Marked(pages'[o], op.id)
        <5>0. o \in Id  BY <1>2
        <5>1. CASE o = i
          <6>1. Marked(op.first[o], op.id)  BY <3>3, <5>1 DEF HeirsInv, SavePromise
          <6>2. rows'[o] = op.first[o] /\ pages'[o] = op.first[o]
            BY <1>1, <1>2, <3>3, <5>1
          <6>3. op.first[o] # None  BY <1>1, <3>3, <5>1, SomeId
          <6> QED  BY <1>1, <4>1, <5>1, <6>1, <6>2, <6>3
        <5>2. CASE o # i
          <6>1. rows'[o] = rows[o] /\ pages'[o] = pages[o]  BY <1>1, <1>2, <5>0, <5>2
          <6> QED  BY <1>1, <4>1, <5>2, <6>1 DEF HeirsInv, SavePromise
        <5> QED  BY <5>1, <5>2
      <4> QED  BY <1>5, <3>1, <3>3, <4>1, <4>2 DEF SavePromise, Marked
    <3> QED  BY <1>5, <3>2, <3>3
  <2> QED  BY <2>1, <2>2, <2>3 DEF HeirsInv, Keeps, Marked
<1> QED  BY <1>4, <1>5, RowWritten

LEMMA HeirsStep == ASSUME Shape, HeirsInv, [Next]_vars PROVE HeirsInv'
<1>0. \A h \in heirs : /\ h[1] \in Id /\ h[2] \in Id
                      /\ Records(rows, h[1], h[2]) /\ Records(pages, h[1], h[2])
                      /\ Home(h[1]) /\ Home(h[2])
  BY DEF HeirsInv, SupersessionRecorded, Shape
<1>1. CASE DeletePage \/ DeleteRow
  <2>1. /\ op.kind = "delete" /\ op.id \in Id /\ heirs' = heirs
        /\ (op' = op \/ op' = Idle) /\ afar' \subseteq afar
        /\ \A j \in Id \ {op.id} : pages'[j] = pages[j] /\ away'[j] = away[j] /\ rows'[j] = rows[j]
    BY <1>1 DEF DeletePage, DeleteRow, Shape, history, index, disk
  <2>2. \A h \in heirs : op.id \notin {h[1], h[2]}
    BY <2>1 DEF HeirsInv
  <2>3. SupersessionRecorded' /\ \A h \in heirs' : Home(h[1])' /\ Home(h[2])'
    BY <1>0, <2>1, <2>2 DEF SupersessionRecorded, Records, Home
  <2>4. op' = op \/ (op'.kind = "idle" /\ DOMAIN op'.first = {} /\ DOMAIN op'.then = {})
    BY <2>1, IdleIs, WritesAre
  <2>5. SavePromise'  BY <2>1, <2>4 DEF SavePromise
  <2>6. \A h \in heirs' : /\ Keeps(op'.first, h) /\ Keeps(op'.then, h)
                          /\ op'.kind = "delete" => op'.id \notin {h[1], h[2]}
    BY <2>1, <2>4, NothingKeeps DEF HeirsInv
  <2> QED  BY <2>3, <2>5, <2>6 DEF HeirsInv, Keeps, Marked
<1>2. CASE Reconcile \/ Crash
  <2>1. op' = Idle /\ heirs' = heirs /\ pages' = pages /\ away' = away
    BY <1>2, PassIs DEF Crash, disk
  <2>2. ASSUME NEW h \in heirs
        PROVE  Records(rows', h[1], h[2]) /\ h[1] \notin afar' /\ h[2] \notin afar'
    <3>1. CASE Crash  BY <1>0, <3>1 DEF Crash, index, Home
    <3>2. CASE Reconcile
      <4>1. {h[1], h[2]} \subseteq Indexed \cap Listed /\ {h[1], h[2]} \cap (Strayed \cup afar) = {}
        BY <1>0 DEF Records, Indexed, Listed, Strayed, Home
      <4>2. /\ rows'[h[1]] \in {rows[h[1]], pages[h[1]]} /\ h[1] \notin afar'
            /\ rows'[h[2]] \in {rows[h[2]], pages[h[2]]} /\ h[2] \notin afar'
        BY <3>2, <4>1, RowsRead
      <4> QED  BY <1>0, <4>2 DEF Records
    <3> QED  BY <1>2, <3>1, <3>2
  <2>3. SupersessionRecorded' /\ \A h \in heirs' : Home(h[1])' /\ Home(h[2])'
    BY <1>0, <2>1, <2>2 DEF SupersessionRecorded, Records, Home
  <2> QED  BY <2>1, <2>3, IdleIs, WritesAre DEF HeirsInv, Keeps, SavePromise, Marked
<1>3. ASSUME Outside PROVE HeirsInv'
  <2>1. heirs' = {} /\ op' = Idle  BY <1>3 DEF Outside
  <2> QED  BY <2>1, IdleIs DEF HeirsInv, SupersessionRecorded, SavePromise
<1>4. CASE UNCHANGED vars
  BY <1>4 DEF vars, history, disk, index, HeirsInv, SupersessionRecorded, Records, Keeps, Marked,
              SavePromise, Home
<1> QED
  BY <1>1, <1>2, <1>3, <1>4, SaveHeirs, UpdateHeirs, ForgetHeirs, DeleteHeirs, HealHeirs,
     PageHeirs, UnlinkHeirs, RowHeirs DEF Next, PutPage, CopyPage, RemovePage, MovePage

-----------------------------------------------------------------------------
(* Deleted entries                                                         *)

\* A table, or pending writes, in which d is not an entry and no entry mentions it.
Clean(t, d) == \A i \in Id : t[i] # None => i # d /\ d \notin RefsOf(t[i])
CleanWrites(f, d) == \A i \in DOMAIN f : i # d /\ d \notin RefsOf(f[i])

\* A delete that found one page of each entry, and rows that name it and say the same,
\* rewrites every entry that mentions its own before it takes that one away.
DeletePromise ==
    op.kind = "delete" =>
        \A d \in op.promise :
            /\ d = op.id /\ d \in born /\ CleanWrites(op.first, d)
            /\ Strayed \subseteq afar /\ (d \in afar => pages[d] = None)
            /\ \A j \in Id \ (DOMAIN op.first \cup {d}) :
                  /\ rows[j] # None => d \notin RefsOf(rows[j])
                  /\ pages[j] # None => d \notin RefsOf(pages[j])
                  /\ away[j] # None => d \notin RefsOf(away[j])

GoneInv ==
    /\ \A d \in gone : /\ d \in born /\ Clean(rows, d) /\ Clean(pages, d) /\ Clean(away, d)
                       /\ CleanWrites(op.first, d) /\ CleanWrites(op.then, d)
    /\ Indexed \cup Listed \cup Strayed \cup DOMAIN op.first \cup DOMAIN op.then \subseteq born
    /\ DeletePromise

\* Writing clean entries keeps a table clean.
LEMMA CleanKept ==
    ASSUME NEW t \in [Id -> Entry \cup {None}], NEW f \in Writes, NEW i \in DOMAIN f,
           NEW d, CleanWrites(f, d), Clean(t, d)
    PROVE  Clean([t EXCEPT ![i] = f[i]], d)
<1>1. i \in Id  BY WritesAre
<1>2. \A j \in Id : [t EXCEPT ![i] = f[i]][j] = IF j = i THEN f[i] ELSE t[j]  BY <1>1
<1> QED  BY <1>2 DEF Clean, CleanWrites

LEMMA CleanWithout ==
    ASSUME NEW f \in Writes, NEW i, NEW d, CleanWrites(f, d)
    PROVE  CleanWrites(Without(f, i), d)
<1>1. /\ DOMAIN Without(f, i) = DOMAIN f \ {i}
      /\ \A j \in DOMAIN f \ {i} : Without(f, i)[j] = f[j]
  BY WithoutIs, Zenon
<1> QED  BY <1>1 DEF CleanWrites

\* Starting a command that is not a delete.
LEMMA StartClean ==
    ASSUME GoneInv, UNCHANGED <<pages, away, rows, afar>>, gone' \subseteq gone, born \subseteq born',
           DOMAIN op'.first \cup DOMAIN op'.then \subseteq born',
           \A d \in gone' : CleanWrites(op'.first, d) /\ CleanWrites(op'.then, d),
           op'.kind # "delete"
    PROVE  GoneInv'
BY DEF GoneInv, Clean, CleanWrites, Indexed, Listed, Strayed, DeletePromise

LEMMA SaveGone ==
    ASSUME Shape, GoneInv, NEW id \in Id, NEW S \in SUBSET Id, NEW R \in SUBSET Id,
           id \notin S \cup R, Save(id, S, R)
    PROVE  GoneInv'
<1>1. /\ op'.kind = "save"
      /\ op'.first = Superseded(S, id) /\ DOMAIN op'.then = {id}
      /\ RefsOf(op'.then[id]) = S \cup R
      /\ (id \notin born \/ id \in Indexed) /\ born' = born \cup {id}
      /\ gone' = gone \ (S \cup R) /\ UNCHANGED <<pages, away, rows, afar>>
  BY SaveIs
<1>2. DOMAIN op'.first \cup DOMAIN op'.then \subseteq born'
  <2>1. \A o \in DOMAIN op'.first : o \in Indexed
    <3>1. \A o \in DOMAIN Superseded(S, id) : o \in Indexed  BY SupersededAt
    <3> QED  BY <1>1, <3>1
  <2>2. Indexed \subseteq born  BY DEF GoneInv
  <2> QED  BY <1>1, <2>1, <2>2
<1>3. ASSUME NEW d \in gone' PROVE CleanWrites(op'.first, d) /\ CleanWrites(op'.then, d)
  <2>1. d \in born /\ Clean(rows, d) /\ d \in Id  BY <1>1 DEF GoneInv, Shape
  <2>2. d # id  BY <1>1, <2>1 DEF Clean, Indexed
  <2>3. CleanWrites(op'.then, d)  BY <1>1, <2>2 DEF CleanWrites
  <2>4. ASSUME NEW o \in DOMAIN Superseded(S, id)
        PROVE  o # d /\ d \notin RefsOf(Superseded(S, id)[o])
    <3>1. /\ o \in Id /\ rows[o] # None
          /\ Superseded(S, id)[o].supersedes = rows[o].supersedes
          /\ Superseded(S, id)[o].supersededBy = rows[o].supersededBy \cup {id}
          /\ Superseded(S, id)[o].related = rows[o].related
      BY SupersededAt, SomeId DEF Indexed
    <3> QED  BY <2>1, <2>2, <3>1 DEF Clean, RefsOf
  <2> QED  BY <1>1, <2>3, <2>4 DEF CleanWrites
<1> QED  BY <1>1, <1>2, <1>3, StartClean

LEMMA PatchGone ==
    ASSUME Shape, GoneInv, NEW id \in Indexed, NEW e \in Entry, NEW kind \in {"update", "forget"},
           Command(kind, id, [i \in {id} |-> e], NoWrites, {}),
           gone' \subseteq gone, born' = born, \A d \in gone' : d \notin RefsOf(e)
    PROVE  GoneInv'
<1>1. id \in Id /\ id \in born  BY DEF Indexed, GoneInv
<1>2. /\ op'.kind = kind /\ op'.then = NoWrites /\ UNCHANGED <<pages, away, rows, afar>>
      /\ DOMAIN op'.first = {id} /\ op'.first[id] = e
  BY <1>1, PatchCommandIs, ZenonT(60)
<1>3. \A d \in gone' : CleanWrites(op'.first, d) /\ CleanWrites(op'.then, d)
  BY <1>1, <1>2, WritesAre DEF GoneInv, Clean, CleanWrites, Indexed
<1> QED  BY <1>1, <1>2, <1>3, WritesAre, StartClean

LEMMA UpdateGone ==
    ASSUME Shape, GoneInv, NEW id \in Indexed, NEW e \in Patched(rows[id], id), Update(id, e)
    PROVE  GoneInv'
<1>1. e \in Entry  BY PatchIs DEF Indexed, Shape
<1>2. /\ Command("update", id, [i \in {id} |-> e], NoWrites, {})
      /\ gone' = gone \ RefsOf(e) /\ born' = born
  BY DEF Update
<1> QED  BY <1>1, <1>2, PatchGone

LEMMA ForgetGone ==
    ASSUME Shape, GoneInv, NEW id \in Id, Forget(id)
    PROVE  GoneInv'
<1> DEFINE e == [rows[id] EXCEPT !.status = "superseded"]
<1>1. id \in Indexed /\ rows[id] \in Entry /\ rows[id] # None  BY DEF Forget, Indexed, Shape
<1>2. e \in Entry /\ RefsOf(e) = RefsOf(rows[id])  BY <1>1, ForgottenIs
<1>3. /\ Command("forget", id, [i \in {id} |-> e], NoWrites, {})
      /\ gone' = gone /\ born' = born
  BY DEF Forget
<1> HIDE DEF e
<1>4. \A d \in gone' : d \notin RefsOf(e)
  BY <1>1, <1>2, <1>3 DEF GoneInv, Clean
<1> QED  BY <1>1, <1>2, <1>3, <1>4, PatchGone

LEMMA DeleteGone ==
    ASSUME Shape, GoneInv, NEW id \in Id, Delete(id)
    PROVE  GoneInv'
<1>1. /\ op'.kind = "delete" /\ op'.id = id
      /\ op'.first = Stripped(id) /\ op'.then = NoWrites
      /\ op'.promise = IF Tidy THEN {id} ELSE {}
      /\ id \in Indexed /\ UNCHANGED <<pages, away, rows, afar, born, gone>>
  BY DeleteIs
<1>2. DOMAIN Stripped(id) = {i \in Indexed \ {id} : id \in RefsOf(rows[i])}
  BY StrippedIs
<1>3. \A j \in DOMAIN Stripped(id) :
        /\ j \in Indexed /\ rows[j] # None /\ j \in Id
        /\ RefsOf(Stripped(id)[j]) = RefsOf(rows[j]) \ {id}
  <2> SUFFICES ASSUME NEW j \in DOMAIN Stripped(id)
               PROVE  /\ j \in Indexed /\ rows[j] # None /\ j \in Id
                      /\ RefsOf(Stripped(id)[j]) = RefsOf(rows[j]) \ {id}
    OBVIOUS
  <2>1. j \in Indexed /\ rows[j] # None /\ j \in Id /\ rows[j] \in Entry
    BY <1>2 DEF Indexed, Shape
  <2> DEFINE w == [rows[j] EXCEPT !.supersedes = @ \ {id}, !.supersededBy = @ \ {id},
                                  !.related = @ \ {id}]
  <2>2. Stripped(id)[j] = w  BY <1>2 DEF Stripped
  <2>3. /\ w.supersedes = rows[j].supersedes \ {id}
        /\ w.supersededBy = rows[j].supersededBy \ {id}
        /\ w.related = rows[j].related \ {id}
    BY <2>1 DEF Entry
  <2> HIDE DEF w
  <2> QED  BY <2>1, <2>2, <2>3 DEF RefsOf
<1>4. \A d \in gone : CleanWrites(op'.first, d) /\ CleanWrites(op'.then, d)
  BY <1>1, <1>3, WritesAre DEF GoneInv, Clean, CleanWrites
<1>5. DOMAIN op'.first \cup DOMAIN op'.then \subseteq born
  BY <1>1, <1>3, WritesAre DEF GoneInv
<1>6. DeletePromise'
  <2> SUFFICES ASSUME Tidy
               PROVE  /\ id \in born /\ CleanWrites(Stripped(id), id)
                      /\ Strayed \subseteq afar /\ (id \in afar => pages[id] = None)
                      /\ \A j \in Id \ (DOMAIN Stripped(id) \cup {id}) :
                            /\ rows[j] # None => id \notin RefsOf(rows[j])
                            /\ pages[j] # None => id \notin RefsOf(pages[j])
                            /\ away[j] # None => id \notin RefsOf(away[j])
    BY <1>1 DEF DeletePromise, CleanWrites, Strayed
  <2>1. id \in born  BY <1>1 DEF GoneInv
  <2>2. CleanWrites(Stripped(id), id)  BY <1>2, <1>3 DEF CleanWrites
  <2>3. \A j \in Id \ (DOMAIN Stripped(id) \cup {id}) :
           rows[j] # None => id \notin RefsOf(rows[j])
    BY <1>2 DEF Indexed
  <2>4. \A j \in Id : IF j \in afar THEN rows[j] = away[j] /\ pages[j] = None
                     ELSE rows[j] = pages[j] /\ away[j] = None
    BY DEF Tidy, Named, Other
  <2>5. Strayed \subseteq afar /\ (id \in afar => pages[id] = None)  BY <2>4 DEF Strayed
  <2> QED  BY <2>1, <2>2, <2>3, <2>4, <2>5
<1> QED  BY <1>1, <1>4, <1>5, <1>6 DEF GoneInv, Clean, CleanWrites, Indexed, Listed, Strayed

LEMMA HealGone ==
    ASSUME Shape, GoneInv, Heal
    PROVE  GoneInv'
<1>1. /\ op'.kind = "heal" /\ op'.then = NoWrites /\ UNCHANGED <<pages, away, rows, afar, born, gone>>
      /\ DOMAIN op'.first \subseteq Indexed
      /\ \A j \in DOMAIN op'.first : op'.first[j] = Healed(j)
  BY HealIs
<1>2. ASSUME NEW d \in gone, NEW j \in DOMAIN op'.first
      PROVE  j # d /\ d \notin RefsOf(op'.first[j])
  <2>1. Clean(rows, d)  BY DEF GoneInv
  <2>2. j \in Indexed /\ j \in Id /\ rows[j] # None /\ j # d /\ d \notin Indexed
    BY <1>1, <2>1 DEF Indexed, Clean
  <2>3. RefsOf(Healed(j)) \subseteq Indexed  BY <2>2, HealedIs DEF RefsOf
  <2> QED  BY <1>1, <2>2, <2>3
<1>3. \A d \in gone' : CleanWrites(op'.first, d) /\ CleanWrites(op'.then, d)
  BY <1>1, <1>2, WritesAre DEF CleanWrites
<1> QED  BY <1>1, <1>3, WritesAre, StartClean DEF GoneInv

LEMMA PageGone ==
    ASSUME Shape, GoneInv, WritePage
    PROVE  GoneInv'
<1>1. PICK i \in DOMAIN Batch :
        /\ i \in Id /\ i # None /\ Batch[i] \in Entry
        /\ pages' = [pages EXCEPT ![i] = Batch[i]]
        /\ op'.page = i /\ op'.kind = op.kind /\ op'.id = op.id
        /\ op'.first = op.first /\ op'.then = op.then /\ op'.promise = op.promise
        /\ UNCHANGED <<away, rows, afar, born, gone>>
  BY PageWritten
<1>2. Batch \in Writes /\ pages \in [Id -> Entry \cup {None}]  BY BatchIs DEF Shape
<1>3. ASSUME NEW d \in gone PROVE Clean(pages', d)
  <2>1. CleanWrites(Batch, d) /\ Clean(pages, d)  BY DEF GoneInv, Batch
  <2> QED  BY <1>1, <1>2, <2>1, CleanKept
<1>4. i \in born  BY DEF GoneInv, Batch
<1>5. Listed' \subseteq Listed \cup {i}  BY <1>1, <1>2 DEF Listed
<1>6. DeletePromise'
  <2> SUFFICES ASSUME op.kind = "delete" PROVE DeletePromise'
    BY <1>1 DEF DeletePromise
  <2>1. i \in DOMAIN op.first  BY <1>1 DEF Batch, Shape
  <2>2. \A j \in Id \ DOMAIN op.first : pages'[j] = pages[j]  BY <1>1, <1>2, <2>1
  <2>3. \A d \in op.promise : d \in Id /\ d \notin DOMAIN op.first
    BY DEF GoneInv, DeletePromise, CleanWrites, Shape, Ops
  <2> QED  BY <1>1, <2>2, <2>3 DEF GoneInv, DeletePromise, CleanWrites, Strayed
<1> QED  BY <1>1, <1>3, <1>4, <1>5, <1>6 DEF GoneInv, Clean, CleanWrites, Indexed, Strayed

LEMMA UnlinkGone ==
    ASSUME Shape, GoneInv, UnlinkPage
    PROVE  GoneInv'
<1>1. /\ op.page \in Id /\ op.page \in DOMAIN Batch /\ away'[op.page] = None
      /\ \A j \in Id \ {op.page} : away'[j] = away[j]
      /\ UNCHANGED <<pages, rows, afar, op, born, gone>>
  BY PageUnlinked
<1>2. \A j \in Id : away'[j] # None => away'[j] = away[j] /\ away[j] # None  BY <1>1
<1>3. Strayed' \subseteq Strayed  BY <1>2 DEF Strayed
<1>4. \A d \in gone : Clean(away', d)  BY <1>2 DEF GoneInv, Clean
<1>5. DeletePromise'
  BY <1>1, <1>2, <1>3 DEF GoneInv, DeletePromise, CleanWrites
<1> QED  BY <1>1, <1>3, <1>4, <1>5 DEF GoneInv, Clean, CleanWrites, Indexed, Listed

LEMMA RowGone ==
    ASSUME Shape, GoneInv, WriteRow
    PROVE  GoneInv'
<1> DEFINE i == op.page
<1>1. /\ i \in Id /\ i \in DOMAIN Batch /\ Batch[i] \in Entry /\ pages[i] = Batch[i]
      /\ rows' = [rows EXCEPT ![i] = Batch[i]] /\ afar' = afar \ {i} /\ (i \in afar => away[i] = None)
      /\ UNCHANGED <<pages, away, born, gone>>
  BY RowWritten
<1>2. /\ Batch \in Writes /\ rows \in [Id -> Entry \cup {None}]
      /\ op.first \in Writes /\ op.then \in Writes
  BY BatchIs DEF Shape
<1>3. ASSUME NEW d \in gone PROVE Clean(rows', d)
  <2>1. CleanWrites(Batch, d) /\ Clean(rows, d)  BY DEF GoneInv, Batch
  <2> QED  BY <1>1, <1>2, <2>1, CleanKept
<1>4. i \in born  BY <1>1 DEF GoneInv, Batch
<1>5. Indexed' \subseteq Indexed \cup {i}  BY <1>1, <1>2 DEF Indexed
<1>6. CASE op' = Idle
  <2>1. op'.kind = "idle" /\ DOMAIN op'.first = {} /\ DOMAIN op'.then = {}
    BY <1>6, IdleIs, WritesAre
  <2> QED
    BY <1>1, <1>3, <1>4, <1>5, <2>1 DEF GoneInv, Clean, CleanWrites, Listed, Strayed, DeletePromise
<1>7. CASE /\ op'.kind = op.kind /\ op'.id = op.id /\ op'.promise = op.promise
           /\ \/ /\ i \in DOMAIN op.first /\ Batch = op.first
                 /\ op'.first = Without(op.first, i) /\ op'.then = op.then
              \/ /\ i \in DOMAIN op.then /\ DOMAIN op.first = {} /\ Batch = op.then
                 /\ op'.first = op.first /\ op'.then = Without(op.then, i)
  <2>1. DOMAIN op'.first \subseteq DOMAIN op.first /\ DOMAIN op'.then \subseteq DOMAIN op.then
    <3>1. /\ DOMAIN Without(op.first, i) = DOMAIN op.first \ {i}
          /\ DOMAIN Without(op.then, i) = DOMAIN op.then \ {i}
      BY DEF Without
    <3> QED  BY <1>7, <3>1
  <2>2. \A d : /\ CleanWrites(op.first, d) => CleanWrites(op'.first, d)
               /\ CleanWrites(op.then, d) => CleanWrites(op'.then, d)
    BY <1>2, <1>7, CleanWithout
  <2>3. DeletePromise'
    <3> SUFFICES ASSUME op.kind = "delete" PROVE DeletePromise'
      BY <1>7 DEF DeletePromise
    <3>1. i \in DOMAIN op.first /\ Batch = op.first /\ op'.first = Without(op.first, i)
      BY <1>7 DEF Shape
    <3>2. DOMAIN op'.first = DOMAIN op.first \ {i}  BY <3>1 DEF Without
    <3>3. rows'[i] = op.first[i] /\ pages'[i] = op.first[i]
          /\ \A j \in Id \ {i} : rows'[j] = rows[j] /\ pages'[j] = pages[j]
      BY <1>1, <1>2, <3>1
    <3>4. ASSUME NEW d \in op.promise, NEW j \in Id \ (DOMAIN op'.first \cup {d})
          PROVE  /\ rows'[j] # None => d \notin RefsOf(rows'[j])
                 /\ pages'[j] # None => d \notin RefsOf(pages'[j])
                 /\ away'[j] # None => d \notin RefsOf(away'[j])
      <4>1. CASE j = i
        <5>1. away[i] = None  BY <1>1 DEF GoneInv, DeletePromise, Strayed
        <5> QED  BY <1>1, <3>1, <3>3, <4>1, <5>1 DEF GoneInv, DeletePromise, CleanWrites
      <4>2. CASE j # i
        <5>1. j \in Id \ (DOMAIN op.first \cup {d})  BY <3>2, <4>2
        <5> QED  BY <1>1, <3>3, <4>2, <5>1 DEF GoneInv, DeletePromise
      <4> QED  BY <4>1, <4>2
    <3>5. \A d \in op.promise : d = op.id /\ d \in born /\ CleanWrites(op'.first, d)
      BY <2>2 DEF GoneInv, DeletePromise
    <3>6. ASSUME NEW d \in op.promise
          PROVE  Strayed' \subseteq afar' /\ (d \in afar' => pages'[d] = None)
      <4>1. Strayed \subseteq afar /\ (d \in afar => pages[d] = None)
        BY DEF GoneInv, DeletePromise
      <4>2. i \notin Strayed  BY <1>1, <4>1 DEF Strayed
      <4> QED  BY <1>1, <4>1, <4>2 DEF Strayed
    <3> QED  BY <1>1, <1>7, <3>4, <3>5, <3>6 DEF DeletePromise, CleanWrites, RefsOf, Strayed
  <2>4. \A d \in gone' : /\ d \in born' /\ Clean(rows', d) /\ Clean(pages', d) /\ Clean(away', d)
                         /\ CleanWrites(op'.first, d) /\ CleanWrites(op'.then, d)
    BY <1>1, <1>3, <2>2 DEF GoneInv
  <2>5. Indexed' \cup Listed' \cup Strayed' \cup DOMAIN op'.first \cup DOMAIN op'.then \subseteq born'
    BY <1>1, <1>4, <1>5, <2>1 DEF GoneInv, Listed, Strayed
  <2> QED  BY <2>3, <2>4, <2>5 DEF GoneInv, Clean, CleanWrites
<1> QED  BY <1>6, <1>7, RowWritten

LEMMA DeleteRowGone ==
    ASSUME Shape, GoneInv, DeleteRow
    PROVE  GoneInv'
<1>1. /\ op.kind = "delete" /\ op.id \in Id /\ Written /\ Named(op.id) = None
      /\ rows' = [rows EXCEPT ![op.id] = None] /\ op' = Idle
      /\ gone' = gone \cup op.promise /\ UNCHANGED <<pages, away, born>>
  BY DEF DeleteRow, Shape, disk
<1>2. DOMAIN op.first = {}  BY <1>1, WrittenIs
<1>3. rows'[op.id] = None /\ \A j \in Id \ {op.id} : rows'[j] = rows[j]
  BY <1>1 DEF Shape
<1>4. ASSUME NEW d \in gone
      PROVE  d \in born /\ Clean(rows', d) /\ Clean(pages', d) /\ Clean(away', d)
  BY <1>1, <1>3 DEF GoneInv, Clean
<1>5. ASSUME NEW d \in op.promise
      PROVE  d \in born /\ Clean(rows', d) /\ Clean(pages', d) /\ Clean(away', d)
  <2>1. /\ d = op.id /\ d \in born
        /\ \A j \in Id \ {d} : /\ rows[j] # None => d \notin RefsOf(rows[j])
                               /\ pages[j] # None => d \notin RefsOf(pages[j])
                               /\ away[j] # None => d \notin RefsOf(away[j])
    BY <1>1, <1>2 DEF GoneInv, DeletePromise
  <2>2. Strayed \subseteq afar /\ (d \in afar => pages[d] = None)
    BY <1>1 DEF GoneInv, DeletePromise
  <2>3. pages[d] = None /\ away[d] = None
    BY <1>1, <2>1, <2>2 DEF Named, Strayed
  <2> QED  BY <1>1, <1>3, <2>1, <2>3 DEF Clean
<1>6. op'.kind = "idle" /\ DOMAIN op'.first = {} /\ DOMAIN op'.then = {}
  BY <1>1, IdleIs, WritesAre
<1>7. Indexed' \subseteq Indexed /\ Listed' = Listed /\ Strayed' = Strayed
  BY <1>1, <1>3 DEF Indexed, Listed, Strayed
<1> QED  BY <1>1, <1>4, <1>5, <1>6, <1>7 DEF GoneInv, Clean, CleanWrites, DeletePromise

LEMMA GoneStep == ASSUME Shape, GoneInv, [Next]_vars PROVE GoneInv'
<1>1. CASE DeletePage
  <2>1. /\ \A j \in Id : /\ pages'[j] \in {pages[j], None} /\ away'[j] \in {away[j], None}
        /\ UNCHANGED <<rows, afar, op, born, gone>>
    BY <1>1 DEF DeletePage, Shape, history, index
  <2>2. Listed' \subseteq Listed /\ Strayed' \subseteq Strayed /\ Indexed' = Indexed
    BY <2>1 DEF Listed, Strayed, Indexed
  <2>3. DeletePromise'  BY <2>1, <2>2 DEF GoneInv, DeletePromise, CleanWrites, Shape, Ops
  <2>4. \A d \in gone : Clean(pages', d) /\ Clean(away', d)  BY <2>1 DEF GoneInv, Clean
  <2> QED  BY <2>1, <2>2, <2>3, <2>4 DEF GoneInv, Clean, CleanWrites
<1>2. CASE Reconcile \/ Crash
  <2>1. op' = Idle /\ UNCHANGED <<pages, away, born, gone>>
    BY <1>2, PassIs DEF Crash, disk
  <2>2. \A i \in Id : rows'[i] \in {None, rows[i], pages[i], away[i]}
    BY <1>2, RowsRead DEF Crash, index
  <2>3. op'.kind = "idle" /\ DOMAIN op'.first = {} /\ DOMAIN op'.then = {}
    BY <2>1, IdleIs, WritesAre
  <2>4. Indexed' \subseteq Indexed \cup Listed \cup Strayed  BY <2>2 DEF Indexed, Listed, Strayed
  <2>5. \A d \in gone : Clean(rows', d)  BY <2>2 DEF GoneInv, Clean
  <2> QED
    BY <2>1, <2>3, <2>4, <2>5 DEF GoneInv, Clean, CleanWrites, DeletePromise, Listed, Strayed
<1>3. ASSUME Outside, born \subseteq born', Listed' \cup Strayed' \subseteq born' PROVE GoneInv'
  <2>1. gone' = {} /\ op' = Idle /\ rows' = rows  BY <1>3 DEF Outside, index
  <2>2. op'.kind = "idle" /\ DOMAIN op'.first = {} /\ DOMAIN op'.then = {}
    BY <2>1, IdleIs, WritesAre
  <2>3. Indexed' \subseteq born'  BY <1>3, <2>1 DEF GoneInv, Indexed
  <2> QED  BY <1>3, <2>1, <2>2, <2>3 DEF GoneInv, DeletePromise
<1>4. ASSUME NEW i \in Id, NEW e, PutPage(i, e) \/ CopyPage(i, e) \/ RemovePage(i) \/ MovePage(i)
      PROVE  GoneInv'
  <2>1. Listed \subseteq born /\ Strayed \subseteq born  BY DEF GoneInv
  <2>2. \A j \in Id \ {i} : pages'[j] = pages[j] /\ away'[j] = away[j]
    BY <1>4 DEF PutPage, CopyPage, RemovePage, MovePage, Shape
  <2>3. Outside /\ born \subseteq born' /\ i \in born'
    BY <1>4, <2>1 DEF PutPage, CopyPage, RemovePage, MovePage
  <2>4. Listed' \cup Strayed' \subseteq born'  BY <2>1, <2>2, <2>3 DEF Listed, Strayed
  <2> QED  BY <1>3, <2>3, <2>4
<1>5. CASE UNCHANGED vars
  BY <1>5 DEF vars, history, disk, index, GoneInv, Clean, CleanWrites, DeletePromise, Indexed,
              Listed, Strayed
<1> QED
  BY <1>1, <1>2, <1>4, <1>5, SaveGone, UpdateGone, ForgetGone, DeleteGone, HealGone,
     PageGone, UnlinkGone, RowGone, DeleteRowGone DEF Next

-----------------------------------------------------------------------------
(* Heals                                                                   *)

\* The table a heal under way arrives at, and what makes a table whole.
Goal == [i \in Id |-> IF i \in DOMAIN op.first THEN op.first[i] ELSE rows[i]]

TableClosed(t) == \A i \in Id : t[i] # None => \A j \in RefsOf(t[i]) : t[j] # None

TableMirrored(t) ==
    \A i \in Id : t[i] # None =>
       /\ \A j \in t[i].supersedes : t[j] # None => i \in t[j].supersededBy
       /\ \A j \in t[i].related : t[j] # None => i \in t[j].related

Settled(t) == TableClosed(t) /\ TableMirrored(t)

\* After one heal every row says what the page it names says, after two every page's
\* entry has its row; a heal that starts there arrives at a whole table, which is what
\* the pages say.
HealInv ==
    /\ op.kind \notin {"idle", "heal"} => heals = 0
    /\ heals >= 1 => \A i \in Id \ {op.page} : rows[i] # None => rows[i] = Named(i)
    /\ heals >= 2 => \A i \in Id : rows[i] = None => pages[i] = None /\ away[i] = None
    /\ op.kind = "heal" /\ heals >= 2 => DOMAIN op.first \subseteq Indexed /\ Settled(Goal)
    /\ op.kind = "idle" /\ heals = 3 /\ Twins = {} => Settled(rows)

\* The healed rows make a whole table.
LEMMA HealedSettled ==
    ASSUME Shape, NEW t, \A i \in Indexed : t[i] = Healed(i), \A i \in Id \ Indexed : t[i] = None
    PROVE  Settled(t)
<1>1. \A i \in Indexed :
        /\ i \in Id /\ Healed(i) # None
        /\ Healed(i).supersedes = rows[i].supersedes \cap Indexed
        /\ Healed(i).supersededBy = (rows[i].supersededBy \cap Indexed)
             \cup {j \in Indexed : i \in rows[j].supersedes}
        /\ Healed(i).related = (rows[i].related \cap Indexed)
             \cup {j \in Indexed : i \in rows[j].related}
  BY HealedIs, SomeId
<1>2. \A i \in Id : t[i] # None <=> i \in Indexed  BY <1>1
<1>3. TableClosed(t)
  <2>1. \A i \in Indexed : RefsOf(Healed(i)) \subseteq Indexed  BY <1>1 DEF RefsOf
  <2> QED  BY <1>1, <1>2, <2>1 DEF TableClosed
<1>4. TableMirrored(t)
  <2> SUFFICES ASSUME NEW i \in Indexed
               PROVE  /\ \A j \in Healed(i).supersedes : i \in Healed(j).supersededBy /\ j \in Indexed
                      /\ \A j \in Healed(i).related : i \in Healed(j).related /\ j \in Indexed
    BY <1>1, <1>2 DEF TableMirrored
  <2>1. ASSUME NEW j \in Healed(i).supersedes PROVE i \in Healed(j).supersededBy /\ j \in Indexed
    <3>1. j \in Indexed /\ j \in rows[i].supersedes  BY <1>1, <2>1
    <3>2. i \in {k \in Indexed : j \in rows[k].supersedes}  BY <3>1
    <3> QED  BY <1>1, <3>1, <3>2
  <2>2. ASSUME NEW j \in Healed(i).related PROVE i \in Healed(j).related /\ j \in Indexed
    <3>1. CASE j \in rows[i].related \cap Indexed
      <4>1. i \in {k \in Indexed : j \in rows[k].related}  BY <3>1
      <4> QED  BY <1>1, <3>1, <4>1
    <3>2. CASE j \in {k \in Indexed : i \in rows[k].related}
      <4>1. j \in Indexed /\ i \in rows[j].related \cap Indexed  BY <3>2
      <4> QED  BY <1>1, <4>1
    <3> QED  BY <1>1, <2>2, <3>1, <3>2
  <2> QED  BY <2>1, <2>2
<1> QED  BY <1>3, <1>4 DEF Settled

\* Whatever has been done since, the count of heals starts anew.
LEMMA HealsAnew == ASSUME heals' = 0 PROVE HealInv'
BY DEF HealInv

LEMMA HealStarts ==
    ASSUME Shape, HealInv, Heal
    PROVE  HealInv'
<1>1. /\ op = Idle /\ op'.kind = "heal" /\ op'.page = None
      /\ UNCHANGED <<pages, away, rows, afar, heals>>
      /\ DOMAIN op'.first = {i \in Indexed : Healed(i) # rows[i]}
      /\ \A j \in DOMAIN op'.first : op'.first[j] = Healed(j)
  BY HealIs
<1>2. op.page = None  BY <1>1, IdleIs
<1>3. Settled(Goal')
  <2>1. \A i \in Indexed : Goal'[i] = Healed(i)  BY <1>1 DEF Goal, Indexed
  <2>2. \A i \in Id \ Indexed : Goal'[i] = None  BY <1>1 DEF Goal, Indexed
  <2> QED  BY <2>1, <2>2, HealedSettled
<1>4. Settled(Goal)' /\ DOMAIN op'.first \subseteq Indexed'
  BY <1>1, <1>3 DEF Settled, TableClosed, TableMirrored, RefsOf, Indexed
<1> QED  BY <1>1, <1>2, <1>4 DEF HealInv, Named

\* The writes of a heal that is counted leave its goal as it was.
LEMMA HealGoes ==
    ASSUME Shape, HealInv, WritePage \/ UnlinkPage \/ WriteRow
    PROVE  HealInv'
<1>1. heals \in 0..3 /\ heals' = heals /\ DOMAIN Batch # {}
  BY PageWritten, PageUnlinked, RowWritten DEF Shape
<1>2. CASE heals = 0
  BY <1>1, <1>2, HealsAnew
<1>3. CASE heals \in {1, 2, 3}
  <2>1. op.kind = "heal" /\ DOMAIN op.first # {} /\ Batch = op.first
    <3>1. op.kind \in {"idle", "heal"}  BY <1>3 DEF HealInv
    <3>2. DOMAIN op.then = {}  BY <3>1 DEF Shape
    <3>3. DOMAIN op.first # {} /\ Batch = op.first  BY <1>1, <3>2 DEF Batch
    <3> QED  BY <3>1, <3>3 DEF Shape
  <2>2. /\ \A i \in Id \ {op.page} : rows[i] # None => rows[i] = Named(i)
        /\ heals >= 2 => /\ \A i \in Id : rows[i] = None => pages[i] = None /\ away[i] = None
                         /\ DOMAIN op.first \subseteq Indexed /\ Settled(Goal)
    BY <1>3, <2>1 DEF HealInv
  <2>3. /\ pages \in [Id -> Entry \cup {None}] /\ rows \in [Id -> Entry \cup {None}]
    BY DEF Shape
  <2> SUFFICES /\ op'.kind = "heal"
               /\ \A i \in Id \ {op'.page} : rows'[i] # None => rows'[i] = Named(i)'
               /\ heals >= 2 =>
                     /\ \A i \in Id : rows'[i] = None => pages'[i] = None /\ away'[i] = None
                     /\ DOMAIN op'.first \subseteq Indexed' /\ Goal' = Goal
    BY <1>1, <1>3, <2>2 DEF HealInv
  <2>4. CASE WritePage
    <3>1. PICK i \in DOMAIN Batch :
            /\ op.page = None /\ pages' = [pages EXCEPT ![i] = Batch[i]] /\ op'.page = i
            /\ op'.kind = op.kind /\ op'.first = op.first /\ i \in Id
            /\ UNCHANGED <<away, rows, afar>>
      BY <2>4, PageWritten
    <3>2. \A j \in Id \ {i} : pages'[j] = pages[j]  BY <2>3, <3>1
    <3>3. heals >= 2 => rows[i] # None  BY <2>1, <2>2, <3>1 DEF Indexed
    <3>4. \A j \in Id \ {op'.page} : rows'[j] # None => rows'[j] = Named(j)'
      BY <2>2, <3>1, <3>2, SomeId DEF Named
    <3>5. Goal' = Goal /\ Indexed' = Indexed  BY <3>1 DEF Goal, Indexed
    <3> QED  BY <2>1, <2>2, <3>1, <3>2, <3>3, <3>4, <3>5
  <2>5. CASE UnlinkPage
    <3>1. /\ op.page \in Id /\ away'[op.page] = None
          /\ \A j \in Id \ {op.page} : away'[j] = away[j]
          /\ UNCHANGED <<pages, rows, afar, op>>
      BY <2>5, PageUnlinked
    <3>2. \A j \in Id \ {op'.page} : rows'[j] # None => rows'[j] = Named(j)'
      BY <2>2, <3>1 DEF Named
    <3>3. Goal' = Goal /\ Indexed' = Indexed  BY <3>1 DEF Goal, Indexed
    <3>4. heals >= 2 => \A j \in Id : rows'[j] = None => pages'[j] = None /\ away'[j] = None
      BY <2>2, <3>1
    <3> QED  BY <2>1, <2>2, <3>1, <3>2, <3>3, <3>4
  <2>6. CASE WriteRow
    <3> DEFINE i == op.page
    <3>0. op.kind \notin {"save", "update", "forget"}  BY <2>1
    <3>1. /\ i \in Id /\ i \in DOMAIN op.first /\ pages[i] = op.first[i] /\ op.first[i] # None
          /\ rows' = [rows EXCEPT ![i] = op.first[i]] /\ afar' = afar \ {i}
          /\ op'.kind = op.kind /\ op'.page = None /\ op'.first = Without(op.first, i)
          /\ UNCHANGED <<pages, away>>
      BY <2>1, <2>6, <3>0, RowWritten, SomeId
    <3>2. rows'[i] = op.first[i] /\ \A j \in Id \ {i} : rows'[j] = rows[j]  BY <2>3, <3>1
    <3>3. /\ DOMAIN op'.first = DOMAIN op.first \ {i}
          /\ \A j \in DOMAIN op.first \ {i} : op'.first[j] = op.first[j]
      BY <3>1 DEF Without
    <3>4. ASSUME NEW j \in Id, rows'[j] # None PROVE rows'[j] = Named(j)'
      <4>1. CASE j = i  BY <3>1, <3>2, <4>1 DEF Named
      <4>2. CASE j # i  BY <2>2, <3>1, <3>2, <3>4, <4>2 DEF Named
      <4> QED  BY <4>1, <4>2
    <3>5. Goal' = Goal  BY <3>1, <3>2, <3>3 DEF Goal
    <3>6. Indexed \subseteq Indexed'  BY <3>1, <3>2 DEF Indexed
    <3> QED  BY <2>1, <2>2, <3>1, <3>2, <3>3, <3>4, <3>5, <3>6
  <2> QED  BY <2>4, <2>5, <2>6
<1> QED  BY <1>1, <1>2, <1>3

LEMMA HealEnds ==
    ASSUME Shape, HealInv, Reconcile
    PROVE  HealInv'
<1>1. PICK unread \in SUBSET Id, far \in SUBSET Id :
        /\ op.kind = "heal" /\ Written /\ Turned(far)
        /\ rows' = [i \in Id |-> IF i \in Lost THEN None
                                 ELSE IF i \in unread THEN rows[i]
                                 ELSE IF i \in far THEN away[i] ELSE pages[i]]
        /\ afar' = ((afar \cap unread) \cup (far \ unread)) \ Lost
        /\ heals' = IF unread # {} THEN 0 ELSE IF heals = 3 THEN 3 ELSE heals + 1
        /\ op' = Idle
        /\ UNCHANGED <<pages, away, born, calls, faults, heirs, gone>>
  BY PassIs
<1>2. CASE unread # {}  BY <1>1, <1>2, HealsAnew
<1>3. CASE unread = {}
  <2>1. /\ \A i \in Id : rows'[i] = IF i \in Lost THEN None
                                     ELSE IF i \in far THEN away[i] ELSE pages[i]
        /\ afar' = far \ Lost
    BY <1>1, <1>3
  <2>2. /\ far \subseteq Strayed /\ Strayed \ Listed \subseteq far
        /\ op.page = None /\ DOMAIN op.first = {} /\ heals \in 0..3
        /\ op'.kind = "idle" /\ op'.page = None
    BY <1>1, WrittenIs, IdleIs DEF Turned, Shape
  <2>3. ASSUME NEW i \in Id, rows'[i] # None PROVE rows'[i] = Named(i)'
    BY <1>1, <2>1, <2>3 DEF Named
  <2>4. ASSUME heals >= 1 PROVE Lost = {}
    <3>1. \A i \in Id : rows[i] # None => rows[i] = Named(i)  BY <2>2, <2>4, SomeId DEF HealInv
    <3> QED  BY <3>1 DEF Lost, Indexed
  <2>5. ASSUME heals >= 1, NEW i \in Id, rows'[i] = None PROVE pages'[i] = None /\ away'[i] = None
    <3>1. rows'[i] = IF i \in far THEN away[i] ELSE pages[i]  BY <2>1, <2>4, <2>5
    <3>2. i \notin far /\ pages[i] = None  BY <2>2, <2>5, <3>1 DEF Strayed
    <3>3. away[i] = None  BY <2>2, <3>2 DEF Strayed, Listed
    <3> QED  BY <1>1, <3>2, <3>3
  <2>6. ASSUME heals >= 2, Twins = {} PROVE Settled(rows')
    <3>1. /\ \A i \in Id : rows[i] # None => rows[i] = Named(i)
          /\ \A i \in Id : rows[i] = None => pages[i] = None /\ away[i] = None
          /\ Settled(Goal)
      BY <1>1, <2>2, <2>6, SomeId DEF HealInv
    <3>2. Lost = {}  BY <2>2, <2>4, <2>6
    <3>3. ASSUME NEW i \in Id PROVE rows'[i] = rows[i]
      <4>1. rows'[i] = IF i \in far THEN away[i] ELSE pages[i]  BY <2>1, <3>2
      <4>2. pages[i] = None \/ away[i] = None  BY <2>6 DEF Twins, Listed, Strayed
      <4>3. i \in far <=> away[i] # None
        BY <2>2, <4>2 DEF Strayed, Listed
      <4>4. CASE rows[i] = None  BY <3>1, <4>1, <4>3, <4>4
      <4>5. CASE rows[i] # None
        <5>1. rows[i] = IF i \in afar THEN away[i] ELSE pages[i]  BY <3>1, <4>5 DEF Named
        <5> QED  BY <4>1, <4>2, <4>3, <4>5, <5>1
      <4> QED  BY <4>4, <4>5
    <3>4. rows = Goal  BY <2>2 DEF Goal, Shape
    <3>5. rows' = rows
      <4>1. rows' \in [Id -> Entry \cup {None}] /\ rows \in [Id -> Entry \cup {None}]
        BY RowsRead DEF Shape
      <4> QED  BY <3>3, <4>1
    <3> QED  BY <3>1, <3>4, <3>5
  <2>7. Twins' = Twins  BY <1>1 DEF Twins, Listed, Strayed
  <2>8. (heals' >= 2 => heals >= 1) /\ (heals' = 3 => heals >= 2)  BY <1>1, <1>3, <2>2
  <2>9. heals' = 3 /\ Twins' = {} => Settled(rows)'
    BY <2>6, <2>7, <2>8 DEF Settled, TableClosed, TableMirrored, RefsOf
  <2> QED  BY <2>2, <2>3, <2>5, <2>8, <2>9 DEF HealInv
<1> QED  BY <1>2, <1>3

LEMMA HealStep == ASSUME Shape, HealInv, [Next]_vars PROVE HealInv'
<1>1. CASE DeletePage \/ DeleteRow
  <2>1. op.kind = "delete" /\ heals' = heals  BY <1>1 DEF DeletePage, DeleteRow, history
  <2> QED  BY <2>1, HealsAnew DEF HealInv
<1>2. CASE UNCHANGED vars
  BY <1>2 DEF vars, history, disk, index, HealInv, Settled, TableClosed, TableMirrored, RefsOf,
              Goal, Named, Twins, Listed, Strayed, Indexed
<1>3. heals' = 0 => HealInv'  BY HealsAnew
<1> QED
  BY <1>1, <1>2, <1>3, HealStarts, HealGoes, HealEnds
  DEF Next, Save, Update, Forget, Delete, Call, Crash, PutPage, CopyPage, RemovePage, MovePage,
      Outside

-----------------------------------------------------------------------------
(* Theorems                                                                *)

LinksInv == Shape /\ HeirsInv /\ GoneInv /\ HealInv

LEMMA LinksInvariant == Spec => []LinksInv
<1>1. Init => LinksInv
  <2> SUFFICES ASSUME Init PROVE LinksInv
    OBVIOUS
  <2>1. PICK S \in SUBSET Id : /\ pages = [i \in Id |-> IF i \in S THEN Blank ELSE None]
                               /\ born = S
    BY DEF Init
  <2>2. /\ rows = pages /\ away = [i \in Id |-> None] /\ afar = {} /\ op = Idle /\ calls = 0 /\ faults = 0
        /\ heirs = {} /\ gone = {} /\ heals = 0
    BY DEF Init
  <2>3. /\ op \in Ops /\ op.kind = "idle" /\ op.page = None /\ op.promise = {}
        /\ DOMAIN op.first = {} /\ DOMAIN op.then = {}
    BY <2>2, IdleIs, WritesAre
  <2>4. Shape
    BY <2>1, <2>2, <2>3, BlankIs, LinksAssumption DEF Shape, LinksAssumption, Indexed
  <2>5. HeirsInv  BY <2>2, <2>3 DEF HeirsInv, SupersessionRecorded, SavePromise
  <2>6. Indexed \subseteq born /\ Listed \subseteq born /\ Strayed \subseteq born
    BY <2>1, <2>2 DEF Indexed, Listed, Strayed
  <2>7. GoneInv  BY <2>2, <2>3, <2>6 DEF GoneInv, DeletePromise
  <2>8. HealInv  BY <2>2, <2>3 DEF HealInv
  <2> QED  BY <2>4, <2>5, <2>7, <2>8 DEF LinksInv
<1>2. LinksInv /\ [Next]_vars => LinksInv'
  BY ShapeStep, HeirsStep, GoneStep, HealStep DEF LinksInv
<1> QED  BY <1>1, <1>2, PTL DEF Spec

\* Types are kept by every command, crash and outside change.
THEOREM TypeCorrect == Spec => []TypeOK
<1>1. LinksInv => TypeOK
  <2> SUFFICES ASSUME Shape PROVE TypeOK
    BY DEF LinksInv
  <2>1. /\ op.kind \in Kinds /\ op.id \in Id \cup {None} /\ op.promise \subseteq Id
        /\ IsWrites(op.first) /\ IsWrites(op.then)
    BY WritesAre DEF Shape, Ops
  <2>2. op.page # None => op.page \in DOMAIN op.first \cup DOMAIN op.then
    BY DEF Shape, Batch
  <2> QED  BY <2>1, <2>2 DEF Shape, TypeOK, Kinds, Indexed
<1> QED  BY <1>1, LinksInvariant, PTL

\* A replacement that a complete save recorded stays readable from both sides, in
\* index and pages, through commands, crashes and heals (Engine.save, heal).
THEOREM ReplacementsRecorded == Spec => []SupersessionRecorded
<1>1. LinksInv => SupersessionRecorded  BY DEF LinksInv, HeirsInv
<1> QED  BY <1>1, LinksInvariant, PTL

\* Nothing mentions an entry whose delete found index and pages equal, until a
\* caller names the id again (Engine.delete).
THEOREM DeletedForgotten == Spec => []DeletedUnreferenced
<1>1. LinksInv => DeletedUnreferenced
  <2> SUFFICES ASSUME Shape, GoneInv PROVE DeletedUnreferenced
    BY DEF LinksInv
  <2>1. \A d \in gone : d \in Id /\ Clean(rows, d) /\ Clean(pages, d) /\ Clean(away, d)
    BY DEF GoneInv, Shape
  <2> QED  BY <2>1 DEF DeletedUnreferenced, Clean, Indexed, Listed, Strayed
<1> QED  BY <1>1, LinksInvariant, PTL

\* Two complete heals in a row give every page's entry its row, though the first may
\* have lost the row of a moved page, and a third makes all references point at entries
\* and carry their reverse links, as long as no entry has two pages (Engine.heal).
THEOREM ThreeHealsSettle == Spec => []HealsSettle
<1>1. LinksInv => HealsSettle
  <2> SUFFICES ASSUME Shape, HealInv, op = Idle PROVE HealsSettle
    BY DEF LinksInv, HealsSettle
  <2>1. op.kind = "idle" /\ op.page = None /\ heals \in 0..3  BY IdleIs DEF Shape
  <2>2. ASSUME heals >= 2, NEW i \in Id
        PROVE  rows[i] = Named(i) /\ (i \in Listed \cup Strayed => i \in Indexed)
    <3>1. /\ rows[i] # None => rows[i] = Named(i)
          /\ rows[i] = None => pages[i] = None /\ away[i] = None
      BY <2>1, <2>2, SomeId DEF HealInv
    <3> QED  BY <3>1 DEF Named, Listed, Strayed, Indexed
  <2>3. ASSUME heals = 3, Twins = {} PROVE Closed /\ Mirrored
    <3>1. Settled(rows)  BY <2>1, <2>3 DEF HealInv
    <3>2. \A i \in Indexed : i \in Id /\ rows[i] # None /\ RefsOf(rows[i]) \subseteq Id
      BY EntryIs DEF Indexed, Shape, RefsOf
    <3>3. Closed  BY <3>1, <3>2 DEF Closed, Settled, TableClosed, Indexed
    <3>4. Mirrored  BY <3>1, <3>2 DEF Mirrored, Settled, TableMirrored
    <3> QED  BY <3>3, <3>4
  <2> QED  BY <2>2, <2>3 DEF HealsSettle
<1> QED  BY <1>1, LinksInvariant, PTL
=============================================================================

------------------------- MODULE VectorIndex_proofs -------------------------
(***************************************************************************)
(* Proofs about VectorIndex, for every set of entries, texts, models and   *)
(* precisions and any number of calls, failures and crashes.               *)
(***************************************************************************)
EXTENDS VectorIndex, TLAPS

\* What the call in progress carries.
CallOK ==
    /\ pc # "idle" => call.by \in Leg
    /\ pc \in {"uncache", "untable", "cache", "mirror"} => call.entry \in Entry
    /\ (pc \in {"cache", "mirror"} \/ (pc \in {"uncache", "untable"} /\ call.op = "embed")) =>
           call.row \in Row /\ call.row.model = ModelOf[call.by.space]

Types == TypeOK /\ CallOK

USE IndexAssumption

\* None is no row, leg, space or model.
LEMMA NoneOutside ==
    /\ None \notin Row /\ None \notin Leg
    /\ None \notin Space /\ None \notin Model
  BY DEF Row, Value, Leg

\* A chunk is its text and its number.
LEMMA ChunkParts ==
    ASSUME NEW c \in Chunk
    PROVE  c[1] \in Entry /\ c[2] \in Index /\ c[2] \in Nat /\ c = <<c[1], c[2]>>
  BY DEF Chunk, Index

\* Every entry has a first chunk.
LEMMA FirstChunk ==
    ASSUME NEW e \in Entry, NEW t \in Text
    PROVE  0 \in Index /\ <<e, 0>> \in Chunk /\ 0 < Chunks[t]
<1>1. Chunks[t] \in Nat \ {0}
  OBVIOUS
<1>2. 0 \in 0..(Chunks[t] - 1)
  BY <1>1
<1> QED
  BY <1>1, <1>2 DEF Index, Chunk

-----------------------------------------------------------------------------
(* Types                                                                   *)

\* Types hold initially.
LEMMA InitTypes == Init => Types
<1> SUFFICES ASSUME Init PROVE TypeOK /\ CallOK
  BY DEF Types
<1>1. TypeOK
  BY DEF Init, TypeOK, Empty, NoCall, Step
<1>2. CallOK
  BY DEF Init, CallOK
<1> QED
  BY <1>1, <1>2

\* The start of a call by l keeps the types of call and pc.
LEMMA BeginTypes ==
    ASSUME Types, NEW l \in Leg, NEW o \in {"open", "embed", "drop", "refresh", "clear", "rebuild"},
           NEW e \in Entry \cup {None}, NEW r \in Row \cup {None}, NEW s \in Step,
           Begin(l, o, e, r, s),
           s \in {"uncache", "cache"} => e \in Entry,
           s \notin {"untable", "mirror"},
           s = "cache" \/ (s = "uncache" /\ o = "embed") =>
               r \in Row /\ r.model = ModelOf[l.space]
    PROVE  /\ call' \in [by : Leg \cup {None}, op : {"none", "open", "embed", "drop", "refresh",
                         "clear", "rebuild", "ensure"}, entry : Entry \cup {None}, row : Row \cup {None}]
           /\ pc' \in Step
           /\ CallOK'
<1>1. pc' = s
  BY DEF Begin
<1>2. CASE s = "idle"
  <2>1. call' = NoCall
    BY <1>2 DEF Begin
  <2> QED
    BY <1>1, <1>2, <2>1 DEF NoCall, CallOK
<1>3. CASE s # "idle"
  <2>1. call' = [by |-> l, op |-> o, entry |-> e, row |-> r]
    BY <1>3 DEF Begin
  <2> QED
    BY <1>1, <1>3, <2>1 DEF CallOK
<1> QED
  BY <1>2, <1>3

\* A leg that is used is one of the two.
LEMMA UsedLeg ==
    ASSUME TypeOK, NEW l \in {leg, late}, Uses(l)
    PROVE  l \in Leg /\ late' \in Leg \cup {None}
  BY DEF TypeOK, Uses

\* A row for a new vector is a row.
LEMMA NewRowTyped ==
    ASSUME NEW l \in Leg, NEW t \in Text, NEW x \in Meta
    PROVE  NewRow(l, t, x) \in Row /\ NewRow(l, t, x).model = ModelOf[l.space]
  BY DEF NewRow, Leg, Row, Value

\* Every step keeps types.
LEMMA NextTypes == Types /\ [Next]_vars => Types'
<1> SUFFICES ASSUME Types, [Next]_vars PROVE Types'
  OBVIOUS
<1> USE DEF Types
<1>1. ASSUME NEW s \in Space, NEW b \in {"js", "vec"}, Open(s, b) PROVE Types'
  <2>1. leg' \in Leg
    BY <1>1 DEF Open, Leg
  <2>2. Begin(leg', "open", None, None, IF b = "js" \/ marker = s THEN "idle" ELSE "drop")
    BY <1>1 DEF Open
  <2>3. (IF b = "js" \/ marker = s THEN "idle" ELSE "drop") \in Step \ {"uncache", "cache", "untable", "mirror"}
    BY DEF Step
  <2> HIDE DEF Types
  <2>4. CallOK' /\ pc' \in Step /\ call' \in [by : Leg \cup {None}, op : {"none", "open", "embed", "drop", "refresh",
                         "clear", "rebuild", "ensure"}, entry : Entry \cup {None}, row : Row \cup {None}]
    BY <2>1, <2>2, <2>3, BeginTypes
  <2> QED
    BY <1>1, <2>1, <2>4 DEF Open, Types, TypeOK
<1>2. ASSUME Close PROVE Types'
  BY <1>2 DEF Close, TypeOK, CallOK, Idle
<1>3. ASSUME NEW l \in {leg, late}, NEW e \in Entry, NEW t \in Text, NEW x \in Meta, Embed(l, e, t, x) PROVE Types'
  <2>1. l \in Leg /\ late' \in Leg \cup {None}
    BY <1>3, UsedLeg DEF Embed
  <2> DEFINE r == NewRow(l, t, x)
  <2>2. r \in Row /\ r.model = ModelOf[l.space]
    BY <2>1, NewRowTyped
  <2>3. Begin(l, "embed", e, r, "uncache")
    BY <1>3 DEF Embed
  <2>4. "uncache" \in Step
    BY DEF Step
  <2> HIDE DEF Types, r
  <2>5. CallOK' /\ pc' \in Step /\ call' \in [by : Leg \cup {None}, op : {"none", "open", "embed", "drop", "refresh",
                         "clear", "rebuild", "ensure"}, entry : Entry \cup {None}, row : Row \cup {None}]
    BY <2>1, <2>2, <2>3, <2>4, BeginTypes
  <2> QED
    BY <1>3, <2>1, <2>5 DEF Embed, Types, TypeOK
<1>4. ASSUME NEW l \in {leg, late}, NEW e \in Entry, Drop(l, e) PROVE Types'
  <2>1. l \in Leg /\ late' \in Leg \cup {None}
    BY <1>4, UsedLeg DEF Drop
  <2>2. Begin(l, "drop", e, None, "uncache")
    BY <1>4 DEF Drop
  <2>3. "uncache" \in Step
    BY DEF Step
  <2> HIDE DEF Types
  <2>4. CallOK' /\ pc' \in Step /\ call' \in [by : Leg \cup {None}, op : {"none", "open", "embed", "drop", "refresh",
                         "clear", "rebuild", "ensure"}, entry : Entry \cup {None}, row : Row \cup {None}]
    BY <2>1, <2>2, <2>3, BeginTypes
  <2> QED
    BY <1>4, <2>1, <2>4 DEF Drop, Types, TypeOK
<1>5. ASSUME NEW l \in {leg, late}, NEW e \in Entry, NEW x \in Meta, Refresh(l, e, x) PROVE Types'
  <2>1. l \in Leg /\ late' \in Leg \cup {None}
    BY <1>5, UsedLeg DEF Refresh
  <2> DEFINE r == NewRow(l, cache[<<e, 0>>].value.text, x)
  <2>2. r \in Row /\ r.model = ModelOf[l.space]
    <3>1. cache[<<e, 0>>] \in Row
      BY <1>5, FirstChunk DEF Refresh, TypeOK
    <3> QED
      BY <2>1, <3>1, NewRowTyped DEF Row, Value
  <2>3. Begin(l, "refresh", e, r, "cache")
    BY <1>5 DEF Refresh
  <2>4. "cache" \in Step
    BY DEF Step
  <2> HIDE DEF Types, r
  <2>5. CallOK' /\ pc' \in Step /\ call' \in [by : Leg \cup {None}, op : {"none", "open", "embed", "drop", "refresh",
                         "clear", "rebuild", "ensure"}, entry : Entry \cup {None}, row : Row \cup {None}]
    BY <2>1, <2>2, <2>3, <2>4, BeginTypes
  <2> QED
    BY <1>5, <2>1, <2>5 DEF Refresh, Types, TypeOK
<1>6. ASSUME Clear PROVE Types'
  <2>1. leg \in Leg /\ Begin(leg, "clear", None, None, "wipe") /\ "wipe" \in Step
    BY <1>6 DEF Clear, TypeOK, Step
  <2> HIDE DEF Types
  <2>2. CallOK' /\ pc' \in Step /\ call' \in [by : Leg \cup {None}, op : {"none", "open", "embed", "drop", "refresh",
                         "clear", "rebuild", "ensure"}, entry : Entry \cup {None}, row : Row \cup {None}]
    BY <2>1, BeginTypes
  <2> QED
    BY <1>6, <2>2 DEF Clear, Types, TypeOK
<1>7. ASSUME Rebuild PROVE Types'
  <2>1. leg \in Leg /\ Begin(leg, "rebuild", None, None, "drop") /\ "drop" \in Step
    BY <1>7 DEF Rebuild, TypeOK, Step
  <2> HIDE DEF Types
  <2>2. CallOK' /\ pc' \in Step /\ call' \in [by : Leg \cup {None}, op : {"none", "open", "embed", "drop", "refresh",
                         "clear", "rebuild", "ensure"}, entry : Entry \cup {None}, row : Row \cup {None}]
    BY <2>1, BeginTypes
  <2> QED
    BY <1>7, <2>2 DEF Rebuild, Types, TypeOK
<1>8. ASSUME Uncache PROVE Types'
  BY <1>8 DEF Uncache, Run, Without, Mirrors, Mirrored, TypeOK, CallOK, NoCall, Step, Leg
<1>9. ASSUME Untable PROVE Types'
  BY <1>9 DEF Untable, Run, Without, TypeOK, CallOK, NoCall, Step, Leg
<1>10. ASSUME CacheRows PROVE Types'
  BY <1>10 DEF CacheRows, Run, With, Mirrors, Mirrored, TypeOK, CallOK, NoCall, Step, Leg
<1>11. ASSUME MirrorRows PROVE Types'
  BY <1>11 DEF MirrorRows, Run, With, TypeOK, CallOK, NoCall, Step, Leg
<1>12. ASSUME Wipe PROVE Types'
  BY <1>12 DEF Wipe, Run, Mirrored, Empty, TypeOK, CallOK, NoCall, Step, Leg
<1>13. ASSUME DropTable PROVE Types'
  BY <1>13 DEF DropTable, Run, Empty, TypeOK, CallOK, NoCall, Step, Leg
<1>14. ASSUME Unmark PROVE Types'
  BY <1>14 DEF Unmark, Run, TypeOK, CallOK, NoCall, Step, Leg
<1>15. ASSUME CreateTable PROVE Types'
  BY <1>15 DEF CreateTable, Run, Empty, TypeOK, CallOK, NoCall, Step, Leg
<1>16. ASSUME Mark PROVE Types'
  BY <1>16 DEF Mark, Run, TypeOK, CallOK, NoCall, Step, Leg
<1>17. ASSUME Fill PROVE Types'
  BY <1>17 DEF Fill, Run, Mirror, TypeOK, CallOK, NoCall, Step, Leg
<1>18. ASSUME Throw PROVE Types'
  BY <1>18 DEF Throw, Abort, Idle, TypeOK, CallOK, NoCall, Step, Leg
<1>19. ASSUME ClearFails PROVE Types'
  BY <1>19 DEF ClearFails, TypeOK, CallOK, NoCall, Step, Leg
<1>20. ASSUME Crash PROVE Types'
  BY <1>20 DEF Crash, Idle, TypeOK, CallOK, NoCall, Step, Leg
<1>21. ASSUME UNCHANGED vars PROVE Types'
  BY <1>21 DEF vars, TypeOK, CallOK
<1> QED
  BY <1>1, <1>2, <1>3, <1>4, <1>5, <1>6, <1>7, <1>8, <1>9, <1>10, <1>11, <1>12, <1>13,
     <1>14, <1>15, <1>16, <1>17, <1>18, <1>19, <1>20, <1>21 DEF Next

-----------------------------------------------------------------------------
(* The table                                                               *)

\* Chunks of the entry being written that the table does not show yet.
InFlux(c) ==
    /\ c[1] = call.entry
    /\ \/ pc = "untable"
       \/ pc = "mirror" /\ c[2] < Chunks[call.row.value.text]

\* The table agrees with the cache outside the entry being written.
Agrees ==
    (clean /\ marker # None) =>
        hasTable /\ \A c \in Chunk : InFlux(c) \/ table[c] = Mirror(marker)[c]

\* What holds between the statements of a call.
Steps ==
    /\ pc \in {"unmark", "create", "mark", "fill"} => ~clean
    /\ pc \in {"mark", "fill"} => hasTable
    /\ pc = "fill" => marker = call.by.space
    /\ (pc \in {"untable", "mirror"} /\ clean) => call.by.space = marker
    /\ pc = "untable" => \A c \in Chunk : c[1] = call.entry => cache[c] = None
    /\ pc = "mirror" =>
           \A c \in Chunk : (c[1] = call.entry /\ c[2] < Chunks[call.row.value.text]) =>
               cache[c] = call.row

TableInv == Types /\ Agrees /\ Steps

\* The invariant holds initially: cache and table are empty.
LEMMA InitTable == Init => TableInv
  BY InitTypes DEF Init, TableInv, Agrees, Steps

\* The mirror of a cache, one chunk at a time.
LEMMA MirrorAt ==
    ASSUME NEW s, NEW c \in Chunk
    PROVE  Mirror(s)[c] = IF cache[c] # None /\ cache[c].model = ModelOf[s] THEN cache[c] ELSE None
  BY DEF Mirror

\* A step that leaves cache, table and marker alone and no statement in between.
LEMMA Aside ==
    ASSUME TableInv, Types', UNCHANGED <<cache, table, hasTable, marker>>,
           pc \notin {"untable", "mirror"}, pc' \notin {"untable", "mirror", "unmark", "create", "mark", "fill"},
           clean' => clean
    PROVE  TableInv'
<1>1. Agrees'
  BY DEF TableInv, Agrees, InFlux, Mirror
<1>2. Steps'
  BY DEF Steps
<1> QED
  BY <1>1, <1>2 DEF TableInv

\* A step after which the history says nothing.
LEMMA Unclean ==
    ASSUME Types', ~clean', pc' \notin {"untable", "mirror", "mark", "fill"}
    PROVE  TableInv'
  BY DEF TableInv, Agrees, Steps

\* The start of a call touches neither cache nor table.
LEMMA BeginAside ==
    ASSUME NEW l, NEW o, NEW e, NEW r, NEW s, Begin(l, o, e, r, s)
    PROVE  pc = "idle" /\ pc' = s
  BY DEF Begin, Idle

\* Every step keeps the invariant of the table.
LEMMA NextTable == TableInv /\ [Next]_vars => TableInv'
<1> SUFFICES ASSUME TableInv, [Next]_vars PROVE TableInv'
  OBVIOUS
<1>0. Types'
  BY NextTypes DEF TableInv
<1>t. Types
  BY DEF TableInv
<1>1. ASSUME NEW s \in Space, NEW b \in {"js", "vec"}, Open(s, b) PROVE TableInv'
  <2>1. pc = "idle" /\ pc' \in {"idle", "drop"}
    BY <1>1 DEF Open, Begin, Idle
  <2> QED
    BY <1>0, <1>1, <2>1, Aside DEF Open
<1>2. ASSUME Close PROVE TableInv'
  BY <1>0, <1>2, Aside DEF Close, Idle
<1>3. ASSUME NEW l \in {leg, late}, NEW e \in Entry, NEW t \in Text, NEW x \in Meta, Embed(l, e, t, x) PROVE TableInv'
  BY <1>0, <1>3, Aside, BeginAside DEF Embed
<1>4. ASSUME NEW l \in {leg, late}, NEW e \in Entry, Drop(l, e) PROVE TableInv'
  BY <1>0, <1>4, Aside, BeginAside DEF Drop
<1>5. ASSUME NEW l \in {leg, late}, NEW e \in Entry, NEW x \in Meta, Refresh(l, e, x) PROVE TableInv'
  BY <1>0, <1>5, Aside, BeginAside DEF Refresh
<1>6. ASSUME Clear PROVE TableInv'
  BY <1>0, <1>6, Aside, BeginAside DEF Clear
<1>7. ASSUME Rebuild PROVE TableInv'
  BY <1>0, <1>7, Aside, BeginAside DEF Rebuild
<1>8. ASSUME Uncache PROVE TableInv'
  <2>1. CASE ~clean'
    <3>1. pc' = "untable" => \A c \in Chunk : c[1] = call'.entry => cache'[c] = None
      BY <1>8 DEF Uncache, Run, Without
    <3>2. pc' \in {"untable", "cache", "idle"}
      BY <1>8 DEF Uncache, Run
    <3> QED
      BY <1>0, <2>1, <3>1, <3>2 DEF TableInv, Agrees, Steps
  <2>2. CASE clean'
    <3>1. clean /\ Mirrors /\ pc' = "untable" /\ call' = call /\ pc = "uncache"
      BY <1>8, <2>2 DEF Uncache, Run, Mirrors, Mirrored
    <3>2. \A c \in Chunk : cache'[c] = IF c[1] = call.entry THEN None ELSE cache[c]
      BY <1>8 DEF Uncache, Without
    <3>3. Steps'
      BY <1>8, <3>1, <3>2 DEF Steps, Uncache, Mirrors
    <3>4. Agrees'
      <4> SUFFICES ASSUME marker # None
                   PROVE  hasTable /\ \A c \in Chunk : InFlux(c)' \/ table[c] = (Mirror(marker)[c])'
        BY <1>8 DEF Agrees, Uncache
      <4>1. hasTable /\ \A c \in Chunk : table[c] = Mirror(marker)[c]
        BY <3>1 DEF TableInv, Agrees, InFlux
      <4>2. ASSUME NEW c \in Chunk PROVE InFlux(c)' \/ table[c] = (Mirror(marker)[c])'
        BY <1>8, <3>1, <3>2, <4>1, MirrorAt DEF InFlux, Mirror, Uncache
      <4> QED
        BY <4>1, <4>2
    <3> QED
      BY <1>0, <3>3, <3>4 DEF TableInv
  <2>3. clean' \in BOOLEAN
    BY <1>0 DEF Types, TypeOK
  <2> QED
    BY <2>1, <2>2, <2>3
<1>9. ASSUME Untable PROVE TableInv'
  <2>1. pc = "untable" /\ pc' \in {"cache", "idle"} /\ UNCHANGED <<cache, hasTable, marker, clean>>
    BY <1>9 DEF Untable, Run
  <2>2. \A c \in Chunk : table'[c] = IF c[1] = call.entry THEN None ELSE table[c]
    BY <1>9 DEF Untable, Without
  <2>3. Steps'
    BY <2>1 DEF Steps
  <2>4. Agrees'
    <3> SUFFICES ASSUME clean, marker # None
                 PROVE  hasTable /\ \A c \in Chunk : table'[c] = Mirror(marker)[c]
      BY <2>1 DEF Agrees, Mirror
    <3>1. hasTable /\ \A c \in Chunk : InFlux(c) \/ table[c] = Mirror(marker)[c]
      BY DEF TableInv, Agrees
    <3>2. \A c \in Chunk : c[1] = call.entry => cache[c] = None
      BY <2>1 DEF TableInv, Steps
    <3>3. ASSUME NEW c \in Chunk PROVE table'[c] = Mirror(marker)[c]
      BY <2>1, <2>2, <3>1, <3>2, MirrorAt DEF InFlux
    <3> QED
      BY <3>1, <3>3
  <2> QED
    BY <1>0, <2>3, <2>4 DEF TableInv
<1>10. ASSUME CacheRows PROVE TableInv'
  <2>1. pc = "cache" /\ pc' \in {"mirror", "idle"}
    BY <1>10 DEF CacheRows, Run
  <2>2. \A c \in Chunk : cache'[c] = IF c[1] = call.entry /\ c[2] < Chunks[call.row.value.text]
                                    THEN call.row ELSE cache[c]
    BY <1>10 DEF CacheRows, With
  <2>3. pc' = "mirror" => call' = call
    BY <1>10 DEF CacheRows, Run
  <2>4. Steps'
    BY <1>10, <2>1, <2>2, <2>3 DEF Steps, CacheRows, Mirrors
  <2>5. Agrees'
    <3> SUFFICES ASSUME clean', marker # None
                 PROVE  hasTable /\ \A c \in Chunk : InFlux(c)' \/ table[c] = (Mirror(marker)[c])'
      BY <1>10 DEF Agrees, CacheRows
    <3>1. clean /\ Mirrors /\ pc' = "mirror" /\ call' = call
      BY <1>10 DEF CacheRows, Run, Mirrors, Mirrored
    <3>2. hasTable /\ \A c \in Chunk : table[c] = Mirror(marker)[c]
      BY <2>1, <3>1 DEF TableInv, Agrees, InFlux
    <3>3. ASSUME NEW c \in Chunk PROVE InFlux(c)' \/ table[c] = (Mirror(marker)[c])'
      BY <1>10, <2>2, <3>1, <3>2, MirrorAt DEF InFlux, Mirror, CacheRows
    <3> QED
      BY <3>2, <3>3
  <2> QED
    BY <1>0, <2>4, <2>5 DEF TableInv
<1>11. ASSUME MirrorRows PROVE TableInv'
  <2>1. pc = "mirror" /\ pc' = "idle" /\ UNCHANGED <<cache, hasTable, marker, clean>>
    BY <1>11 DEF MirrorRows, Run
  <2>2. \A c \in Chunk : table'[c] = IF c[1] = call.entry /\ c[2] < Chunks[call.row.value.text]
                                    THEN call.row ELSE table[c]
    BY <1>11 DEF MirrorRows, With
  <2>3. Steps'
    BY <2>1 DEF Steps
  <2>4. Agrees'
    <3> SUFFICES ASSUME clean, marker # None
                 PROVE  hasTable /\ \A c \in Chunk : table'[c] = Mirror(marker)[c]
      BY <2>1 DEF Agrees, Mirror
    <3>1. hasTable /\ \A c \in Chunk : InFlux(c) \/ table[c] = Mirror(marker)[c]
      BY DEF TableInv, Agrees
    <3>2. call.row \in Row /\ call.row.model = ModelOf[marker] /\ call.row # None
      BY <1>t, <2>1, NoneOutside DEF TableInv, Steps, Types, CallOK
    <3>3. \A c \in Chunk : (c[1] = call.entry /\ c[2] < Chunks[call.row.value.text]) => cache[c] = call.row
      BY <2>1 DEF TableInv, Steps
    <3>4. ASSUME NEW c \in Chunk PROVE table'[c] = Mirror(marker)[c]
      BY <2>1, <2>2, <3>1, <3>2, <3>3, MirrorAt DEF InFlux
    <3> QED
      BY <3>1, <3>4
  <2> QED
    BY <1>0, <2>3, <2>4 DEF TableInv
<1>12. ASSUME Wipe PROVE TableInv'
  BY <1>0, <1>12, Unclean DEF Wipe, Run
<1>13. ASSUME DropTable PROVE TableInv'
  BY <1>0, <1>13, Unclean DEF DropTable, Run
<1>14. ASSUME Unmark PROVE TableInv'
  BY <1>0, <1>14, Unclean DEF Unmark, Run, TableInv, Steps
<1>15. ASSUME CreateTable PROVE TableInv'
  <2>1. pc' = "mark" /\ hasTable' /\ ~clean'
    BY <1>15 DEF CreateTable, Run, TableInv, Steps
  <2> QED
    BY <1>0, <2>1 DEF TableInv, Agrees, Steps
<1>16. ASSUME Mark PROVE TableInv'
  <2>1. pc' = "fill" /\ hasTable' /\ ~clean' /\ marker' = call.by.space /\ call' = call
    BY <1>16 DEF Mark, Run, TableInv, Steps
  <2> QED
    BY <1>0, <2>1 DEF TableInv, Agrees, Steps
<1>17. ASSUME Fill PROVE TableInv'
  <2>1. pc' = "idle" /\ hasTable' /\ marker' = call.by.space /\ table' = Mirror(marker) /\ UNCHANGED <<cache, marker>>
    BY <1>17 DEF Fill, Run, TableInv, Steps
  <2>2. Agrees'
    BY <2>1 DEF Agrees, Mirror
  <2>3. Steps'
    BY <2>1 DEF Steps
  <2> QED
    BY <1>0, <2>2, <2>3 DEF TableInv
<1>18. ASSUME Throw PROVE TableInv'
  BY <1>0, <1>18, Unclean DEF Throw, Abort
<1>19. ASSUME ClearFails PROVE TableInv'
  BY <1>0, <1>19, Unclean DEF ClearFails
<1>20. ASSUME Crash PROVE TableInv'
  <2>1. CASE Idle
    BY <1>0, <1>20, <2>1, Aside DEF Crash, Idle
  <2>2. CASE ~Idle
    BY <1>0, <1>20, <2>2, Unclean DEF Crash
  <2> QED
    BY <2>1, <2>2
<1>21. ASSUME UNCHANGED vars PROVE TableInv'
  BY <1>0, <1>21 DEF vars, TableInv, Agrees, Steps, InFlux, Mirror
<1> QED
  BY <1>1, <1>2, <1>3, <1>4, <1>5, <1>6, <1>7, <1>8, <1>9, <1>10, <1>11, <1>12, <1>13,
     <1>14, <1>15, <1>16, <1>17, <1>18, <1>19, <1>20, <1>21 DEF Next

\* Every reachable state of the index is well typed.
\* (VectorCache and SqliteVecIndex with createVectorIndex, embedEntries and repair.)
THEOREM TypeCorrect == Spec => []TypeOK
<1>1. Types => TypeOK
  BY DEF Types
<1> QED
  BY InitTypes, NextTypes, <1>1, PTL DEF Spec

\* Whenever no call is in progress and every writer since the table was filled mirrored
\* its writes, the table holds exactly the cached rows of the model it was made for.
\* (ensureTable, write, remove, clear and rebuildAnn of SqliteVecIndex.)
THEOREM TableFollows == Spec => []MirrorFollows
<1>1. TableInv => MirrorFollows
  <2> SUFFICES ASSUME TableInv, Idle, clean, marker # None
               PROVE  hasTable /\ table = Mirror(marker)
    BY DEF MirrorFollows
  <2>1. hasTable /\ \A c \in Chunk : table[c] = Mirror(marker)[c]
    BY DEF TableInv, Agrees, InFlux, Idle
  <2>2. table = [c \in Chunk |-> table[c]]
    BY DEF TableInv, Types, TypeOK
  <2>3. Mirror(marker) = [c \in Chunk |-> Mirror(marker)[c]]
    BY DEF Mirror
  <2> QED
    BY <2>1, <2>2, <2>3
<1> QED
  BY InitTable, NextTable, <1>1, PTL DEF Spec

-----------------------------------------------------------------------------
(* The cache implements VectorMap                                          *)

Bare(e) == \A i \in Index : cache[<<e, i>>] = None

\* An entry is stored as a whole or not at all, and what a call is about to write fits
\* what is there.
Whole ==
    /\ \A e \in Entry : Bare(e) \/ \E r \in Row : Holds(e, r)
    /\ (pc = "untable" /\ call.op = "embed") => Bare(call.entry)
    /\ pc = "cache" =>
           \/ Bare(call.entry)
           \/ \E r \in Row : Holds(call.entry, r) /\ r.value.text = call.row.value.text

WholeInv == Types /\ Whole

\* A pair of text and number is a chunk.
LEMMA PairChunk ==
    ASSUME NEW e \in Entry, NEW i \in Index
    PROVE  <<e, i>> \in Chunk /\ i \in Nat
  BY DEF Chunk, Index

\* The row of an entry is the one its first chunk has.
LEMMA HoldsOne ==
    ASSUME NEW e \in Entry, NEW r \in Row, Holds(e, r)
    PROVE  cache[<<e, 0>>] = r /\ ~Bare(e)
<1>1. 0 \in Index /\ 0 < Chunks[r.value.text]
  BY FirstChunk DEF Row, Value
<1> QED
  BY <1>1, NoneOutside DEF Holds, Bare

\* An entry without rows is stored as nothing.
LEMMA StoredBare ==
    ASSUME NEW e \in Entry, Bare(e)
    PROVE  Stored[e] = None
  BY DEF Stored, Bare

\* An entry with rows is stored as the row they share.
LEMMA StoredRow ==
    ASSUME NEW e \in Entry, NEW r \in Row, Holds(e, r)
    PROVE  Stored[e] = r
<1>1. ~Bare(e)
  BY HoldsOne
<1>2. Stored[e] = CHOOSE q \in Row : Holds(e, q)
  BY <1>1 DEF Stored, Bare
<1>3. (CHOOSE q \in Row : Holds(e, q)) \in Row /\ Holds(e, CHOOSE q \in Row : Holds(e, q))
  OBVIOUS
<1> QED
  BY <1>2, <1>3, HoldsOne

\* An entry none of whose chunks a step changes stays what it was.
LEMMA SameEntry ==
    ASSUME NEW e \in Entry, \A i \in Index : cache'[<<e, i>>] = cache[<<e, i>>]
    PROVE  /\ Bare(e)' <=> Bare(e)
           /\ \A r \in Row : Holds(e, r)' <=> Holds(e, r)
           /\ Stored'[e] = Stored[e]
<1>1. Bare(e)' <=> Bare(e)
  BY DEF Bare
<1>2. \A r \in Row : Holds(e, r)' <=> Holds(e, r)
  BY DEF Holds
<1>3. Stored'[e] = Stored[e]
  BY <1>1, <1>2 DEF Stored, Bare
<1> QED
  BY <1>1, <1>2, <1>3

\* The invariant of the refinement holds initially.
LEMMA InitWhole == Init => WholeInv
<1> SUFFICES ASSUME Init PROVE Whole
  BY InitTypes DEF WholeInv
<1>1. \A e \in Entry : Bare(e)
  BY PairChunk DEF Init, Empty, Bare
<1> QED
  BY <1>1 DEF Whole, Init

\* A step that changes no row.
LEMMA NoRows ==
    ASSUME WholeInv, Types', cache' = cache, pc' \notin {"untable", "cache"}
    PROVE  WholeInv'
<1>1. \A e \in Entry : Bare(e)' \/ \E r \in Row : Holds(e, r)'
  BY DEF WholeInv, Whole, Bare, Holds
<1> QED
  BY <1>1 DEF WholeInv, Whole

\* Writing the rows of a text leaves them and nothing else of its entry.
LEMMA CacheWrites ==
    ASSUME WholeInv, CacheRows
    PROVE  \E e \in Entry, r \in Row :
               /\ Holds(e, r)'
               /\ \A f \in Entry \ {e} : \A i \in Index : cache'[<<f, i>>] = cache[<<f, i>>]
<1>1. PICK e \in Entry, r \in Row : e = call.entry /\ r = call.row
  BY DEF CacheRows, Run, WholeInv, Types, CallOK
<1>2. \A c \in Chunk : cache'[c] = IF c[1] = e /\ c[2] < Chunks[r.value.text] THEN r ELSE cache[c]
  BY <1>1 DEF CacheRows, With
<1>3. ASSUME NEW i \in Index PROVE i < Chunks[r.value.text] \/ cache[<<e, i>>] = None
  <2>1. CASE Bare(e)
    BY <2>1 DEF Bare
  <2>2. CASE ~Bare(e)
    <3>1. PICK q \in Row : Holds(e, q) /\ q.value.text = r.value.text
      BY <1>1, <2>2 DEF CacheRows, Run, WholeInv, Whole
    <3> QED
      BY <3>1 DEF Holds
  <2> QED
    BY <2>1, <2>2
<1>4. Holds(e, r)'
  BY <1>2, <1>3, PairChunk DEF Holds
<1>5. ASSUME NEW f \in Entry \ {e}, NEW i \in Index PROVE cache'[<<f, i>>] = cache[<<f, i>>]
  BY <1>2, PairChunk
<1> QED
  BY <1>4, <1>5

\* Every step keeps entries whole in the cache.
LEMMA NextWhole == WholeInv /\ [Next]_vars => WholeInv'
<1> SUFFICES ASSUME WholeInv, [Next]_vars PROVE WholeInv'
  OBVIOUS
<1>0. Types'
  BY NextTypes DEF WholeInv
<1>t. Types
  BY DEF WholeInv
<1>1. ASSUME NEW s \in Space, NEW b \in {"js", "vec"}, Open(s, b) PROVE WholeInv'
  <2>1. pc' \in {"idle", "drop"}
    BY <1>1 DEF Open, Begin
  <2> QED
    BY <1>0, <1>1, <2>1, NoRows DEF Open
<1>2. ASSUME Close PROVE WholeInv'
  BY <1>0, <1>2, NoRows DEF Close, Idle
<1>3. ASSUME NEW l \in {leg, late}, NEW e \in Entry, NEW t \in Text, NEW x \in Meta, Embed(l, e, t, x) PROVE WholeInv'
  BY <1>0, <1>3, NoRows, BeginAside DEF Embed
<1>4. ASSUME NEW l \in {leg, late}, NEW e \in Entry, Drop(l, e) PROVE WholeInv'
  BY <1>0, <1>4, NoRows, BeginAside DEF Drop
<1>5. ASSUME NEW l \in {leg, late}, NEW e \in Entry, NEW x \in Meta, Refresh(l, e, x) PROVE WholeInv'
  <2> DEFINE q == NewRow(l, cache[<<e, 0>>].value.text, x)
  <2>1. pc' = "cache" /\ call' = [by |-> l, op |-> "refresh", entry |-> e, row |-> q] /\ cache' = cache
    BY <1>5 DEF Refresh, Begin
  <2>2. PICK r \in Row : Holds(e, r)
    <3>1. ~Bare(e)
      BY <1>5, FirstChunk DEF Refresh, Bare
    <3> QED
      BY <3>1 DEF WholeInv, Whole
  <2>3. q.value.text = r.value.text
    BY <2>2, HoldsOne DEF NewRow
  <2>4. Holds(e, r)'
    BY <2>1, <2>2 DEF Holds
  <2>5. \A f \in Entry : Bare(f)' \/ \E p \in Row : Holds(f, p)'
    BY <2>1 DEF WholeInv, Whole, Bare, Holds
  <2>6. call'.entry = e /\ call'.row.value.text = r.value.text
    BY <2>1, <2>3
  <2> HIDE DEF q
  <2>7. Whole'
    BY <2>1, <2>4, <2>5, <2>6 DEF Whole
  <2> QED
    BY <1>0, <2>7 DEF WholeInv
<1>6. ASSUME Clear PROVE WholeInv'
  BY <1>0, <1>6, NoRows, BeginAside DEF Clear
<1>7. ASSUME Rebuild PROVE WholeInv'
  BY <1>0, <1>7, NoRows, BeginAside DEF Rebuild
<1>8. ASSUME Uncache PROVE WholeInv'
  <2>1. \A c \in Chunk : cache'[c] = IF c[1] = call.entry THEN None ELSE cache[c]
    BY <1>8 DEF Uncache, Without
  <2>2. PICK e \in Entry : e = call.entry
    BY <1>8, <1>t DEF Uncache, Run, Types, CallOK
  <2>3. Bare(e)'
    BY <2>1, <2>2, PairChunk DEF Bare
  <2>4. ASSUME NEW f \in Entry, f # e PROVE Bare(f)' \/ \E r \in Row : Holds(f, r)'
    <3>1. \A i \in Index : cache'[<<f, i>>] = cache[<<f, i>>]
      BY <2>1, <2>2, <2>4, PairChunk
    <3> QED
      BY <3>1, SameEntry DEF WholeInv, Whole
  <2>5. pc' \in {"untable", "cache"} => call'.entry = e
    BY <1>8, <2>2 DEF Uncache, Run
  <2>6. pc' \in {"untable", "cache"} => Bare(call.entry)'
    BY <2>3, <2>5 DEF Bare
  <2>7. \A f \in Entry : Bare(f)' \/ \E r \in Row : Holds(f, r)'
    BY <2>3, <2>4
  <2>8. Whole'
    BY <2>6, <2>7 DEF Whole
  <2> QED
    BY <1>0, <2>8 DEF WholeInv
<1>9. ASSUME Untable PROVE WholeInv'
  <2>1. pc = "untable" /\ cache' = cache
    BY <1>9 DEF Untable, Run
  <2>2. CASE call.op = "embed"
    <3>1. pc' = "cache" /\ call' = call
      BY <1>9, <2>2 DEF Untable, Run
    <3>2. Bare(call.entry)
      BY <2>1, <2>2 DEF WholeInv, Whole
    <3>3. \A f \in Entry : Bare(f)' \/ \E p \in Row : Holds(f, p)'
      BY <2>1 DEF WholeInv, Whole, Bare, Holds
    <3>4. Whole'
      BY <2>1, <3>1, <3>2, <3>3 DEF Whole, Bare
    <3> QED
      BY <1>0, <3>4 DEF WholeInv
  <2>3. CASE call.op # "embed"
    BY <1>0, <1>9, <2>1, <2>3, NoRows DEF Untable, Run
  <2> QED
    BY <2>2, <2>3
<1>10. ASSUME CacheRows PROVE WholeInv'
  <2>1. PICK e \in Entry, r \in Row :
            Holds(e, r)' /\ \A f \in Entry \ {e} : \A i \in Index : cache'[<<f, i>>] = cache[<<f, i>>]
    BY <1>10, CacheWrites
  <2>2. ASSUME NEW f \in Entry, f # e PROVE Bare(f)' \/ \E q \in Row : Holds(f, q)'
    BY <2>1, <2>2, SameEntry DEF WholeInv, Whole
  <2>3. pc' \in {"mirror", "idle"}
    BY <1>10 DEF CacheRows, Run
  <2>4. \A f \in Entry : Bare(f)' \/ \E q \in Row : Holds(f, q)'
    BY <2>1, <2>2
  <2>5. Whole'
    BY <2>3, <2>4 DEF Whole
  <2> QED
    BY <1>0, <2>5 DEF WholeInv
<1>11. ASSUME MirrorRows PROVE WholeInv'
  BY <1>0, <1>11, NoRows DEF MirrorRows, Run
<1>12. ASSUME Wipe PROVE WholeInv'
  <2>1. \A e \in Entry : Bare(e)'
    BY <1>12, PairChunk DEF Wipe, Empty, Bare
  <2>2. pc' \in {"drop", "idle"}
    BY <1>12 DEF Wipe, Run
  <2> QED
    BY <1>0, <2>1, <2>2 DEF WholeInv, Whole
<1>13. ASSUME DropTable \/ Unmark \/ CreateTable \/ Mark \/ Fill PROVE WholeInv'
  BY <1>0, <1>13, NoRows DEF DropTable, Unmark, CreateTable, Mark, Fill, Run
<1>14. ASSUME Throw \/ ClearFails \/ Crash PROVE WholeInv'
  BY <1>0, <1>14, NoRows DEF Throw, Abort, ClearFails, Crash
<1>15. ASSUME UNCHANGED vars PROVE WholeInv'
  <2>1. \A e \in Entry : (Bare(e)' <=> Bare(e)) /\ \A r \in Row : Holds(e, r)' <=> Holds(e, r)
    BY <1>15 DEF vars, Bare, Holds
  <2> QED
    BY <1>0, <1>15, <2>1 DEF vars, WholeInv, Whole, Bare, Holds
<1> QED
  BY <1>1, <1>2, <1>3, <1>4, <1>5, <1>6, <1>7, <1>8, <1>9, <1>10, <1>11, <1>12, <1>13,
     <1>14, <1>15 DEF Next

\* The same in the next state.
LEMMA StoredRowNext == (\A e \in Entry, r \in Row : Holds(e, r) => Stored[e] = r)'
<1>1. \A e \in Entry, r \in Row : Holds(e, r) => Stored[e] = r
  BY StoredRow
<1> QED
  BY <1>1, PTL

\* Every step is a step of the map, or leaves it alone.
LEMMA NextMap == WholeInv /\ [Next]_vars => [Map!MapNext]_Stored
<1> SUFFICES ASSUME WholeInv, [Next]_vars PROVE [Map!MapNext]_Stored
  OBVIOUS
<1>0. Stored = [e \in Entry |-> Stored[e]] /\ Stored' = [e \in Entry |-> Stored'[e]]
  BY DEF Stored
<1>1. CASE cache' = cache
  <2>1. Stored' = Stored
    BY <1>1 DEF Stored, Holds
  <2> QED
    BY <2>1
<1>2. CASE Uncache
  <2>1. PICK e \in Entry : e = call.entry
    BY <1>2 DEF Uncache, Run, WholeInv, Types, CallOK
  <2>2. \A c \in Chunk : cache'[c] = IF c[1] = e THEN None ELSE cache[c]
    BY <1>2, <2>1 DEF Uncache, Without
  <2>3. Bare(e)'
    BY <2>2, PairChunk DEF Bare
  <2>4. Stored'[e] = None
    BY <2>3 DEF Stored, Bare
  <2>5. ASSUME NEW f \in Entry, f # e PROVE Stored'[f] = Stored[f]
    BY <2>2, <2>5, PairChunk, SameEntry
  <2>6. Stored' = [Stored EXCEPT ![e] = None]
    BY <1>0, <2>4, <2>5
  <2> QED
    BY <2>6 DEF Map!MapNext, Map!Remove
<1>3. CASE CacheRows
  <2>1. PICK e \in Entry, r \in Row :
            Holds(e, r)' /\ \A f \in Entry \ {e} : \A i \in Index : cache'[<<f, i>>] = cache[<<f, i>>]
    BY <1>3, CacheWrites
  <2>2. Stored'[e] = r
    BY <2>1, StoredRowNext
  <2>3. ASSUME NEW f \in Entry, f # e PROVE Stored'[f] = Stored[f]
    BY <2>1, <2>3, SameEntry
  <2>4. Stored' = [Stored EXCEPT ![e] = r]
    BY <1>0, <2>2, <2>3
  <2>5. PICK m \in Model, v \in Value : r = [model |-> m, value |-> v]
    BY DEF Row
  <2> QED
    BY <2>4, <2>5 DEF Map!MapNext, Map!Put
<1>4. CASE Wipe
  <2>1. \A e \in Entry : Bare(e)'
    BY <1>4, PairChunk DEF Wipe, Empty, Bare
  <2>2. \A e \in Entry : Stored'[e] = None
    BY <2>1 DEF Stored, Bare
  <2>3. Stored' = [e \in Entry |-> None]
    BY <1>0, <2>2
  <2> QED
    BY <2>3 DEF Map!MapNext, Map!Clear
<1> QED
  <2>1. cache' = cache \/ Uncache \/ CacheRows \/ Wipe
    BY DEF Next, vars, Open, Close, Embed, Drop, Refresh, Clear, Rebuild, Untable, MirrorRows,
           DropTable, Unmark, CreateTable, Mark, Fill, Throw, Abort, ClearFails, Crash
  <2> QED
    BY <1>1, <1>2, <1>3, <1>4, <2>1

\* The cache implements the map VectorMap promises: a step of the index replaces,
\* removes or forgets entries as wholes, or leaves what is stored alone.
\* (VectorCache with embedEntries, refreshMetadata and repair.)
THEOREM CacheImplementsMap == Spec => CacheIsMap
<1>1. Init => Map!MapInit
  <2> SUFFICES ASSUME Init PROVE Stored = [e \in Entry |-> None]
    BY DEF Map!MapInit
  <2>1. \A e \in Entry : Bare(e)
    BY PairChunk DEF Init, Empty, Bare
  <2>2. \A e \in Entry : Stored[e] = None
    BY <2>1, StoredBare
  <2>3. Stored = [e \in Entry |-> Stored[e]]
    BY DEF Stored
  <2> QED
    BY <2>2, <2>3
<1> QED
  BY InitWhole, NextWhole, NextMap, <1>1, PTL DEF Spec, CacheIsMap, Map!MapSpec

=============================================================================

-------------------------- MODULE Adapters_proofs --------------------------
(***************************************************************************)
(* Proofs about what the adapters add to the core: the migration of a Kilo *)
(* database (KiloMigration), and the frozen block of the system prompt     *)
(* (FrozenPrompt), for all values of their constants.  The two share no    *)
(* state.                                                                  *)
(***************************************************************************)
EXTENDS KiloMigration, FrozenPrompt, TLAPS

\* The values of Row and Cells, seen one field at a time.
LEMMA RowFields ==
    /\ \A r \in Row : r.kilo \in Cells /\ r.core \in Cells
    /\ \A k, m \in Cells : [kilo |-> k, core |-> m] \in Row
    /\ Empty \in Cells
BY DEF Row, Cells, Empty

\* One copied value keeps a row a row.
LEMMA FilledRow == ASSUME NEW r \in Row, NEW c \in Column
    PROVE  [r EXCEPT !.core[c] = r.kilo[c]] \in Row
<1>1. r.kilo \in Cells /\ r.core \in Cells
  BY RowFields
<1>2. [r.core EXCEPT ![c] = r.kilo[c]] \in Cells
  BY <1>1 DEF Cells
<1>3. [r EXCEPT !.core[c] = r.kilo[c]] = [kilo |-> r.kilo, core |-> [r.core EXCEPT ![c] = r.kilo[c]]]
  BY DEF Row
<1> QED BY <1>1, <1>2, <1>3, RowFields

\* Types hold initially.
LEMMA TypeStart == Init => TypeOK
<1> SUFFICES ASSUME Init PROVE TypeOK
  OBVIOUS
<1>1. rows \in [Id -> Row \cup {None}]
  <2>1. {r \in Row : r.core = Empty} \subseteq Row
    OBVIOUS
  <2> QED BY <2>1 DEF Init
<1>2. said \in [Id -> Cells \cup {None}]
  BY DEF Init
<1>3. writes \in 0..MaxWrites /\ stops \in 0..MaxStops
  BY MigrationAssumption DEF Init
<1> QED BY <1>1, <1>2, <1>3 DEF Init, TypeOK

\* Every step keeps types.
LEMMA TypeStep == TypeOK /\ [Next]_vars => TypeOK'
<1> SUFFICES ASSUME TypeOK, [Next]_vars PROVE TypeOK'
  OBVIOUS
<1> USE DEF TypeOK
<1>1. CASE Migrate
  BY <1>1 DEF Migrate, Goes, Taken, table
<1>2. ASSUME NEW c \in Column, AddColumn(c) PROVE TypeOK'
  BY <1>2 DEF AddColumn, Goes, table
<1>3. ASSUME NEW c \in Column, Backfill(c) PROVE TypeOK'
  <2>1. rows' \in [Id -> Row \cup {None}]
    <3>1. \A i \in Id : (IF rows[i] # None /\ rows[i].core[c] = Blank
                         THEN [rows[i] EXCEPT !.core[c] = rows[i].kilo[c]]
                         ELSE rows[i]) \in Row \cup {None}
      BY FilledRow
    <3> QED BY <3>1, <1>3 DEF Backfill
  <2> QED BY <2>1, <1>3 DEF Backfill, Goes
<1>4. CASE Extend \/ Finish \/ Stop
  <2>1. CASE Extend
    BY <2>1 DEF Extend, table
  <2>2. CASE Finish
    BY <2>2 DEF Finish, table
  <2>3. CASE Stop
    <3>1. stops' \in 0..MaxStops
      BY <2>3, MigrationAssumption DEF Stop
    <3> QED BY <3>1, <2>3 DEF Stop, table
  <2> QED BY <1>4, <2>1, <2>2, <2>3
<1>5. CASE Open \/ Close
  BY <1>5 DEF Open, Close, table, script
<1>6. CASE FirstUse
  <2>1. CASE Rebuild
    <3>1. said' \in [Id -> Cells \cup {None}]
      BY <2>1 DEF Rebuild
    <3>2. \A i \in Id : (IF said'[i] = None THEN None
                         ELSE [core |-> said'[i],
                               kilo |-> [c \in Column |-> IF c \in Mirrored THEN said'[i][c] ELSE Blank]])
                          \in Row \cup {None}
      BY <3>1 DEF Row, Cells
    <3>3. rows' \in [Id -> Row \cup {None}]
      BY <3>2, <2>1 DEF Rebuild
    <3> QED BY <3>1, <3>3, <1>6 DEF FirstUse, script
  <2>2. CASE UNCHANGED table
    BY <2>2, <1>6 DEF FirstUse, table, script
  <2> QED BY <2>1, <2>2, <1>6 DEF FirstUse
<1>7. ASSUME NEW i \in Id, NEW v \in Cells, Upsert(i, v) PROVE TypeOK'
  <2> DEFINE mirror == [c \in Column |-> IF c \in Mirrored THEN v[c]
                             ELSE IF rows[i] = None THEN Blank ELSE rows[i].kilo[c]]
  <2>1. mirror \in Cells
    BY DEF Cells, Row
  <2>2. [core |-> v, kilo |-> mirror] \in Row
    BY <2>1, RowFields
  <2> QED BY <2>2, <1>7, MigrationAssumption DEF Upsert, script
<1>8. ASSUME NEW i \in Id, NEW v \in Cells, KiloWrite(i, v) PROVE TypeOK'
  <2>1. [kilo |-> v, core |-> IF rows[i] = None THEN Empty ELSE rows[i].core] \in Row
    BY RowFields
  <2> QED BY <2>1, <1>8, MigrationAssumption DEF KiloWrite, script
<1>9. CASE UNCHANGED vars
  BY <1>9 DEF vars
<1> QED BY <1>1, <1>2, <1>3, <1>4, <1>5, <1>6, <1>7, <1>8, <1>9 DEF Next

\* The table, the script and the handle keep their types.
THEOREM TypeCorrect == Spec => []TypeOK
BY TypeStart, TypeStep, PTL DEF Spec

-----------------------------------------------------------------------------
(* What is carried over                                                    *)

\* A row only Kilo has written, and early enough for the migration under way.
Waiting(i) == rows[i] # None /\ said[i] = None /\ i \notin recent

\* A migration under way finds in such a row nothing but Kilo's own values, and
\* leaves a column it is done with filled.
Filling ==
    /\ part # "idle" =>
           \A i \in Id : Waiting(i) =>
               \A c \in Column : rows[i].core[c] \in {Blank, rows[i].kilo[c]}
    /\ part = "fill" =>
           \A i \in Id : Waiting(i) =>
               \A c \in Column \ todo : rows[i].core[c] = rows[i].kilo[c]
    /\ part \in {"extend", "finish"} =>
           \A i \in Id : Waiting(i) => rows[i].core = rows[i].kilo

CarryInv == TypeOK /\ Filling /\ Carried

\* Cells that agree in every column are the same.
LEMMA SameCells ==
    ASSUME NEW k \in Cells, NEW m \in Cells, \A c \in Column : k[c] = m[c]
    PROVE  k = m
BY DEF Cells

\* The invariant holds initially: nothing is migrated.
LEMMA InitCarry == Init => CarryInv
BY TypeStart DEF Init, CarryInv, Filling, Carried

\* Migrate looks at rows as they are: what is not taken holds Kilo's values or none.
LEMMA MigrateCarries == ASSUME CarryInv, Migrate
    PROVE  Filling' /\ Carried'
<1>1. /\ UNCHANGED <<rows, said, migrated, apart>> /\ recent' = Taken
      /\ part' \in {"add", "fill"}
      /\ part' = "fill" => todo' = Column
  BY DEF Migrate, Goes, table
<1>2. Filling'
  BY <1>1 DEF Filling, Waiting, Taken
<1>3. Carried'
  BY <1>1 DEF CarryInv, Carried
<1> QED BY <1>2, <1>3

\* Adding a column changes no value.
LEMMA AddColumnCarries == ASSUME CarryInv, NEW c \in Column, AddColumn(c)
    PROVE  Filling' /\ Carried'
<1>1. /\ UNCHANGED <<rows, said, migrated, apart, recent>> /\ part = "add"
      /\ part' \in {"add", "fill"}
      /\ part' = "fill" => todo' = Column
  BY DEF AddColumn, Goes, table
<1>2. Filling'
  BY <1>1 DEF CarryInv, Filling, Waiting
<1>3. Carried'
  BY <1>1 DEF CarryInv, Carried
<1> QED BY <1>2, <1>3

\* What Backfill does to one row.
LEMMA BackfillRow ==
    ASSUME TypeOK, NEW c \in Column, Backfill(c), NEW i \in Id
    PROVE  /\ rows'[i] = None <=> rows[i] = None
           /\ rows[i] # None =>
                 /\ rows'[i].kilo = rows[i].kilo
                 /\ rows[i].core \in Cells /\ rows'[i].core \in Cells /\ rows[i].kilo \in Cells
                 /\ \A d \in Column \ {c} : rows'[i].core[d] = rows[i].core[d]
                 /\ rows'[i].core[c] = IF rows[i].core[c] = Blank THEN rows[i].kilo[c]
                                       ELSE rows[i].core[c]
<1>1. CASE rows[i] = None
  BY <1>1 DEF Backfill
<1>2. CASE rows[i] # None
  <2>1. rows[i] \in Row
    BY <1>2 DEF TypeOK
  <2>2. rows[i].kilo \in Cells /\ rows[i].core \in Cells
    BY <2>1, RowFields
  <2>3. CASE rows[i].core[c] = Blank
    <3>1. rows'[i] = [rows[i] EXCEPT !.core[c] = rows[i].kilo[c]]
      BY <1>2, <2>3 DEF Backfill
    <3>2. rows'[i] \in Row
      BY <3>1, <2>1, FilledRow
    <3>3. rows'[i].kilo = rows[i].kilo /\ rows'[i].core = [rows[i].core EXCEPT ![c] = rows[i].kilo[c]]
      BY <3>1, <2>1 DEF Row
    <3>4. rows'[i] # None /\ rows'[i].core \in Cells
      BY <3>2, RowFields, MigrationAssumption
    <3>5. /\ \A d \in Column \ {c} : rows'[i].core[d] = rows[i].core[d]
          /\ rows'[i].core[c] = rows[i].kilo[c]
      BY <3>3, <2>2 DEF Cells
    <3> QED BY <3>3, <3>4, <3>5, <1>2, <2>2, <2>3
  <2>4. CASE rows[i].core[c] # Blank
    <3>1. rows'[i] = rows[i]
      BY <1>2, <2>4 DEF Backfill
    <3> QED BY <3>1, <1>2, <2>2, <2>4
  <2> QED BY <2>3, <2>4
<1> QED BY <1>1, <1>2

\* A copied column is done for every row that had room for it.
LEMMA BackfillCarries == ASSUME CarryInv, NEW c \in Column, Backfill(c)
    PROVE  Filling' /\ Carried'
<1> USE DEF CarryInv
<1>1. /\ UNCHANGED <<said, migrated, apart, recent>> /\ part = "fill" /\ c \in todo
      /\ part' \in {"fill", "extend"}
      /\ part' = "fill" => todo' = todo \ {c}
      /\ part' = "extend" => todo \ {c} = {}
  BY DEF Backfill, Goes
<1>2. ASSUME NEW i \in Id, Waiting(i)'
      PROVE  /\ rows'[i].core \in Cells /\ rows'[i].kilo \in Cells
             /\ \A d \in Column : rows'[i].core[d] \in {Blank, rows'[i].kilo[d]}
             /\ \A d \in Column \ (todo \ {c}) : rows'[i].core[d] = rows'[i].kilo[d]
  <2>1. Waiting(i)
    BY <1>1, <1>2, BackfillRow DEF Waiting
  <2>2. /\ \A d \in Column : rows[i].core[d] \in {Blank, rows[i].kilo[d]}
        /\ \A d \in Column \ todo : rows[i].core[d] = rows[i].kilo[d]
    BY <1>1, <2>1 DEF Filling
  <2> QED BY <2>1, <2>2, BackfillRow DEF Waiting
<1>3. Filling'
  <2>1. ASSUME NEW i \in Id, Waiting(i)', part' = "extend" PROVE rows'[i].core = rows'[i].kilo
    BY <1>1, <1>2, <2>1, SameCells
  <2> QED BY <1>1, <1>2, <2>1 DEF Filling
<1>4. Carried'
  <2> SUFFICES ASSUME migrated, NEW i \in Id, rows'[i] # None, said[i] = None, i \notin apart
               PROVE  rows'[i].core = rows'[i].kilo
    BY <1>1 DEF Carried
  <2>1. rows[i].core = rows[i].kilo /\ rows[i] # None
    BY BackfillRow DEF Carried
  <2> QED BY <2>1, BackfillRow, SameCells
<1> QED BY <1>3, <1>4

\* Steps of the script that touch no row.
LEMMA ScriptCarries == ASSUME CarryInv, Extend \/ Finish \/ Stop
    PROVE  Filling' /\ Carried'
<1> USE DEF CarryInv
<1>1. CASE Extend
  BY <1>1 DEF Extend, Filling, Waiting, Carried, table
<1>2. CASE Finish
  BY <1>2 DEF Finish, Filling, Waiting, Carried, table
<1>3. CASE Stop
  BY <1>3 DEF Stop, Filling, Waiting, Carried, table
<1> QED BY <1>1, <1>2, <1>3

\* The store and the plugin.
LEMMA WritesCarry == ASSUME CarryInv,
           Open \/ Close \/ FirstUse \/ (\E i \in Id, v \in Cells : Upsert(i, v) \/ KiloWrite(i, v))
    PROVE  Filling' /\ Carried'
<1> USE DEF CarryInv
<1>1. CASE Open \/ Close
  BY <1>1 DEF Open, Close, Filling, Waiting, Carried, table, script
<1>2. CASE FirstUse
  <2>1. CASE Rebuild
    <3>1. \A i \in Id : rows'[i] # None => said'[i] # None
      BY <2>1 DEF Rebuild
    <3> QED BY <3>1, <1>2 DEF FirstUse, Filling, Waiting, Carried, script
  <2>2. CASE UNCHANGED table
    BY <2>2, <1>2 DEF FirstUse, Filling, Waiting, Carried, table, script
  <2> QED BY <2>1, <2>2, <1>2 DEF FirstUse
<1>3. ASSUME NEW i \in Id, NEW v \in Cells, Upsert(i, v)
      PROVE  Filling' /\ Carried'
  <2>1. /\ UNCHANGED <<part, todo, migrated, apart, recent>>
        /\ said' = [said EXCEPT ![i] = v] /\ \A j \in Id \ {i} : rows'[j] = rows[j]
    BY <1>3 DEF Upsert, script, TypeOK
  <2>2. said'[i] # None /\ \A j \in Id \ {i} : said'[j] = said[j]
    BY <2>1, MigrationAssumption DEF TypeOK
  <2> QED BY <2>1, <2>2 DEF Filling, Waiting, Carried
<1>4. ASSUME NEW i \in Id, NEW v \in Cells, KiloWrite(i, v)
      PROVE  Filling' /\ Carried'
  <2>1. /\ UNCHANGED <<part, todo, migrated, said>>
        /\ i \in apart' /\ i \in recent' /\ apart \subseteq apart' /\ recent \subseteq recent'
        /\ \A j \in Id \ {i} : rows'[j] = rows[j]
    BY <1>4 DEF KiloWrite, script, TypeOK
  <2> QED BY <2>1 DEF Filling, Waiting, Carried
<1> QED BY <1>1, <1>2, <1>3, <1>4

\* Once a migration has ended the core reads what Kilo stored, whatever was cut,
\* repeated or written since (translateBaseColumns).
THEOREM MigrationCarries == Spec => []Carried
<1>1. CarryInv /\ [Next]_vars => CarryInv'
  <2> SUFFICES ASSUME CarryInv, [Next]_vars PROVE Filling' /\ Carried'
    BY TypeStep DEF CarryInv
  <2>1. CASE UNCHANGED vars
    BY <2>1 DEF vars, CarryInv, Filling, Waiting, Carried
  <2>2. CASE Next
    BY <2>2, MigrateCarries, AddColumnCarries, BackfillCarries, ScriptCarries, WritesCarry DEF Next
  <2> QED BY <2>1, <2>2
<1>2. CarryInv => Carried
  BY DEF CarryInv
<1> QED BY InitCarry, <1>1, <1>2, PTL DEF Spec

-----------------------------------------------------------------------------
(* What the core has written                                               *)

WinInv == TypeOK /\ CoreWins

\* No step takes away a value the core has written (the UPDATE statements fill
\* blank cells only, and the plugin does not know the core's columns).
THEOREM CoreKeepsItsValues == Spec => []CoreWins
<1>1. Init => WinInv
  BY TypeStart DEF Init, WinInv, CoreWins
<1>2. WinInv /\ [Next]_vars => WinInv'
  <2> SUFFICES ASSUME WinInv, [Next]_vars PROVE CoreWins'
    BY TypeStep DEF WinInv
  <2> USE DEF WinInv
  <2>1. CASE Migrate \/ Extend \/ Finish \/ Stop \/ Open \/ Close \/ UNCHANGED vars
    BY <2>1 DEF Migrate, Extend, Finish, Stop, Open, Close, vars, table, CoreWins
  <2>2. ASSUME NEW c \in Column, AddColumn(c) PROVE CoreWins'
    BY <2>2 DEF AddColumn, table, CoreWins
  <2>3. ASSUME NEW c \in Column, Backfill(c) PROVE CoreWins'
    <3>1. said' = said
      BY <2>3 DEF Backfill
    <3> QED BY <3>1, <2>3, BackfillRow DEF CoreWins
  <2>4. CASE FirstUse
    <3>1. CASE Rebuild
      <4>1. \A i \in Id : said'[i] # None => rows'[i] # None /\ rows'[i].core = said'[i]
        <5> SUFFICES ASSUME NEW i \in Id, said'[i] # None
                     PROVE  rows'[i] # None /\ rows'[i].core = said'[i]
          OBVIOUS
        <5> DEFINE mirror == [c \in Column |-> IF c \in Mirrored THEN said'[i][c] ELSE Blank]
        <5>1. rows'[i] = [core |-> said'[i], kilo |-> mirror]
          BY <3>1 DEF Rebuild
        <5>2. said'[i] \in Cells
          BY <3>1 DEF Rebuild
        <5>3. mirror \in Cells
          BY <5>2 DEF Cells
        <5> QED BY <5>1, <5>2, <5>3, RowFields, MigrationAssumption
      <4> QED BY <4>1 DEF CoreWins
    <3>2. CASE UNCHANGED table
      BY <3>2 DEF table, CoreWins
    <3> QED BY <3>1, <3>2, <2>4 DEF FirstUse
  <2>5. ASSUME NEW i \in Id, NEW v \in Cells, Upsert(i, v) PROVE CoreWins'
    <3> DEFINE mirror == [c \in Column |-> IF c \in Mirrored THEN v[c]
                               ELSE IF rows[i] = None THEN Blank ELSE rows[i].kilo[c]]
    <3>1. rows'[i] = [core |-> v, kilo |-> mirror] /\ said'[i] = v
      BY <2>5 DEF Upsert, TypeOK
    <3>2. mirror \in Cells
      BY DEF Cells, Row, TypeOK
    <3>3. rows'[i] # None /\ rows'[i].core = v
      BY <3>1, <3>2, RowFields, MigrationAssumption
    <3>4. \A j \in Id \ {i} : rows'[j] = rows[j] /\ said'[j] = said[j]
      BY <2>5 DEF Upsert, TypeOK
    <3> QED BY <3>1, <3>3, <3>4 DEF CoreWins
  <2>6. ASSUME NEW i \in Id, NEW v \in Cells, KiloWrite(i, v) PROVE CoreWins'
    <3>1. said' = said /\ \A j \in Id \ {i} : rows'[j] = rows[j]
      BY <2>6 DEF KiloWrite, TypeOK
    <3>2. CASE said[i] = None
      BY <3>1, <3>2 DEF CoreWins
    <3>3. CASE said[i] # None
      <4>1. rows[i] # None
        BY <3>3 DEF CoreWins
      <4>2. rows[i].core \in Cells
        BY <4>1, RowFields DEF TypeOK
      <4>3. rows'[i] = [kilo |-> v, core |-> rows[i].core]
        BY <4>1, <2>6 DEF KiloWrite, TypeOK
      <4>4. rows'[i] # None /\ rows'[i].core = rows[i].core
        BY <4>2, <4>3, RowFields, MigrationAssumption
      <4> QED BY <3>1, <4>4 DEF CoreWins
    <3> QED BY <3>2, <3>3
  <2> QED BY <2>1, <2>2, <2>3, <2>4, <2>5, <2>6 DEF Next
<1>3. WinInv => CoreWins
  BY DEF WinInv
<1> QED BY <1>1, <1>2, <1>3, PTL DEF Spec

-----------------------------------------------------------------------------
(* The frozen block of the system prompt                                   *)

\* What was handed out is what is frozen.
GivenFrozen == \A s \in Session : \A b \in given[s] : b = frozen[s]

\* A request begun since the latest start reads the memory as it is since then.
ReadsFresh ==
    /\ born <= memory
    /\ \A c \in Call :
          call[c].start = starts =>
              /\ call[c].at \in {"rules", "preferences"} => call[c].block.rules >= born
              /\ call[c].at = "preferences" => call[c].block.preferences >= born
    /\ \A c \in Call : call[c].start <= starts

FreshInv == ReadsFresh /\ FreshAfterStart

\* Type correctness of one step.
LEMMA PromptTypeStep ==
    PromptTypeOK /\ [PromptNext]_promptVars => PromptTypeOK'
<1> SUFFICES ASSUME PromptTypeOK, [PromptNext]_promptVars PROVE PromptTypeOK'
    OBVIOUS
<1> USE PromptAssumption DEF PromptTypeOK, Block, Count
<1>1. ASSUME NEW c \in Call, NEW s \in Session, Transform(c, s) PROVE PromptTypeOK'
    BY <1>1 DEF Transform, Request
<1>2. ASSUME NEW c \in Call, Prefer(c) PROVE PromptTypeOK'
  <2>1. [call[c] EXCEPT !.at = "preferences", !.block.preferences = memory] \in Request
      BY ZenonT(30) DEF Request
  <2>2. QED
      BY <1>2, <2>1 DEF Prefer
<1>3. ASSUME NEW c \in Call, Inject(c) PROVE PromptTypeOK'
  <2>1. Injected(c) \in Block /\ call[c].session \in Session
      BY DEF Injected, Request
  <2>2. [call[c] EXCEPT !.at = "idle"] \in Request
      BY DEF Request
  <2>3. QED
      BY <1>3, <2>1, <2>2 DEF Inject
<1>4. CASE Save
    BY <1>4 DEF Save
<1>5. CASE SessionCreated
    BY <1>5 DEF SessionCreated
<1>6. CASE UNCHANGED promptVars
    BY <1>6 DEF promptVars
<1>7. QED
    BY <1>1, <1>2, <1>3, <1>4, <1>5, <1>6 DEF PromptNext

\* Types hold initially.
LEMMA PromptTypeStart == PromptInit => PromptTypeOK
    BY PromptAssumption DEF PromptInit, PromptTypeOK, Block, Count, Request

\* Every reachable state is well typed.
THEOREM PromptTypeCorrect == PromptSpec => []PromptTypeOK
<1>1. PromptInit => PromptTypeOK
    BY PromptTypeStart
<1>2. PromptTypeOK /\ [PromptNext]_promptVars => PromptTypeOK'
    BY PromptTypeStep
<1>3. QED
    BY <1>1, <1>2, PTL DEF PromptSpec

-----------------------------------------------------------------------------

\* A request hands out the block it freezes, and one that finds a block frozen
\* freezes that one again.
LEMMA GivenStep ==
    PromptTypeOK /\ GivenFrozen /\ [PromptNext]_promptVars => GivenFrozen'
<1> SUFFICES ASSUME PromptTypeOK, GivenFrozen, [PromptNext]_promptVars PROVE GivenFrozen'
    OBVIOUS
<1> USE DEF GivenFrozen
<1>1. ASSUME NEW c \in Call, Inject(c) PROVE GivenFrozen'
  <2> DEFINE s == call[c].session
  <2>1. s \in Session
      BY DEF PromptTypeOK, Request
  <2>2. given[s] = {} \/ Injected(c) = frozen[s]
      BY <2>1, PromptAssumption DEF Injected, PromptTypeOK, Request
  <2>3. ASSUME NEW t \in Session, NEW b \in given'[t] PROVE b = frozen'[t]
    <3>1. CASE t = s
        BY <1>1, <2>1, <2>2, <2>3, <3>1 DEF Inject, PromptTypeOK, Request
    <3>2. CASE t # s
        BY <1>1, <2>3, <3>2 DEF Inject, PromptTypeOK, Request
    <3>3. QED
        BY <3>1, <3>2
  <2>4. QED
      BY <2>3
<1>2. CASE SessionCreated
    BY <1>2 DEF SessionCreated, PromptTypeOK
<1>3. ASSUME NEW c \in Call, NEW s \in Session, Transform(c, s) PROVE GivenFrozen'
    BY <1>3 DEF Transform
<1>4. ASSUME NEW c \in Call, Prefer(c) PROVE GivenFrozen'
    BY <1>4 DEF Prefer
<1>5. CASE Save
    BY <1>5 DEF Save
<1>6. CASE UNCHANGED promptVars
    BY <1>6 DEF promptVars
<1>7. QED
    BY <1>1, <1>2, <1>3, <1>4, <1>5, <1>6 DEF PromptNext

\* All requests of a session get one block between two drops (the lookup behind the
\* awaits), whatever the other requests, saves and sessions do.
THEOREM OneBlock == PromptSpec => []FrozenStable
<1>1. PromptInit => GivenFrozen
    BY DEF PromptInit, GivenFrozen
<1>2. GivenFrozen => FrozenStable
    BY DEF GivenFrozen, FrozenStable
<1>3. PromptSpec => []PromptTypeOK
    BY PromptTypeCorrect
<1>4. PromptTypeOK /\ GivenFrozen /\ [PromptNext]_promptVars => GivenFrozen'
    BY GivenStep
<1>5. QED
    BY <1>1, <1>2, <1>3, <1>4, PTL DEF PromptSpec

-----------------------------------------------------------------------------

\* A request frozen since the latest start has read since it; the others are named by crossed.
LEMMA FreshStep ==
    PromptTypeOK /\ FreshInv /\ [PromptNext]_promptVars => FreshInv'
<1> SUFFICES ASSUME PromptTypeOK, FreshInv, [PromptNext]_promptVars PROVE FreshInv'
    OBVIOUS
<1> USE PromptAssumption DEF FreshInv, ReadsFresh, FreshAfterStart, Count
<1>1. ASSUME NEW c \in Call, Inject(c) PROVE FreshInv'
  <2> DEFINE s == call[c].session
  <2>1. s \in Session /\ call[c].block \in Block
      BY DEF PromptTypeOK, Request
  <2>2. ReadsFresh'
    <3>1. \A d \in Call : /\ call'[d].start = call[d].start
                          /\ call'[d].block = call[d].block
                          /\ call'[d].at \in {call[d].at, "idle"}
        BY <1>1 DEF Inject, PromptTypeOK, Request
    <3>2. QED
        BY <1>1, <3>1 DEF Inject
  <2>3. ASSUME host = "v1", NEW t \in Session \ (Live \cup crossed'), frozen'[t] # NoBlock
        PROVE  frozen'[t].rules >= born /\ frozen'[t].preferences >= born
    <3>1. t \notin crossed
        BY <1>1, <2>3 DEF Inject
    <3>2. CASE t # s
        BY <1>1, <2>3, <3>1, <3>2 DEF Inject, PromptTypeOK, Request
    <3>3. CASE t = s
      <4>1. call[c].start = starts
        <5>1. call[c].start \in Nat /\ starts \in Nat /\ call[c].start <= starts
            BY DEF PromptTypeOK, Request
        <5>2. ~(call[c].start < starts)
            BY <1>1, <2>1, <2>3, <3>3 DEF Inject, PromptTypeOK
        <5>3. QED
            BY <5>1, <5>2
      <4>2. frozen'[t] = Injected(c)
          BY <1>1, <2>1, <3>3 DEF Inject, PromptTypeOK, Request
      <4>3. CASE frozen[s] = NoBlock
          BY <1>1, <4>1, <4>2, <4>3 DEF Inject, Injected, PromptTypeOK
      <4>4. CASE frozen[s] # NoBlock
          BY <2>1, <2>3, <3>1, <3>3, <4>2, <4>4 DEF Injected
      <4>5. QED
          BY <4>3, <4>4
    <3>4. QED
        BY <3>2, <3>3
  <2>4. QED
      BY <1>1, <2>2, <2>3 DEF Inject
<1>2. CASE SessionCreated
  <2>1. ReadsFresh'
    <3>1. \A c \in Call : call[c].start <= starts /\ call[c].start \in Nat
        BY DEF PromptTypeOK, Request
    <3>2. \A c \in Call : call'[c].start < starts'
        BY <1>2, <3>1 DEF SessionCreated, PromptTypeOK
    <3>3. born' = memory /\ memory' = memory /\ memory \in Nat /\ starts' \in Nat
        BY <1>2 DEF SessionCreated, PromptTypeOK
    <3>4. \A c \in Call : call'[c].start # starts' /\ call'[c].start <= starts'
        BY <1>2, <3>1, <3>2, <3>3 DEF SessionCreated
    <3>5. QED
        BY <3>3, <3>4
  <2>2. FreshAfterStart'
      BY <1>2 DEF SessionCreated, PromptTypeOK
  <2>3. QED
      BY <2>1, <2>2
<1>3. ASSUME NEW c \in Call, NEW s \in Session, Transform(c, s) PROVE FreshInv'
  <2>1. ReadsFresh'
      BY <1>3 DEF Transform, PromptTypeOK, Block, Request
  <2>2. QED
      BY <1>3, <2>1 DEF Transform
<1>4. ASSUME NEW c \in Call, Prefer(c) PROVE FreshInv'
  <2>1. ReadsFresh'
      BY <1>4 DEF Prefer, PromptTypeOK, Block, Request
  <2>2. QED
      BY <1>4, <2>1 DEF Prefer
<1>5. CASE Save
    BY <1>5 DEF Save, PromptTypeOK
<1>6. CASE UNCHANGED promptVars
    BY <1>6 DEF promptVars
<1>7. QED
    BY <1>1, <1>2, <1>3, <1>4, <1>5, <1>6 DEF PromptNext

\* A block frozen by a request begun since the latest start of a session shows all
\* that was saved before it (the handler of session.created).
THEOREM BlocksFresh == PromptSpec => []FreshAfterStart
<1>1. PromptInit => FreshInv
    BY PromptAssumption DEF PromptInit, FreshInv, ReadsFresh, FreshAfterStart, Count
<1>2. PromptSpec => []PromptTypeOK
    BY PromptTypeCorrect
<1>3. PromptTypeOK /\ FreshInv /\ [PromptNext]_promptVars => FreshInv'
    BY FreshStep
<1>4. FreshInv => FreshAfterStart
    BY DEF FreshInv
<1>5. QED
    BY <1>1, <1>2, <1>3, <1>4, PTL DEF PromptSpec

=============================================================================

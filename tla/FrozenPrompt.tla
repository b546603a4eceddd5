---------------------------- MODULE FrozenPrompt ----------------------------
(***************************************************************************)
(* The memory block in the system prompt, frozen per session: the hooks    *)
(* of OpenCode v1 (src/adapters/opencode/runtime.ts), of OpenCode v2       *)
(* (plugin-v2.ts) and of Kilo (src/adapters/kilo/runtime.ts).              *)
(*                                                                         *)
(* A request builds its block by two recalls, rules and then preferences,  *)
(* each behind an await, and looks up the frozen block of its session only *)
(* after both.  Other requests of the session, saves and the start of      *)
(* other sessions fall in between.                                         *)
(***************************************************************************)
EXTENDS Naturals

CONSTANTS
    Session,    \* keys of blocks: session ids, and "default" for requests without one
    Live,       \* those whose block survives the start of another session
    Call,       \* requests that may be under way at once
    NoBlock,       \* no block
    MaxSaves,   \* bound on saves
    MaxStarts   \* bound on sessions started

Count == 0..MaxSaves
Block == [rules : Count, preferences : Count]  \* the saves each half has seen

Request == [at : {"idle", "rules", "preferences"}, session : Session,
            block : Block, start : 0..MaxStarts]

ASSUME PromptAssumption ==
    /\ Live \subseteq Session /\ NoBlock \notin Block
    /\ MaxSaves \in Nat /\ MaxStarts \in Nat

VARIABLES
    host,    \* generation of the hooks: v1 hears of new sessions, v2 does not
    memory,  \* saves so far
    frozen,  \* Session -> frozen block
    call,    \* Call -> its session, how far it is, and what it has read
    starts,  \* sessions started
    born,    \* saves there were when the latest session started (history)
    given,   \* Session -> blocks handed out since its block was last dropped (history)
    crossed  \* sessions a request begun before the latest start has handed a block (history)

promptVars == <<host, memory, frozen, call, starts, born, given, crossed>>

PromptTypeOK ==
    /\ host \in {"v1", "v2"}
    /\ memory \in Count /\ born \in Count
    /\ frozen \in [Session -> Block \cup {NoBlock}]
    /\ call \in [Call -> Request]
    /\ starts \in 0..MaxStarts
    /\ given \in [Session -> SUBSET Block]
    /\ crossed \subseteq Session

-----------------------------------------------------------------------------

PromptInit ==
    /\ host \in {"v1", "v2"}
    /\ memory = 0 /\ born = 0 /\ starts = 0
    /\ frozen = [s \in Session |-> NoBlock]
    /\ \E s \in Session :
          call = [c \in Call |-> [at |-> "idle", session |-> s, start |-> 0,
                                 block |-> [rules |-> 0, preferences |-> 0]]]
    /\ given = [s \in Session |-> {}] /\ crossed = {}

\* system.transform, or v2's context hook: the first recall of digest, up to its await.
Transform(c, s) ==
    /\ call[c].at = "idle"
    /\ call' = [call EXCEPT ![c] = [at |-> "rules", session |-> s, start |-> starts,
                                    block |-> [rules |-> memory, preferences |-> 0]]]
    /\ UNCHANGED <<host, memory, frozen, starts, born, given, crossed>>

\* The second recall of digest.
Prefer(c) ==
    /\ call[c].at = "rules"
    /\ call' = [call EXCEPT ![c] = [@ EXCEPT !.at = "preferences",
                                             !.block.preferences = memory]]
    /\ UNCHANGED <<host, memory, frozen, starts, born, given, crossed>>

\* Mutant of Injected: the lookup comes before the awaits and misses what a later
\* request has frozen since.
InjectedBuilt(c) ==
    IF frozen[call[c].session] = NoBlock \/ frozen[call[c].session].rules > call[c].block.rules
    THEN call[c].block ELSE frozen[call[c].session]

\* The block of the session if there is one, else the one just built.
Injected(c) ==
    IF frozen[call[c].session] = NoBlock THEN call[c].block ELSE frozen[call[c].session]

\* Behind the awaits: freeze and hand out.
Inject(c) ==
    /\ call[c].at = "preferences"
    /\ LET s == call[c].session IN
          /\ frozen' = [frozen EXCEPT ![s] = Injected(c)]
          /\ given' = [given EXCEPT ![s] = @ \cup {Injected(c)}]
          /\ crossed' = IF call[c].start < starts THEN crossed \cup {s} ELSE crossed
    /\ call' = [call EXCEPT ![c] = [@ EXCEPT !.at = "idle"]]
    /\ UNCHANGED <<host, memory, starts, born>>

\* A save; what a block shows of it is that it was there.
Save ==
    /\ memory < MaxSaves /\ memory' = memory + 1
    /\ UNCHANGED <<host, frozen, call, starts, born, given, crossed>>

\* Mutant of SessionCreated: no block is dropped.
SessionCreatedKeeping ==
    /\ starts < MaxStarts /\ starts' = starts + 1
    /\ born' = memory /\ crossed' = {}
    /\ UNCHANGED <<host, memory, frozen, call, given>>

\* The event session.created drops the blocks of all sessions but the live ones.
SessionCreated ==
    /\ starts < MaxStarts /\ starts' = starts + 1
    /\ born' = memory /\ crossed' = {}
    /\ IF host = "v1"
       THEN /\ frozen' = [s \in Session |-> IF s \in Live THEN frozen[s] ELSE NoBlock]
            /\ given' = [s \in Session |-> IF s \in Live THEN given[s] ELSE {}]
       ELSE UNCHANGED <<frozen, given>>
    /\ UNCHANGED <<host, memory, call>>

PromptNext ==
    \/ \E c \in Call : \/ \E s \in Session : Transform(c, s)
                       \/ Prefer(c) \/ Inject(c)
    \/ Save
    \/ SessionCreated

PromptSpec == PromptInit /\ [][PromptNext]_promptVars

-----------------------------------------------------------------------------
(* Properties *)

\* However requests of a session overlap and whatever is saved meanwhile, all get
\* the same block, until the start of another session drops it (v1), or for good
\* (v2, and live sessions).  (the lookup behind the awaits)
FrozenStable == \A s \in Session : \A a, b \in given[s] : a = b

\* After the start of a session the block of any session that is not live shows
\* everything saved before that start, unless a request from before the start has
\* frozen it since.  (the handler of session.created)
FreshAfterStart ==
    host = "v1" =>
        \A s \in Session \ (Live \cup crossed) :
            frozen[s] # NoBlock => frozen[s].rules >= born /\ frozen[s].preferences >= born

=============================================================================

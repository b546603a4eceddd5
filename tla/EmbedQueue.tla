----------------------------- MODULE EmbedQueue -----------------------------
(***************************************************************************)
(* The background queue that keeps the vectors of entries in step with the *)
(* store (src/core/infrastructure/embed-queue.ts), with the repair and the *)
(* rebuild the vector leg offers (src/core/application/vector-leg.ts).     *)
(*                                                                         *)
(* JavaScript runs one handler at a time; a pass is cut only where it      *)
(* awaits: for the provider's vectors, and before each further batch.      *)
(***************************************************************************)
EXTENDS Naturals, FiniteSets

CONSTANTS
    Id,          \* entry ids
    Text,        \* what is embedded of an entry: title, body and keywords
    Chunks,      \* Text -> number of chunks; a text without chunks has no vector
    Meta,        \* scope, project, kind, tier and status, copied to each vector
    None,        \* no entry, no vectors, no job
    BatchSize,   \* entries per batch
    MaxFailures, \* consecutive failures after which the queue disables itself
    MaxCalls     \* bound on the calls from outside

Entry == [text : Text, meta : Meta]

ASSUME QueueAssumption ==
    /\ Chunks \in [Text -> Nat]
    /\ None \notin Entry
    /\ BatchSize \in Nat \ {0}
    /\ MaxFailures \in Nat \ {0}
    /\ MaxCalls \in Nat

VARIABLES
    entry,    \* Id -> the entry in the store
    vec,      \* Id -> the text and metadata its vectors were made of
    pending,  \* ids waiting
    timer,    \* "now": a pass is scheduled, "retry": after RETRY_MS
    pc,       \* the pass: "idle", "loop" (before a batch), "embed" (awaits vectors)
    jobs,     \* Id -> the snapshot being embedded
    stopped,  \* the queue is disabled
    failures, \* consecutive failures
    prewarm,  \* "off", "loading", "done"
    swept,    \* this queue has queued every entry once (history)
    lost,     \* ids an exception dropped from the queue (history)
    healed,   \* no entry changed and nothing failed since a repair (history)
    calls     \* calls from outside so far

queue == <<pending, timer, pc, jobs, stopped, failures, prewarm>>
notes == <<swept, lost, healed>>
vars  == <<entry, vec, queue, notes, calls>>

TypeOK ==
    /\ entry \in [Id -> Entry \cup {None}]
    /\ vec \in [Id -> Entry \cup {None}]
    /\ pending \subseteq Id
    /\ timer \in {"none", "now", "retry"}
    /\ pc \in {"idle", "loop", "embed"}
    /\ jobs \in [Id -> Entry \cup {None}]
    /\ stopped \in BOOLEAN
    /\ failures \in Nat
    /\ prewarm \in {"off", "loading", "done"}
    /\ swept \in BOOLEAN
    /\ lost \subseteq Id
    /\ healed \in BOOLEAN
    /\ calls \in 0..MaxCalls

NoJobs   == [i \in Id |-> None]
Live     == {i \in Id : entry[i] # None}
InFlight == {i \in Id : jobs[i] # None}

Call == calls < MaxCalls /\ calls' = calls + 1

-----------------------------------------------------------------------------
(* enqueue: a disabled queue ignores it; a pass is scheduled unless one    *)
(* runs or a timer is set.                                                 *)

EnqueuedTimer(S) ==
    IF stopped \/ S \subseteq pending \/ pc # "idle" \/ timer # "none" THEN timer ELSE "now"

\* Mutant of Enqueue: an id being embedded is not queued again.
EnqueueUnlessInFlight(S) ==
    /\ pending' = IF stopped THEN pending ELSE pending \cup (S \ InFlight)
    /\ timer' = EnqueuedTimer(S \ InFlight)
    /\ lost' = IF stopped THEN lost ELSE lost \ S

Enqueue(S) ==
    /\ pending' = IF stopped THEN pending ELSE pending \cup S
    /\ timer' = EnqueuedTimer(S)
    /\ lost' = IF stopped THEN lost ELSE lost \ S

\* recordFailure
Fails(count) ==
    /\ failures' = count + 1
    /\ stopped' = (stopped \/ count + 1 >= MaxFailures)

\* Mutant of Finish: nothing is scheduled for what is left.
FinishUnscheduled(left) ==
    /\ pc' = "idle"
    /\ jobs' = NoJobs
    /\ pending' = left
    /\ healed' = FALSE
    /\ UNCHANGED timer

\* The finally block of drain, after a failure: what is left is retried later.
Finish(left) ==
    /\ pc' = "idle"
    /\ jobs' = NoJobs
    /\ pending' = left
    /\ timer' = IF ~stopped' /\ left # {} /\ timer = "none" THEN "retry" ELSE timer
    /\ healed' = FALSE

-----------------------------------------------------------------------------
(* One batch: ids of removed entries lose their vectors, an unchanged text *)
(* only has its metadata copied, a text without chunks is passed over, and *)
(* the rest is sent to the provider.                                       *)

Batches(P) == {B \in SUBSET P : Cardinality(B) <= BatchSize
                                /\ (B = P \/ Cardinality(B) = BatchSize)}

SameText(i) == vec[i] # None /\ vec[i].text = entry[i].text

Prepared(B) ==
    [i \in Id |-> IF i \notin B THEN vec[i]
                  ELSE IF entry[i] = None THEN None
                  ELSE IF Chunks[entry[i].text] # 0 /\ SameText(i) THEN entry[i]
                  ELSE vec[i]]

Jobs(B) ==
    [i \in Id |-> IF i \in B /\ entry[i] # None
                     /\ Chunks[entry[i].text] # 0 /\ ~SameText(i)
                  THEN entry[i] ELSE None]

\* The loop of drain over pending ids P, up to its next await or its end.
Take(P) ==
    IF P = {} \/ stopped
    THEN /\ pc' = "idle" /\ pending' = P
         /\ UNCHANGED <<vec, jobs>>
    ELSE \E B \in Batches(P) :
         /\ pending' = P \ B
         /\ vec' = Prepared(B)
         /\ jobs' = Jobs(B)
         /\ pc' = IF Jobs(B) = NoJobs THEN "loop" ELSE "embed"

-----------------------------------------------------------------------------
(* Initial states: any store and any vectors an earlier process left.      *)

Init ==
    /\ entry \in [Id -> Entry \cup {None}]
    /\ vec \in [Id -> {e \in Entry : Chunks[e.text] # 0} \cup {None}]
    /\ pending = {} /\ timer = "none" /\ pc = "idle" /\ jobs = NoJobs
    /\ stopped = FALSE /\ failures = 0 /\ prewarm = "off"
    /\ swept = FALSE /\ lost = {}
    /\ healed = FALSE /\ calls = 0

-----------------------------------------------------------------------------
(* Calls from outside.                                                     *)

\* Every write of a row reports its id: onEntryChanged.
Write(i, e) ==
    /\ Call
    /\ entry' = [entry EXCEPT ![i] = e]
    /\ Enqueue({i})
    /\ healed' = FALSE
    /\ UNCHANGED <<vec, pc, jobs, stopped, failures, prewarm, swept>>

\* MemoryStore.delete removes the vectors and reports nothing.
Delete(i) ==
    /\ Call
    /\ entry[i] # None
    /\ entry' = [entry EXCEPT ![i] = None]
    /\ vec' = [vec EXCEPT ![i] = None]
    /\ healed' = FALSE
    /\ UNCHANGED <<queue, swept, lost>>

\* A scan of the disk drops the row of a page that is gone, not its vectors.
DropRow(i) ==
    /\ Call
    /\ entry[i] # None
    /\ entry' = [entry EXCEPT ![i] = None]
    /\ healed' = FALSE
    /\ UNCHANGED <<vec, queue, swept, lost>>

Start ==
    /\ prewarm = "off" /\ ~stopped
    /\ prewarm' = "loading"
    /\ Enqueue(Live)
    /\ swept' = TRUE
    /\ UNCHANGED <<entry, vec, pc, jobs, stopped, failures, healed, calls>>

\* processAll: queues S (or everything) and drains.  While a pass already runs,
\* or once the queue is disabled, drain returns at once.
ProcessAll(S, sweeps) ==
    /\ Call
    /\ sweeps => S = Live
    /\ timer' = EnqueuedTimer(S)
    /\ lost' = IF stopped THEN lost ELSE lost \ S
    /\ swept' = (swept \/ (sweeps /\ ~stopped))
    /\ IF pc # "idle" \/ stopped
       THEN /\ pending' = IF stopped THEN pending ELSE pending \cup S
            /\ UNCHANGED <<vec, pc, jobs>>
       ELSE Take(pending \cup S)
    /\ UNCHANGED <<entry, stopped, failures, prewarm, healed>>

\* VectorLeg.rebuild
Rebuild ==
    /\ Call
    /\ vec' = [i \in Id |-> None]
    /\ Enqueue(Live)
    /\ swept' = (swept \/ ~stopped)
    /\ healed' = FALSE
    /\ UNCHANGED <<entry, pc, jobs, stopped, failures, prewarm>>

\* VectorLeg.repair: leftovers go, metadata copies are rewritten, entries
\* without vectors or with another number of chunks are queued.
Mended ==
    [i \in Id |-> IF entry[i] = None \/ vec[i] = None THEN None
                  ELSE [vec[i] EXCEPT !.meta = entry[i].meta]]

\* Mutant of Requeued: an entry without any vectors is not queued.
RequeuedPartial ==
    {i \in Live : vec[i] # None /\ Chunks[vec[i].text] # Chunks[entry[i].text]}

Requeued ==
    {i \in Live : vec[i] = None \/ Chunks[vec[i].text] # Chunks[entry[i].text]}

Repair ==
    /\ Call
    /\ vec' = Mended
    /\ Enqueue(Requeued)
    /\ healed' = (pc = "idle")
    /\ UNCHANGED <<entry, pc, jobs, stopped, failures, prewarm, swept>>

\* The process ends; the next one starts with the stored vectors and an empty
\* queue.
Restart ==
    /\ Call
    /\ pending' = {} /\ timer' = "none" /\ pc' = "idle" /\ jobs' = NoJobs
    /\ stopped' = FALSE /\ failures' = 0 /\ prewarm' = "off"
    /\ swept' = FALSE /\ lost' = {}
    /\ healed' = FALSE
    /\ UNCHANGED <<entry, vec>>

-----------------------------------------------------------------------------
(* The steps of a pass.                                                    *)

\* The timer callback: starts a pass unless one runs or the queue is disabled.
TimerFires ==
    /\ timer # "none"
    /\ timer' = "none"
    /\ IF pc # "idle" \/ stopped
       THEN UNCHANGED <<vec, pending, pc, jobs>>
       ELSE Take(pending)
    /\ UNCHANGED <<entry, stopped, failures, prewarm, swept, lost, healed, calls>>

NextBatch ==
    /\ pc = "loop"
    /\ Take(pending)
    /\ UNCHANGED <<entry, timer, stopped, failures, prewarm, swept, lost, healed, calls>>

Written(W) == [i \in Id |-> IF i \in W THEN jobs[i] ELSE vec[i]]

\* The vectors arrive and every job of the batch is written.
EmbedOk ==
    /\ pc = "embed"
    /\ vec' = Written(InFlight)
    /\ jobs' = NoJobs
    /\ failures' = 0
    /\ pc' = "loop"
    /\ UNCHANGED <<entry, pending, timer, stopped, prewarm, notes, calls>>

\* Mutant of EmbedFail: the jobs of the failed batch are not queued again.
EmbedFailDropsJobs ==
    /\ pc = "embed"
    /\ Fails(failures)
    /\ Finish(pending)
    /\ UNCHANGED <<entry, vec, prewarm, swept, lost, calls>>

\* The provider fails: the jobs are queued again and the pass ends.
EmbedFail ==
    /\ pc = "embed"
    /\ Fails(failures)
    /\ Finish(pending \cup InFlight)
    /\ UNCHANGED <<entry, vec, prewarm, swept, lost, calls>>

\* A vector is missing or the index refuses a write: the jobs in W are
\* written, job k has perhaps lost its old vectors, and the pass ends.
EmbedThrows ==
    /\ pc = "embed"
    /\ \E W \in SUBSET InFlight : \E k \in InFlight \ W : \E e \in {vec[k], None} :
          /\ vec' = [Written(W) EXCEPT ![k] = e]
          /\ lost' = lost \cup (InFlight \ W)
    /\ Fails(0)
    /\ Finish(pending)
    /\ UNCHANGED <<entry, prewarm, swept, calls>>

PrewarmOk ==
    /\ prewarm = "loading"
    /\ prewarm' = "done"
    /\ UNCHANGED <<entry, vec, pending, timer, pc, jobs, stopped, failures, notes, calls>>

\* A model that fails to load counts as a failure too.
PrewarmFail ==
    /\ prewarm = "loading"
    /\ prewarm' = "done"
    /\ Fails(failures)
    /\ healed' = FALSE
    /\ UNCHANGED <<entry, vec, pending, timer, pc, jobs, swept, lost, calls>>

Outside ==
    \/ \E i \in Id, e \in Entry : Write(i, e)
    \/ \E i \in Id : Delete(i) \/ DropRow(i)
    \/ Start \/ Rebuild \/ Repair \/ Restart
    \/ \E S \in SUBSET Id, sweeps \in BOOLEAN : ProcessAll(S, sweeps)

Pass == TimerFires \/ NextBatch \/ EmbedOk \/ EmbedFail \/ EmbedThrows

Next == Outside \/ Pass \/ PrewarmOk \/ PrewarmFail

Spec == Init /\ [][Next]_vars

\* Timers fire, continuations run, and the provider answers or fails.
Fairness ==
    /\ WF_vars(TimerFires)
    /\ WF_vars(NextBatch)
    /\ WF_vars(EmbedOk \/ EmbedFail \/ EmbedThrows)

FairSpec == Spec /\ Fairness

-----------------------------------------------------------------------------
(* Properties                                                              *)

Wanted(i) == entry[i] # None /\ Chunks[entry[i].text] # 0

\* An entry whose vectors are missing or out of date is always on its way:
\* waiting, or in flight exactly as the store holds it now, however writes,
\* failures and batches interleave.  Only an exception in the middle of a batch
\* drops ids (lost), and a queue that never swept knows only what was written.
NothingForgotten ==
    swept /\ ~stopped =>
        \A i \in Id : Wanted(i) /\ vec[i] # entry[i] =>
            i \in pending \/ jobs[i] = entry[i] \/ i \in lost

\* Vectors made of a text the store no longer holds are about to be written only
\* for an id that waits to be embedded once more.
StaleJobsWait ==
    ~stopped =>
        \A i \in Id : Wanted(i) /\ jobs[i] \notin {None, entry[i]} => i \in pending

\* Waiting ids always have a pass or a timer that will take them, whatever
\* calls, timers and failures came first.
NoStall ==
    pending # {} /\ ~stopped => pc # "idle" \/ timer # "none"

\* When outside calls cease, every entry gets the vectors of its present text
\* and metadata, unless the queue gave up or an exception dropped the id.
Converges ==
    <>[](swept /\ ~stopped =>
            \A i \in Id : Wanted(i) => vec[i] = entry[i] \/ i \in lost)

Quiet == pc = "idle" /\ pending = {} /\ ~stopped

\* Once a repair and the work it queued are done, no removed entry has
\* vectors, and every entry has some, of the right count and with its present
\* metadata, also where an exception had dropped the id before.
HealedAgrees ==
    healed /\ Quiet =>
        \A i \in Id : /\ entry[i] = None => vec[i] = None
                      /\ Wanted(i) => /\ vec[i] # None
                                      /\ vec[i].meta = entry[i].meta
                                      /\ Chunks[vec[i].text] = Chunks[entry[i].text]
=============================================================================

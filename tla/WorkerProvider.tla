--------------------------- MODULE WorkerProvider ---------------------------
(***************************************************************************)
(* The worker-thread embedding provider: class WorkerEmbeddingProvider in  *)
(* src/core/infrastructure/embeddings.ts on the host's side, and           *)
(* src/core/infrastructure/embed-worker.ts in the thread.  The host starts *)
(* a worker on demand, matches its answers to requests, replaces it on     *)
(* reload, and takes a worker that died for a failure that lasts.          *)
(* Messages and exit events reach the host late, also those of workers it  *)
(* has given up.                                                           *)
(***************************************************************************)
EXTENDS Naturals

CONSTANTS
    Request,    \* requests; the host numbers them and never reuses a number
    MaxWorkers, \* bound on workers
    MaxReloads  \* bound on reloads and closes

ASSUME WorkerAssumption == MaxWorkers \in Nat \ {0} /\ MaxReloads \in Nat

Worker == 1..MaxWorkers
None   == 0              \* no worker

VARIABLES
    worker,  \* the current worker
    failure, \* new requests are refused until a reload
    pending, \* requests the host waits for
    req,     \* Request -> what its caller has seen
    sent,    \* Request -> the worker it was posted to
    state,   \* Worker -> life of the thread
    inbox,   \* Worker -> requests it has not answered
    outbox,  \* Worker -> answers the host has not received
    told,    \* workers whose exit event has been delivered
    young,   \* history: workers started since the last reload
    closed,  \* history: closed since the last reload
    reloads

vars == <<worker, failure, pending, req, sent, state, inbox, outbox, told, young, closed, reloads>>
threads == <<state, inbox, outbox, told>>

TypeOK ==
    /\ worker \in {None} \cup {g \in Worker : state[g] \in {"up", "crashed"}}
    /\ failure \in BOOLEAN /\ closed \in BOOLEAN
    /\ pending \subseteq Request
    /\ req \in [Request -> {"new", "waiting", "ok", "error"}]
    /\ sent \in [Request -> Worker \cup {None}]
    /\ state \in [Worker -> {"unused", "up", "terminated", "crashed"}]
    /\ inbox \in [Worker -> SUBSET Request]
    /\ outbox \in [Worker -> SUBSET (Request \X {"ok", "error"})]
    /\ told \subseteq Worker
    /\ young \subseteq Worker
    /\ reloads \in 0..MaxReloads

-----------------------------------------------------------------------------

Init ==
    /\ worker = None /\ failure = FALSE /\ pending = {}
    /\ req = [r \in Request |-> "new"] /\ sent = [r \in Request |-> None]
    /\ state = [g \in Worker |-> "unused"]
    /\ inbox = [g \in Worker |-> {}] /\ outbox = [g \in Worker |-> {}]
    /\ told = {} /\ young = {} /\ closed = FALSE /\ reloads = 0

\* The worker a request goes to: the current one, or a new one.
Ensured(g) ==
    IF worker # None THEN g = worker
    ELSE ~failure /\ state[g] = "unused" /\ \A h \in 1..(g - 1) : state[h] # "unused"

\* prewarm and embed.
Ask(r) ==
    /\ req[r] = "new"
    /\ \E g \in Worker :
          /\ Ensured(g)
          /\ worker' = g
          /\ state' = IF worker = None THEN [state EXCEPT ![g] = "up"] ELSE state
          /\ inbox' = [inbox EXCEPT ![g] = @ \cup {r}]
          /\ sent' = [sent EXCEPT ![r] = g]
          /\ young' = young \cup {g}
    /\ pending' = pending \cup {r}
    /\ req' = [req EXCEPT ![r] = "waiting"]
    /\ UNCHANGED <<failure, outbox, told, closed, reloads>>

\* ensureWorker throws the failure it remembers.
Refuse(r) ==
    /\ req[r] = "new" /\ worker = None /\ failure
    /\ req' = [req EXCEPT ![r] = "error"]
    /\ UNCHANGED <<worker, failure, pending, sent, threads, young, closed, reloads>>

RejectAll == [r \in Request |-> IF r \in pending THEN "error" ELSE req[r]]

\* Mutant of GiveUp: the thread is left alone.
GiveUpRunning ==
    /\ worker' = None /\ pending' = {} /\ req' = RejectAll
    /\ UNCHANGED state

\* The host lets go of its worker: reject what waits, stop the thread.
GiveUp ==
    /\ worker' = None /\ pending' = {} /\ req' = RejectAll
    /\ state' = [g \in Worker |-> IF g = worker /\ state[g] = "up" THEN "terminated" ELSE state[g]]

\* Mutant of Fail: waiting requests are forgotten instead of rejected.
FailSilently ==
    /\ worker' = None /\ pending' = {} /\ failure' = TRUE
    /\ state' = [g \in Worker |-> IF g = worker /\ state[g] = "up" THEN "terminated" ELSE state[g]]
    /\ UNCHANGED req

Fail == GiveUp /\ failure' = TRUE

\* Mutant of Reload: requests of the old worker keep waiting.
ReloadKeepingPending ==
    /\ reloads < MaxReloads /\ reloads' = reloads + 1
    /\ worker' = None /\ failure' = FALSE
    /\ state' = [g \in Worker |-> IF g = worker /\ state[g] = "up" THEN "terminated" ELSE state[g]]
    /\ young' = {}
    /\ closed' = FALSE
    /\ UNCHANGED <<pending, req, sent, inbox, outbox, told>>

Reload ==
    /\ reloads < MaxReloads /\ reloads' = reloads + 1
    /\ GiveUp /\ failure' = FALSE
    /\ young' = {}
    /\ closed' = FALSE
    /\ UNCHANGED <<sent, inbox, outbox, told>>

Close ==
    /\ reloads < MaxReloads /\ reloads' = reloads + 1
    /\ Fail
    /\ closed' = TRUE
    /\ UNCHANGED <<sent, inbox, outbox, told, young>>

\* onMessage: an answer to a request nobody waits for is dropped.
Message(g) ==
    \E m \in outbox[g] :
        /\ outbox' = [outbox EXCEPT ![g] = @ \ {m}]
        /\ pending' = pending \ {m[1]}
        /\ req' = IF m[1] \in pending THEN [req EXCEPT ![m[1]] = m[2]] ELSE req
        /\ UNCHANGED <<worker, failure, sent, state, inbox, told, young, closed, reloads>>

\* Mutant of Exit: any worker that exits fails the provider.
ExitOfAny(g) ==
    /\ state[g] \in {"terminated", "crashed"} /\ g \notin told
    /\ told' = told \cup {g}
    /\ Fail
    /\ UNCHANGED <<sent, inbox, outbox, young, closed, reloads>>

\* The error or exit event of a thread: only the current worker fails the
\* provider.
Exit(g) ==
    /\ state[g] \in {"terminated", "crashed"} /\ g \notin told
    /\ told' = told \cup {g}
    /\ IF g = worker THEN Fail ELSE UNCHANGED <<worker, failure, pending, req, state>>
    /\ UNCHANGED <<sent, inbox, outbox, young, closed, reloads>>

-----------------------------------------------------------------------------
(* The thread: it answers each request, in any order as the model allows,   *)
(* until it crashes or has been terminated (which takes a while).           *)

Answer(g) ==
    /\ state[g] \in {"up", "terminated"} /\ g \notin told
    /\ \E r \in inbox[g], result \in {"ok", "error"} :
          /\ inbox' = [inbox EXCEPT ![g] = @ \ {r}]
          /\ outbox' = [outbox EXCEPT ![g] = @ \cup {<<r, result>>}]
    /\ UNCHANGED <<worker, failure, pending, req, sent, state, told, young, closed, reloads>>

Crash(g) ==
    /\ state[g] = "up"
    /\ state' = [state EXCEPT ![g] = "crashed"]
    /\ UNCHANGED <<worker, failure, pending, req, sent, inbox, outbox, told, young, closed, reloads>>

Next ==
    \/ \E r \in Request : Ask(r) \/ Refuse(r)
    \/ Reload \/ Close
    \/ \E g \in Worker : Message(g) \/ Exit(g) \/ Answer(g) \/ Crash(g)

Spec == Init /\ [][Next]_vars

\* The thread answers what it received (module LocalProvider: every call ends)
\* and the host receives messages and exit events.
Fairness ==
    \A g \in Worker : WF_vars(Message(g)) /\ WF_vars(Exit(g)) /\ WF_vars(Answer(g))

FairSpec == Spec /\ Fairness

-----------------------------------------------------------------------------
(* Properties *)

\* The host only waits for answers its current worker can still give: no
\* request survives the worker it was posted to (fail, reload).
WaitsForCurrent ==
    /\ pending = {r \in Request : req[r] = "waiting"}
    /\ \A r \in pending : worker # None /\ sent[r] = worker

\* The provider is out of order only for a reason of its own time: it was
\* closed, or a worker started since the last reload crashed.  The late exit of
\* a worker that was terminated is none (the exit handler).
FailureEarned ==
    failure => closed \/ \E g \in young : state[g] = "crashed"

\* A thread that runs is the one the host would stop: none leaks (fail, reload).
NoLeakedWorker == \A g \in Worker : state[g] = "up" => g = worker

\* Every request is answered or rejected, through crashes, reloads and closes.
Settled == \A r \in Request : req[r] = "waiting" ~> req[r] # "waiting"
=============================================================================

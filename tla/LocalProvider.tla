--------------------------- MODULE LocalProvider ---------------------------
(***************************************************************************)
(* The in-process embedding provider (class LocalEmbeddingProvider in      *)
(* src/core/infrastructure/embeddings.ts): one model, loaded on first use  *)
(* and shared by all calls, forgotten by reload.  The memory service builds *)
(* it (vector-leg.ts, inline); it also runs inside the worker thread of    *)
(* the engine, one instance per worker (embed-worker.ts).                  *)
(***************************************************************************)
EXTENDS Naturals

CONSTANTS
    Caller,    \* calls of prewarm and embed that may be open at once
    MaxLoads,  \* bound on loads of the model
    MaxReloads \* bound on reloads

Load == 1..MaxLoads
None == 0             \* no load

VARIABLES
    extractor, \* the load whose model is installed
    loading,   \* the load new calls wait for
    failure,   \* the last load failed; calls fail fast
    loads,     \* Load -> how far it is and the reload it followed
    call,      \* Caller -> where the call is and the load it waits for or uses
    reloads

vars == <<extractor, loading, failure, loads, call, reloads>>

Epoch == 0..MaxReloads

TypeOK ==
    /\ extractor \in Load \cup {None}
    /\ loading \in Load \cup {None}
    /\ failure \in BOOLEAN
    /\ loads \in [Load -> [state : {"unused", "running", "done", "failed"}, epoch : Epoch]]
    /\ call \in [Caller -> [at : {"idle", "loading", "embedding"},
                            load : Load \cup {None}]]
    /\ \A c \in Caller : call[c].at = "embedding" => loads[call[c].load].state = "done"
    /\ reloads \in Epoch

Idle == [at |-> "idle", load |-> None]

Running == {n \in Load : loads[n].state = "running"}

-----------------------------------------------------------------------------

Init ==
    /\ extractor = None /\ loading = None /\ failure = FALSE
    /\ loads = [n \in Load |-> [state |-> "unused", epoch |-> 0]]
    /\ call = [c \in Caller |-> Idle]
    /\ reloads = 0

At(c, at, n) ==
    call' = [call EXCEPT ![c] = [at |-> at, load |-> n]]

\* The head of prewarm and embed, up to the first await.  After a failure the
\* call is rejected at once and nothing changes.
CallLoaded(c) ==
    /\ call[c] = Idle
    /\ extractor # None
    /\ At(c, "embedding", extractor)
    /\ UNCHANGED <<extractor, loading, failure, loads, reloads>>

CallJoins(c) ==
    /\ call[c] = Idle
    /\ extractor = None /\ ~failure /\ loading # None
    /\ At(c, "loading", loading)
    /\ UNCHANGED <<extractor, loading, failure, loads, reloads>>

\* Mutant of CallLoads: every call starts a load of its own.
CallLoadsAlways(c) ==
    /\ call[c] = Idle
    /\ extractor = None /\ ~failure
    /\ \E n \in Load :
          /\ loads[n].state = "unused" /\ \A m \in 1..(n - 1) : loads[m].state # "unused"
          /\ loads' = [loads EXCEPT ![n] = [state |-> "running", epoch |-> reloads]]
          /\ loading' = n
          /\ At(c, "loading", n)
    /\ UNCHANGED <<extractor, failure, reloads>>

CallLoads(c) ==
    /\ call[c] = Idle
    /\ extractor = None /\ ~failure /\ loading = None
    /\ \E n \in Load :
          /\ loads[n].state = "unused" /\ \A m \in 1..(n - 1) : loads[m].state # "unused"
          /\ loads' = [loads EXCEPT ![n] = [state |-> "running", epoch |-> reloads]]
          /\ loading' = n
          /\ At(c, "loading", n)
    /\ UNCHANGED <<extractor, failure, reloads>>

LoadDone(n) ==
    /\ n \in Running
    /\ loads' = [loads EXCEPT ![n].state = "done"]
    /\ UNCHANGED <<extractor, loading, failure, call, reloads>>

\* The handler of a failed load does not ask whether it is still the current one.
LoadFails(n) ==
    /\ n \in Running
    /\ loads' = [loads EXCEPT ![n].state = "failed"]
    /\ loading' = None /\ failure' = TRUE
    /\ UNCHANGED <<extractor, call, reloads>>

\* Mutant of Resume: a call goes on before its model is there.
ResumeEarly(c) ==
    /\ call[c].at = "loading"
    /\ extractor' = call[c].load
    /\ call' = [call EXCEPT ![c].at = "embedding"]
    /\ UNCHANGED <<loading, failure, loads, reloads>>

\* A waiting call installs the model its load made.
Resume(c) ==
    /\ call[c].at = "loading" /\ loads[call[c].load].state = "done"
    /\ extractor' = call[c].load
    /\ call' = [call EXCEPT ![c].at = "embedding"]
    /\ UNCHANGED <<loading, failure, loads, reloads>>

\* Mutant of Rejected: only the call that started the load hears of its failure.
RejectedAlone(c) ==
    /\ call[c].at = "loading" /\ loads[call[c].load].state = "failed"
    /\ \A d \in Caller \ {c} : call[d].load # call[c].load
    /\ call' = [call EXCEPT ![c] = Idle]
    /\ UNCHANGED <<extractor, loading, failure, loads, reloads>>

Rejected(c) ==
    /\ call[c].at = "loading" /\ loads[call[c].load].state = "failed"
    /\ call' = [call EXCEPT ![c] = Idle]
    /\ UNCHANGED <<extractor, loading, failure, loads, reloads>>

\* The batches of a call end with vectors, an inference error or a wrong
\* dimension; each ends the call.
Answered(c) ==
    /\ call[c].at = "embedding"
    /\ call' = [call EXCEPT ![c] = Idle]
    /\ UNCHANGED <<extractor, loading, failure, loads, reloads>>

Reload ==
    /\ reloads < MaxReloads
    /\ reloads' = reloads + 1
    /\ extractor' = None /\ loading' = None /\ failure' = FALSE
    /\ UNCHANGED <<loads, call>>

Next ==
    \/ \E c \in Caller : \/ CallLoaded(c) \/ CallJoins(c) \/ CallLoads(c)
                         \/ Resume(c) \/ Rejected(c) \/ Answered(c)
    \/ \E n \in Load : LoadDone(n) \/ LoadFails(n)
    \/ Reload

Spec == Init /\ [][Next]_vars

\* A load ends, and a call goes on once what it waits for has ended.
Fairness ==
    /\ \A n \in Load : WF_vars(LoadDone(n) \/ LoadFails(n))
    /\ \A c \in Caller : WF_vars(Resume(c) \/ Rejected(c) \/ Answered(c))

FairSpec == Spec /\ Fairness

-----------------------------------------------------------------------------
(* Properties *)

\* Between two reloads the model is loaded by one load at a time, however late
\* the loads of earlier reloads end (load, loading).
SingleFlight ==
    \A m, n \in Running : loads[m].epoch = reloads /\ loads[n].epoch = reloads => m = n

\* Every call ends: loads, failures and reloads leave none waiting (load).
CallsEnd == \A c \in Caller : call[c] # Idle ~> call[c] = Idle
=============================================================================

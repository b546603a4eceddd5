-------------------------- MODULE Providers_proofs --------------------------
(***************************************************************************)
(* Proofs about the embedding providers, for every set of requests and of  *)
(* calls and every number of workers, loads and reloads: first the         *)
(* provider with a worker thread (WorkerProvider), then the one that loads *)
(* the model in the process (LocalProvider), then the provider a process   *)
(* has (Providers); last, for every number of legs, downloads and clicks,  *)
(* about the model they need (ModelDownload), which shares no state with   *)
(* the providers.                                                          *)
(***************************************************************************)
EXTENDS Providers, ModelDownload, TLAPS

-----------------------------------------------------------------------------
(* The provider with a worker thread *)

\* The current worker was started since the last reload.
CurrentYoung == worker # None => worker \in young

\* The inductive invariant.
ProviderInv ==
    TypeOK /\ WaitsForCurrent /\ NoLeakedWorker /\ CurrentYoung /\ FailureEarned

\* What rejecting all waiting requests makes of them.
LEMMA RejectedTypes ==
    ASSUME TypeOK
    PROVE  RejectAll \in [Request -> {"new", "waiting", "ok", "error"}]
BY DEF TypeOK, RejectAll

\* A worker is a number above that of no worker.
LEMMA WorkerIsSome == ASSUME NEW g \in Worker PROVE g # None
BY WorkerAssumption DEF WorkerAssumption, Worker, None

\* Letting go of the worker leaves no worker, no thread that runs and nothing
\* that waits.
LEMMA GivingUp ==
    ASSUME ProviderInv, GiveUp
    PROVE  /\ worker' = None /\ pending' = {}
           /\ req' \in [Request -> {"new", "waiting", "ok", "error"}]
           /\ \A r \in Request : req'[r] # "waiting"
           /\ state' \in [Worker -> {"unused", "up", "terminated", "crashed"}]
           /\ \A g \in Worker : state'[g] # "up"
           /\ \A g \in Worker : state[g] = "crashed" => state'[g] = "crashed"
<1> USE DEF ProviderInv, GiveUp
<1>1. req' \in [Request -> {"new", "waiting", "ok", "error"}]  BY RejectedTypes
<1>2. \A r \in Request : req'[r] # "waiting"
  BY DEF RejectAll, WaitsForCurrent
<1>3. state' \in [Worker -> {"unused", "up", "terminated", "crashed"}]  BY DEF TypeOK
<1>4. \A g \in Worker : state'[g] # "up"  BY DEF TypeOK, NoLeakedWorker
<1> QED  BY <1>1, <1>2, <1>3, <1>4 DEF TypeOK

\* Any request to the provider or its threads keeps the invariant.
LEMMA AskKeeps == ASSUME ProviderInv, NEW r \in Request, Ask(r) PROVE ProviderInv'
<1> USE DEF ProviderInv
<1>1. PICK g \in Worker :
        /\ Ensured(g)
        /\ worker' = g
        /\ state' = IF worker = None THEN [state EXCEPT ![g] = "up"] ELSE state
        /\ inbox' = [inbox EXCEPT ![g] = @ \cup {r}]
        /\ sent' = [sent EXCEPT ![r] = g]
        /\ young' = young \cup {g}
  BY DEF Ask
<1>2. /\ req[r] = "new" /\ pending' = pending \cup {r}
      /\ req' = [req EXCEPT ![r] = "waiting"]
      /\ UNCHANGED <<failure, outbox, told, closed, reloads>>
  BY DEF Ask
<1>3. g # None /\ (worker # None => g = worker)  BY <1>1, WorkerIsSome DEF Ensured
<1>4. worker = None => ~failure /\ state'[g] = "up"  BY <1>1 DEF Ensured, TypeOK
<1>5. TypeOK'  BY <1>1, <1>2, <1>3, <1>4 DEF TypeOK
<1>6. WaitsForCurrent'
  <2>1. pending' = {q \in Request : req'[q] = "waiting"}
    BY <1>2 DEF WaitsForCurrent, TypeOK
  <2>2. ASSUME NEW q \in pending' PROVE worker' # None /\ sent'[q] = worker'
    <3>1. CASE q = r
      BY <1>1, <1>3, <3>1 DEF TypeOK
    <3>2. CASE q # r
      <4>1. q \in pending /\ q \in Request  BY <1>2, <3>2 DEF TypeOK
      <4>2. worker # None /\ sent[q] = worker  BY <4>1 DEF WaitsForCurrent
      <4> QED  BY <1>1, <1>3, <3>2, <4>1, <4>2 DEF TypeOK
    <3> QED  BY <3>1, <3>2
  <2> QED  BY <2>1, <2>2 DEF WaitsForCurrent
<1>7. NoLeakedWorker'
  <2> SUFFICES ASSUME NEW h \in Worker, state'[h] = "up" PROVE h = worker'
    BY DEF NoLeakedWorker
  <2>1. state[h] = "up" => h = worker  BY DEF NoLeakedWorker
  <2>2. CASE worker = None
    <3>1. state' = [state EXCEPT ![g] = "up"]  BY <1>1, <2>2
    <3>2. h # g => state'[h] = state[h]  BY <3>1 DEF TypeOK
    <3> QED  BY <1>1, <2>1, <2>2, <3>2, WorkerIsSome
  <2>3. CASE worker # None
    BY <1>1, <1>3, <2>1, <2>3
  <2> QED  BY <2>2, <2>3
<1>8. CurrentYoung'  BY <1>1 DEF CurrentYoung
<1>9. FailureEarned'
  <2>1. CASE worker = None  BY <1>2, <1>4, <2>1 DEF FailureEarned
  <2>2. CASE worker # None  BY <1>1, <1>2, <2>2 DEF FailureEarned
  <2> QED  BY <2>1, <2>2
<1> QED  BY <1>5, <1>6, <1>7, <1>8, <1>9

\* The invariant holds initially and no action leaves it.
THEOREM ProviderInvariant == Spec => []ProviderInv
<1>1. Init => ProviderInv
  <2> SUFFICES ASSUME Init PROVE ProviderInv
    OBVIOUS
  <2>1. 0 \in 0..MaxReloads  BY WorkerAssumption DEF WorkerAssumption
  <2>2. TypeOK  BY <2>1 DEF Init, TypeOK
  <2> QED
    BY <2>2 DEF Init, ProviderInv, WaitsForCurrent, NoLeakedWorker, CurrentYoung, FailureEarned
<1>2. ProviderInv /\ [Next]_vars => ProviderInv'
  <2> SUFFICES ASSUME ProviderInv, [Next]_vars PROVE ProviderInv'
    OBVIOUS
  <2> USE DEF ProviderInv
  <2>1. ASSUME NEW r \in Request, Ask(r) PROVE ProviderInv'
    BY <2>1, AskKeeps
  <2>2. ASSUME NEW r \in Request, Refuse(r) PROVE ProviderInv'
    <3>1. TypeOK'  BY <2>2 DEF Refuse, TypeOK, threads
    <3>2. WaitsForCurrent'  BY <2>2 DEF Refuse, WaitsForCurrent, TypeOK
    <3> QED
      BY <2>2, <3>1, <3>2 DEF Refuse, threads, NoLeakedWorker, CurrentYoung, FailureEarned
  <2>3. CASE Reload
    <3>1. GiveUp /\ failure' = FALSE /\ young' = {} /\ closed' = FALSE
          /\ reloads' \in 0..MaxReloads /\ UNCHANGED <<sent, inbox, outbox, told>>
      BY <2>3, WorkerAssumption DEF Reload, TypeOK, WorkerAssumption
    <3>2. TypeOK'  BY <3>1, GivingUp DEF TypeOK
    <3>3. WaitsForCurrent' /\ NoLeakedWorker' /\ CurrentYoung' /\ FailureEarned'
      BY <3>1, GivingUp DEF WaitsForCurrent, NoLeakedWorker, CurrentYoung, FailureEarned
    <3> QED  BY <3>2, <3>3
  <2>4. CASE Close
    <3>1. GiveUp /\ failure' = TRUE /\ closed' = TRUE
          /\ reloads' \in 0..MaxReloads /\ UNCHANGED <<sent, inbox, outbox, told, young>>
      BY <2>4, WorkerAssumption DEF Close, Fail, TypeOK, WorkerAssumption
    <3>2. TypeOK'  BY <3>1, GivingUp DEF TypeOK
    <3>3. WaitsForCurrent' /\ NoLeakedWorker' /\ CurrentYoung' /\ FailureEarned'
      BY <3>1, GivingUp DEF WaitsForCurrent, NoLeakedWorker, CurrentYoung, FailureEarned
    <3> QED  BY <3>2, <3>3
  <2>5. ASSUME NEW g \in Worker, Message(g) PROVE ProviderInv'
    <3>1. PICK m \in outbox[g] :
            /\ outbox' = [outbox EXCEPT ![g] = @ \ {m}]
            /\ pending' = pending \ {m[1]}
            /\ req' = IF m[1] \in pending THEN [req EXCEPT ![m[1]] = m[2]] ELSE req
            /\ UNCHANGED <<worker, failure, sent, state, inbox, told, young, closed, reloads>>
      BY <2>5 DEF Message
    <3>2. m[1] \in Request /\ m[2] \in {"ok", "error"}  BY <3>1 DEF TypeOK
    <3>3. TypeOK'  BY <3>1, <3>2 DEF TypeOK
    <3>4. WaitsForCurrent'  BY <3>1, <3>2 DEF WaitsForCurrent, TypeOK
    <3> QED  BY <3>1, <3>3, <3>4 DEF NoLeakedWorker, CurrentYoung, FailureEarned
  <2>6. ASSUME NEW g \in Worker, Exit(g) PROVE ProviderInv'
    <3>1. state[g] \in {"terminated", "crashed"} /\ told' = told \cup {g}
          /\ UNCHANGED <<sent, inbox, outbox, young, closed, reloads>>
      BY <2>6 DEF Exit
    <3>2. CASE g = worker
      <4>1. GiveUp /\ failure' = TRUE  BY <2>6, <3>2 DEF Exit, Fail
      <4>2. TypeOK'  BY <3>1, <4>1, GivingUp DEF TypeOK
      <4>3. state'[g] = "crashed" /\ g \in young'
        BY <3>1, <3>2, <4>1, WorkerIsSome, GivingUp DEF TypeOK, CurrentYoung
      <4>4. WaitsForCurrent' /\ NoLeakedWorker' /\ CurrentYoung'
        BY <4>1, GivingUp DEF WaitsForCurrent, NoLeakedWorker, CurrentYoung
      <4>5. FailureEarned'  BY <4>3 DEF FailureEarned
      <4> QED  BY <4>2, <4>4, <4>5
    <3>3. CASE g # worker
      <4>1. UNCHANGED <<worker, failure, pending, req, state>>  BY <2>6, <3>3 DEF Exit
      <4>2. TypeOK'  BY <3>1, <4>1 DEF TypeOK
      <4> QED
        BY <3>1, <4>1, <4>2 DEF WaitsForCurrent, NoLeakedWorker, CurrentYoung, FailureEarned
    <3> QED  BY <3>2, <3>3
  <2>7. ASSUME NEW g \in Worker, Answer(g) PROVE ProviderInv'
    <3>1. TypeOK'  BY <2>7 DEF Answer, TypeOK
    <3> QED
      BY <2>7, <3>1 DEF Answer, WaitsForCurrent, NoLeakedWorker, CurrentYoung, FailureEarned
  <2>8. ASSUME NEW g \in Worker, Crash(g) PROVE ProviderInv'
    <3>1. TypeOK'  BY <2>8 DEF Crash, TypeOK
    <3>2. NoLeakedWorker' /\ FailureEarned'
      BY <2>8 DEF Crash, NoLeakedWorker, FailureEarned, TypeOK
    <3> QED  BY <2>8, <3>1, <3>2 DEF Crash, WaitsForCurrent, CurrentYoung
  <2>9. CASE UNCHANGED vars
    BY <2>9 DEF vars, TypeOK, WaitsForCurrent, NoLeakedWorker, CurrentYoung, FailureEarned
  <2> QED
    BY <2>1, <2>2, <2>3, <2>4, <2>5, <2>6, <2>7, <2>8, <2>9 DEF Next
<1> QED  BY <1>1, <1>2, PTL DEF Spec

\* Types are kept for all numbers of requests, workers and reloads.
THEOREM TypeCorrect == Spec => []TypeOK
<1>1. ProviderInv => TypeOK  BY DEF ProviderInv
<1> QED  BY <1>1, ProviderInvariant, PTL

\* No request waits for a worker the host has given up, so each is still
\* answered or rejected by what happens to the current one.
THEOREM CurrentAwaited == Spec => []WaitsForCurrent
<1>1. ProviderInv => WaitsForCurrent  BY DEF ProviderInv
<1> QED  BY <1>1, ProviderInvariant, PTL

\* The provider refuses requests only after a close, or after a crash of a
\* worker started since the last reload: a reload always makes it usable again,
\* whatever late exit events arrive.
THEOREM FailuresEarned == Spec => []FailureEarned
<1>1. ProviderInv => FailureEarned  BY DEF ProviderInv
<1> QED  BY <1>1, ProviderInvariant, PTL

\* No thread runs that the host has let go of.
THEOREM WorkersKept == Spec => []NoLeakedWorker
<1>1. ProviderInv => NoLeakedWorker  BY DEF ProviderInv
<1> QED  BY <1>1, ProviderInvariant, PTL

-----------------------------------------------------------------------------
(* The provider in the process *)

Loads == Local!Load
Nobody == Local!None

\* A call that waits or embeds names a load, the installed model is one that
\* loaded, and no load is from a reload to come.
LoadsKnown ==
    /\ extractor # Nobody => extractor \in Loads /\ loads[extractor].state = "done"
    /\ \A c \in Caller : call[c].at # "idle" => call[c].load \in Loads
    /\ \A n \in Loads : loads[n].epoch <= again

\* A load of the current epoch that runs is the one new calls wait for, unless
\* the provider is broken; so there is one.
OneCurrent ==
    /\ \A n \in Local!Running : loads[n].epoch = again => broken \/ loading = n
    /\ \A m, n \in Local!Running :
          loads[m].epoch = again /\ loads[n].epoch = again => m = n

LocalInv == LocalTypeOK /\ LoadsKnown /\ OneCurrent

\* A load is a number above that of no load.
LEMMA LoadIsSome == ASSUME NEW n \in Loads PROVE n # Nobody
BY ProviderAssumption DEF ProviderAssumption, Loads, Nobody, Local!Load, Local!None

\* A step on one call that leaves the loads alone and keeps the call's own facts
\* keeps the invariant.
LEMMA CallKeeps ==
    ASSUME LocalInv, NEW c \in Caller, NEW x, call' = [call EXCEPT ![c] = x],
           x \in [at : {"idle", "loading", "embedding"}, load : Loads \cup {Nobody}],
           x.at # "idle" => x.load \in Loads,
           x.at = "embedding" => loads[x.load].state = "done",
           extractor' # extractor =>
             extractor' \in Loads /\ loads[extractor'].state = "done",
           UNCHANGED <<loading, broken, loads, again>>
    PROVE  LocalInv'
<1> USE DEF LocalInv, LocalTypeOK, Local!TypeOK, LoadsKnown, OneCurrent, Loads, Nobody
<1>1. LocalTypeOK'  OBVIOUS
<1>2. LoadsKnown'  OBVIOUS
<1>3. OneCurrent'  BY DEF Local!Running
<1> QED  BY <1>1, <1>2, <1>3

\* A step that ends a running load leaves calls and models as they are.
LEMMA LoadEnds ==
    ASSUME LocalInv, NEW n \in Local!Running, NEW end \in {"done", "failed"},
           loads' = [loads EXCEPT ![n].state = end],
           \/ loading' = loading /\ broken' = broken
           \/ loading' = Nobody /\ broken' = TRUE,
           UNCHANGED <<extractor, call, again>>
    PROVE  LocalInv'
<1> USE DEF LocalInv, LocalTypeOK, LoadsKnown, OneCurrent, Loads, Nobody
<1>1. n \in Loads /\ loads[n].state = "running"  BY DEF Local!Running
<1>2. \A m \in Loads : m # n => loads'[m] = loads[m]  BY <1>1 DEF Local!TypeOK
<1>3. loads'[n].state = end /\ loads'[n].epoch = loads[n].epoch  BY <1>1 DEF Local!TypeOK
<1>4. \A m \in Loads : loads[m].state = "done" => loads'[m].state = "done"
  BY <1>1, <1>2
<1>5. Local!Running' \subseteq Local!Running  BY <1>1, <1>2, <1>3 DEF Local!Running
<1>6. \A m \in Loads : loads'[m].epoch = loads[m].epoch  BY <1>2, <1>3
<1>7. LocalTypeOK'
  <2>1. \A c \in Caller : call'[c].at = "embedding" => loads'[call'[c].load].state = "done"
    BY <1>4 DEF Local!TypeOK
  <2> QED  BY <1>1, <2>1, ZenonT(30) DEF Local!TypeOK
<1>8. LoadsKnown'  BY <1>4, <1>6
<1>9. OneCurrent'  BY <1>5, <1>6 DEF Local!Running
<1> QED  BY <1>7, <1>8, <1>9

\* A call that starts a load finds none of its epoch running.
LEMMA LoadStarts ==
    ASSUME LocalInv, NEW c \in Caller, Local!CallLoads(c)
    PROVE  LocalInv'
<1> USE DEF LocalInv, LocalTypeOK, LoadsKnown, OneCurrent, Loads, Nobody
<1>1. PICK n \in Local!Load :
        /\ loads[n].state = "unused"
        /\ loads' = [loads EXCEPT ![n] = [state |-> "running", epoch |-> again]]
        /\ loading' = n
        /\ call' = [call EXCEPT ![c] = [at |-> "loading", load |-> n]]
  BY DEF Local!CallLoads, Local!At
<1>2. /\ extractor = Nobody /\ ~broken /\ loading = Nobody
      /\ UNCHANGED <<extractor, broken, again>>
  BY DEF Local!CallLoads
<1>3. \A m \in Local!Running : loads[m].epoch # again
  BY <1>2, LoadIsSome DEF Local!Running
<1>4. \A m \in Loads : m # n => loads'[m] = loads[m]  BY <1>1 DEF Local!TypeOK
<1>5. loads'[n] = [state |-> "running", epoch |-> again]  BY <1>1 DEF Local!TypeOK
<1>6. again \in Nat /\ again \in Local!Epoch
    BY WorkerAssumption DEF WorkerAssumption, Local!TypeOK, Local!Epoch
<1>7. \A m \in Local!Running' : m # n => m \in Local!Running
  BY <1>4 DEF Local!Running
<1>8. LocalTypeOK'
  <2>1. ASSUME NEW d \in Caller, call'[d].at = "embedding"
        PROVE  loads'[call'[d].load].state = "done"
    <3>1. d # c  BY <1>1, <2>1 DEF Local!TypeOK
    <3>2. call'[d] = call[d]  BY <1>1, <3>1 DEF Local!TypeOK
    <3>3. loads[call[d].load].state = "done" /\ call[d].load \in Loads
      BY <2>1, <3>2 DEF Local!TypeOK
    <3> QED  BY <1>1, <1>4, <3>2, <3>3
  <2>2. loads' \in [Local!Load -> [state : {"unused", "running", "done", "failed"},
                                   epoch : Local!Epoch]]
    BY <1>1, <1>6 DEF Local!TypeOK
  <2> QED  BY <1>1, <1>2, <2>1, <2>2 DEF Local!TypeOK, Local!Epoch
<1>9. LoadsKnown'
  <2>1. \A d \in Caller : call'[d].at # "idle" => call'[d].load \in Loads
    BY <1>1 DEF Local!TypeOK
  <2>2. \A m \in Loads : loads'[m].epoch <= again'
    BY <1>2, <1>4, <1>5, <1>6
  <2> QED  BY <1>2, <2>1, <2>2
<1>10. OneCurrent'
  <2>1. \A m \in Local!Running' : loads'[m].epoch = again' => m = n
    BY <1>2, <1>3, <1>4, <1>7 DEF Local!Running
  <2> QED  BY <1>1, <2>1
<1> QED  BY <1>8, <1>9, <1>10

\* No step of the provider in the process leaves the invariant.
LEMMA LocalStep == ASSUME LocalInv, Local!Next PROVE LocalInv'
<1> USE DEF Loads, Nobody
<1>0. /\ call \in [Caller -> [at : {"idle", "loading", "embedding"},
                             load : Loads \cup {Nobody}]]
      /\ loading \in Loads \cup {Nobody}
  BY DEF LocalInv, LocalTypeOK, Local!TypeOK
<1>1. ASSUME NEW c \in Caller, Local!CallLoaded(c) PROVE LocalInv'
  <2>1. extractor \in Loads /\ loads[extractor].state = "done"
    BY <1>1 DEF Local!CallLoaded, LocalInv, LoadsKnown
  <2> DEFINE x == [at |-> "embedding", load |-> extractor]
  <2>2. call' = [call EXCEPT ![c] = x]  BY <1>1 DEF Local!CallLoaded, Local!At
  <2>3. UNCHANGED <<extractor, loading, broken, loads, again>>  BY <1>1 DEF Local!CallLoaded
  <2>4. x.at = "embedding" /\ x.load = extractor
        /\ x \in [at : {"idle", "loading", "embedding"}, load : Loads \cup {Nobody}]
    BY <2>1
  <2> HIDE DEF x
  <2> QED  BY <2>1, <2>2, <2>3, <2>4, CallKeeps
<1>2. ASSUME NEW c \in Caller, Local!CallJoins(c) PROVE LocalInv'
  <2> DEFINE x == [at |-> "loading", load |-> loading]
  <2>1. loading \in Loads  BY <1>0, <1>2 DEF Local!CallJoins
  <2>2. call' = [call EXCEPT ![c] = x]  BY <1>2 DEF Local!CallJoins, Local!At
  <2>3. UNCHANGED <<extractor, loading, broken, loads, again>>  BY <1>2 DEF Local!CallJoins
  <2>4. x.at = "loading" /\ x.load = loading
        /\ x \in [at : {"idle", "loading", "embedding"}, load : Loads \cup {Nobody}]
    BY <2>1
  <2> HIDE DEF x
  <2> QED  BY <2>1, <2>2, <2>3, <2>4, CallKeeps
<1>3. ASSUME NEW c \in Caller, Local!Resume(c) PROVE LocalInv'
  <2> DEFINE x == [at |-> "embedding", load |-> call[c].load]
  <2>1. call[c].load \in Loads /\ loads[call[c].load].state = "done"
    BY <1>3 DEF Local!Resume, LocalInv, LoadsKnown
  <2>2. call' = [call EXCEPT ![c] = x]
    <3>1. PICK a \in {"idle", "loading", "embedding"}, n \in Loads \cup {Nobody} :
            call[c] = [at |-> a, load |-> n]
      BY <1>0
    <3>2. [call[c] EXCEPT !.at = "embedding"] = x  BY <3>1
    <3>3. call' = [call EXCEPT ![c] = [call[c] EXCEPT !.at = "embedding"]]
      BY <1>3 DEF Local!Resume
    <3> QED  BY <3>2, <3>3
  <2>3. extractor' = call[c].load /\ UNCHANGED <<loading, broken, loads, again>>
    BY <1>3 DEF Local!Resume
  <2>4. x.at = "embedding" /\ x.load = call[c].load
        /\ x \in [at : {"idle", "loading", "embedding"}, load : Loads \cup {Nobody}]
    BY <2>1
  <2> HIDE DEF x
  <2> QED  BY <2>1, <2>2, <2>3, <2>4, CallKeeps
<1>4. ASSUME NEW c \in Caller, Local!Rejected(c) \/ Local!Answered(c) PROVE LocalInv'
  <2> DEFINE x == [at |-> "idle", load |-> Nobody]
  <2>1. call' = [call EXCEPT ![c] = x] /\ UNCHANGED <<extractor, loading, broken, loads, again>>
    BY <1>4 DEF Local!Rejected, Local!Answered, Local!Idle
  <2>2. x.at = "idle"
        /\ x \in [at : {"idle", "loading", "embedding"}, load : Loads \cup {Nobody}]
    OBVIOUS
  <2> HIDE DEF x
  <2> QED  BY <2>1, <2>2, CallKeeps
<1>5. ASSUME NEW n \in Local!Load, Local!LoadDone(n) \/ Local!LoadFails(n) PROVE LocalInv'
  <2>1. CASE Local!LoadDone(n)
    BY <2>1, LoadEnds DEF Local!LoadDone
  <2>2. CASE Local!LoadFails(n)
    BY <2>2, LoadEnds DEF Local!LoadFails
  <2> QED  BY <1>5, <2>1, <2>2
<1>6. CASE Local!Reload
  <2>1. /\ again < MaxReloads /\ again' = again + 1 /\ broken' = FALSE
        /\ extractor' = Nobody /\ loading' = Nobody /\ UNCHANGED <<loads, call>>
    BY <1>6 DEF Local!Reload
  <2>2. again \in 0..MaxReloads /\ MaxReloads \in Nat /\ LocalTypeOK
    BY WorkerAssumption
    DEF WorkerAssumption, LocalInv, LocalTypeOK, Local!TypeOK, Local!Epoch
  <2>3. \A n \in Loads : loads[n].epoch \in Nat /\ loads[n].epoch <= again
    BY <2>2 DEF LocalInv, LoadsKnown, LocalTypeOK, Local!TypeOK, Local!Epoch
  <2>4. again' \in 0..MaxReloads  BY <2>1, <2>2
  <2>5. LocalTypeOK'  BY <2>1, <2>2, <2>4 DEF LocalTypeOK, Local!TypeOK, Local!Epoch
  <2>6. LoadsKnown'  BY <2>1, <2>2, <2>3 DEF LocalInv, LoadsKnown
  <2>7. \A n \in Local!Running' : loads'[n].epoch # again'
    BY <2>1, <2>2, <2>3 DEF Local!Running
  <2>8. OneCurrent'  BY <2>7 DEF OneCurrent
  <2> QED  BY <2>5, <2>6, <2>8 DEF LocalInv
<1> QED
  BY <1>1, <1>2, <1>3, <1>4, <1>5, <1>6, LoadStarts DEF Local!Next

-----------------------------------------------------------------------------
(* The provider of a process *)

\* A process has one of the two providers: a step of the process is a step of
\* that one and leaves the other alone.
THEOREM EitherProvider == ProviderSpec => Spec /\ Local!Spec
<1>1. ProviderInit => Init /\ Local!Init  BY DEF ProviderInit
<1>2. [ProviderNext]_<<inline, local, vars>> => [Next]_vars /\ [Local!Next]_(Local!vars)
  BY DEF ProviderNext, local, vars, Local!vars
<1> QED  BY <1>1, <1>2, PTL DEF ProviderSpec, Spec, Local!Spec

\* The invariant holds of the provider in the process.
THEOREM LocalInvariant == Local!Spec => []LocalInv
<1>1. Local!Init => LocalInv
  <2> SUFFICES ASSUME Local!Init PROVE LocalInv
    OBVIOUS
  <2>1. 0 \in Local!Epoch  BY WorkerAssumption DEF WorkerAssumption, Local!Epoch
  <2>2. LocalTypeOK
    BY <2>1 DEF Local!Init, LocalTypeOK, Local!TypeOK, Local!Idle
  <2>3. LoadsKnown
    BY DEF Local!Init, LoadsKnown, Local!Idle, Loads, Nobody
  <2>4. Local!Running = {}  BY DEF Local!Init, Local!Running
  <2> QED  BY <2>2, <2>3, <2>4 DEF LocalInv, OneCurrent
<1>2. LocalInv /\ [Local!Next]_(Local!vars) => LocalInv'
  <2> SUFFICES ASSUME LocalInv, [Local!Next]_(Local!vars) PROVE LocalInv'
    OBVIOUS
  <2>1. CASE UNCHANGED Local!vars
    BY <2>1 DEF Local!vars, LocalInv, LocalTypeOK, Local!TypeOK, LoadsKnown, OneCurrent,
                Local!Running
  <2> QED  BY <2>1, LocalStep
<1> QED  BY <1>1, <1>2, PTL DEF Local!Spec

\* Types are kept, and a call that embeds has a loaded model, whatever loads of
\* earlier reloads do late.
THEOREM LocalTypes == ProviderSpec => []LocalTypeOK
<1>1. LocalInv => LocalTypeOK  BY DEF LocalInv
<1> QED  BY <1>1, EitherProvider, LocalInvariant, PTL

\* Between two reloads the model is loaded by one load at a time, for every
\* number of calls, loads and reloads.
THEOREM OneLoad == ProviderSpec => []SingleFlight
<1>1. LocalInv => SingleFlight
  BY DEF LocalInv, OneCurrent, SingleFlight, Local!SingleFlight
<1> QED  BY <1>1, EitherProvider, LocalInvariant, PTL

\* What holds of the provider with a worker holds of the provider of a process.
THEOREM WorkerKept ==
    ProviderSpec => [](TypeOK /\ WaitsForCurrent /\ FailureEarned /\ NoLeakedWorker)
<1>1. ProviderInv => TypeOK /\ WaitsForCurrent /\ FailureEarned /\ NoLeakedWorker
  BY DEF ProviderInv
<1> QED  BY <1>1, EitherProvider, ProviderInvariant, PTL

-----------------------------------------------------------------------------
(* The legs of a memory service and the download of the model              *)

\* The records of legs and of downloads.
LegState == [kind : Kind, closed : BOOLEAN, stack : BOOLEAN, unavailable : BOOLEAN,
             downloading : BOOLEAN, failures : 0..(QueryFailures + 1)]

FlightState == [leg : Leg \cup {NoOne}, kind : {"none", "load", "files"},
                left : SUBSET (Parts \cup {"writing"})]
Downloads == [Flight -> FlightState]

\* Legs are used one after the other, each closed by its successor; a download is
\* that of a leg used so far.
LegsInv ==
    /\ ~legs[live].closed
    /\ \A l \in Leg : l < live => legs[l].closed
    /\ \A l \in Leg : l > live => legs[l] = Fresh("off") /\ l \notin done
    /\ \A f \in Flight :
          /\ flights[f].kind = "none" => flights[f] = NoFlight
          /\ flights[f].kind = "load" => flights[f].left = {}
          /\ flights[f].kind # "none" => flights[f].leg \in Leg /\ flights[f].leg <= live

\* What the legs are expected to be.
LegsHold == LegsInv /\ SpinnerHonest /\ HookFollowsLive /\ UpAfterDownload

\* The inductive invariant.
DownloadInv == DownloadTypeOK /\ LegsHold

\* What the cache and the installation are.
CacheTypes ==
    /\ weights \in {"none", "part", "whole"}
    /\ writer \in Flight \cup {NoOne}
    /\ writer # NoOne => weights = "part" /\ "writing" \in flights[writer].left
    /\ rest \in BOOLEAN /\ runtime \in BOOLEAN /\ installing \in BOOLEAN
    /\ clicks \in 0..MaxClicks

\* TypeOK, taken apart.
LEMMA TypeParts ==
    DownloadTypeOK <=>
        /\ CacheTypes /\ live \in Leg /\ legs \in [Leg -> LegState]
        /\ hook \in Leg \cup {NoOne} /\ flights \in Downloads
        /\ done \in SUBSET Leg /\ revived \in BOOLEAN
BY DEF DownloadTypeOK, CacheTypes, LegState, Downloads, FlightState

\* What becomes of a leg's record: a stack is never lost, and nothing but stack
\* and unavailable changes.
LEMMA EnsuredLeg ==
    ASSUME NEW leg \in LegState
    PROVE  /\ StackEnsured(leg) \in LegState
           /\ StackEnsured(leg).kind = leg.kind /\ StackEnsured(leg).closed = leg.closed
           /\ StackEnsured(leg).downloading = leg.downloading
           /\ leg.stack => StackEnsured(leg).stack
           /\ leg.unavailable => StackEnsured(leg).unavailable
           /\ leg.kind = "local" /\ ~leg.unavailable /\ Inspected => StackEnsured(leg).stack
           /\ Inspected => StackEnsured(leg).stack \/ StackEnsured(leg).unavailable
BY DEF StackEnsured, LegState, Inspected

\* A new leg is open and downloads nothing.
LEMMA FreshLeg ==
    ASSUME NEW k \in Kind
    PROVE  /\ Fresh(k) \in LegState /\ Fresh(k).kind = k
           /\ ~Fresh(k).closed /\ ~Fresh(k).downloading
BY DownloadAssumption DEF Fresh, LegState

\* A click shows a download only where one runs or starts.
LEMMA ClickedLeg ==
    ASSUME NEW leg \in LegState
    PROVE  /\ Clicked(leg) \in LegState
           /\ Clicked(leg).kind = leg.kind /\ Clicked(leg).closed = leg.closed
           /\ Clicked(leg).stack = leg.stack /\ Clicked(leg).unavailable = leg.unavailable
           /\ Clicked(leg).downloading => leg.downloading \/ Starts(leg)
BY DEF Clicked, LegState

\* A closed leg has no stack.
LEMMA ClosedLeg ==
    ASSUME NEW leg \in LegState
    PROVE  /\ Closed(leg) \in LegState /\ Closed(leg).closed /\ ~Closed(leg).stack
           /\ Closed(leg).downloading = leg.downloading
BY DEF Closed, LegState

-----------------------------------------------------------------------------

\* The invariant holds initially.
LEMMA InitDownload == DownloadInit => DownloadInv
<1> SUFFICES ASSUME DownloadInit PROVE DownloadInv  OBVIOUS
<1> USE DownloadAssumption
<1>1. PICK k \in Kind : legs = [l \in Leg |->
                        IF l = 1 THEN StackEnsured(Fresh(k)) ELSE Fresh("off")]
  BY DEF DownloadInit
<1>2. 1 \in Leg /\ live = 1 /\ "off" \in Kind  BY DEF DownloadInit, Leg, Kind
<1>3. \A l \in Leg : legs[l] \in LegState /\ ~legs[l].closed /\ ~legs[l].downloading
  BY <1>1, <1>2, FreshLeg, EnsuredLeg
<1>4. \A l \in Leg : l > live => legs[l] = Fresh("off")
  BY <1>1, <1>2 DEF Leg
<1>5. legs \in [Leg -> LegState]
  <2>1. legs = [l \in Leg |-> legs[l]]  BY <1>1
  <2> QED  BY <1>3, <2>1
<1>6. DownloadTypeOK
  <2>1. hook \in Leg \cup {NoOne}  BY <1>2 DEF DownloadInit
  <2>2. NoFlight \in FlightState
    BY DEF NoFlight, FlightState
  <2>3. flights \in Downloads
    BY <2>2 DEF DownloadInit, Downloads
  <2>4. rest \in BOOLEAN
    <3>1. rest = (weights = "whole")  BY DEF DownloadInit
    <3>2. (weights = "whole") \in BOOLEAN  OBVIOUS
    <3> QED  BY <3>1, <3>2
  <2>5. weights \in {"none", "part", "whole"} /\ writer = NoOne /\ done = {}
    BY DEF DownloadInit
  <2>6. runtime \in BOOLEAN /\ installing \in BOOLEAN /\ revived \in BOOLEAN
    BY Zenon DEF DownloadInit
  <2>7. clicks \in 0..MaxClicks  BY DEF DownloadInit
  <2>8. /\ live \in Leg /\ writer \in Flight \cup {NoOne} /\ done \in SUBSET Leg
        /\ writer # NoOne => weights = "part" /\ "writing" \in flights[writer].left
    BY <1>2, <2>5
  <2>9. CacheTypes  BY <2>4, <2>5, <2>6, <2>7, <2>8, Zenon DEF CacheTypes
  <2>10. flights \in Downloads  BY <2>3 DEF Downloads, FlightState
  <2> QED  BY <1>5, <2>1, <2>6, <2>8, <2>9, <2>10, TypeParts
<1>7. LegsInv
  <2>1. \A f \in Flight : flights[f] = NoFlight  BY DEF DownloadInit
  <2>2. NoFlight.kind = "none"  BY DEF NoFlight
  <2>3. \A l \in Leg : ~(l < live)  BY <1>2 DEF Leg
  <2>4. done = {}  BY DEF DownloadInit
  <2> QED  BY <1>2, <1>3, <1>4, <2>1, <2>2, <2>3, <2>4 DEF LegsInv
<1>8. SpinnerHonest /\ HookFollowsLive /\ UpAfterDownload
  BY <1>2, <1>3 DEF DownloadInit, SpinnerHonest, HookFollowsLive, UpAfterDownload
<1> QED  BY <1>6, <1>7, <1>8 DEF DownloadInv, LegsHold

\* A step on the record of the leg in use that keeps its stack.
LEMMA LiveStep ==
    ASSUME DownloadInv, NEW r \in LegState, legs' = [legs EXCEPT ![live] = r],
           r.closed = legs[live].closed, legs[live].stack => r.stack,
           legs[live].unavailable => r.unavailable,
           r.downloading => \E f \in Flight : flights'[f].leg = live,
           \A f \in Flight : flights[f] # NoFlight => flights'[f] = flights[f],
           \A f \in Flight :
              \/ flights'[f] = flights[f]
              \/ flights'[f] \in [leg : {live}, kind : {"load"}, left : {{}}]
              \/ flights'[f] \in [leg : {live}, kind : {"files"}, left : {Parts}],
           flights' \in Downloads,
           UNCHANGED <<live, done, revived>>,
           hook' = IF r.stack /\ ~legs[live].stack THEN live ELSE hook
    PROVE  /\ legs' \in [Leg -> LegState] /\ hook' \in Leg \cup {NoOne}
           /\ LegsHold'
<1> USE DEF DownloadInv, LegsHold
<1>1. live \in Leg /\ legs \in [Leg -> LegState]  BY DEF DownloadTypeOK, LegState
<1>2. legs'[live] = r /\ \A l \in Leg \ {live} : legs'[l] = legs[l]  BY <1>1
<1>3. legs' \in [Leg -> LegState] /\ hook' \in Leg \cup {NoOne}
    BY <1>1, <1>2 DEF DownloadTypeOK
<1>4. LegsInv'
  <2>1. ASSUME NEW f \in Flight
        PROVE  /\ flights'[f].kind = "none" => flights'[f] = NoFlight
               /\ flights'[f].kind = "load" => flights'[f].left = {}
               /\ flights'[f].kind # "none" => flights'[f].leg \in Leg /\ flights'[f].leg <= live
    BY <1>1 DEF LegsInv, Leg
  <2> QED  BY <1>1, <1>2, <2>1 DEF LegsInv, Leg
<1>5. SpinnerHonest'
  <2>1. ASSUME NEW l \in Leg, l # live, legs'[l].downloading
        PROVE  \E f \in Flight : flights'[f].leg = l
    <3>1. PICK f \in Flight : flights[f].leg = l  BY <1>2, <2>1 DEF SpinnerHonest
    <3>2. flights[f] # NoFlight  BY <3>1, DownloadAssumption DEF NoFlight, NoOne, Leg
    <3> QED  BY <3>1, <3>2
  <2> QED  BY <1>1, <1>2, <2>1 DEF SpinnerHonest
<1>6. HookFollowsLive'
  BY <1>1, <1>2 DEF HookFollowsLive, LegsInv, LegState
<1>7. UpAfterDownload'
  BY <1>1, <1>2 DEF UpAfterDownload, LegState
<1> QED  BY <1>3, <1>4, <1>5, <1>6, <1>7
\* A step of the cache and of one plain download: legs see nothing of it.
LEMMA FetchStep ==
    ASSUME DownloadInv, NEW f \in Flight, NEW parts \in SUBSET (Parts \cup {"writing"}),
           \/ Left(f, parts) /\ Runs(f, "files")
           \/ UNCHANGED flights,
           UNCHANGED <<live, legs, hook, done, revived>>
    PROVE  /\ flights' \in Downloads
           /\ LegsHold'
<1> USE DEF DownloadInv, LegsHold
<1>1. \A g \in Flight :
         /\ flights'[g].leg = flights[g].leg /\ flights'[g].kind = flights[g].kind
         /\ flights[g].kind # "files" => flights'[g] = flights[g]
  BY DEF DownloadTypeOK, Left, Runs
<1>2. flights' \in Downloads
  BY DEF DownloadTypeOK, Left, Downloads, FlightState
<1>3. LegsInv'  BY <1>1 DEF LegsInv
<1>4. SpinnerHonest'
  <2>1. ASSUME NEW l \in Leg, legs'[l].downloading PROVE \E g \in Flight : flights'[g].leg = l
    BY <1>1, <2>1 DEF SpinnerHonest
  <2> QED  BY <2>1 DEF SpinnerHonest
<1>5. HookFollowsLive' /\ UpAfterDownload'  BY DEF HookFollowsLive, UpAfterDownload
<1> QED  BY <1>2, <1>3, <1>4, <1>5

\* The leg in use is replaced.
LEMMA SwapStep ==
    ASSUME DownloadInv, NEW r \in LegState, Swap(r), ~r.closed,
           r.downloading => \E f \in Flight : flights'[f].leg = live + 1,
           \A f \in Flight : flights[f] # NoFlight => flights'[f] = flights[f],
           \A f \in Flight :
              \/ flights'[f] = flights[f]
              \/ flights'[f] \in [leg : {live + 1}, kind : {"load"}, left : {{}}]
              \/ flights'[f] \in [leg : {live + 1}, kind : {"files"}, left : {Parts}],
           UNCHANGED <<done, revived>>
    PROVE  /\ live' \in Leg /\ legs' \in [Leg -> LegState] /\ hook' \in Leg \cup {NoOne}
           /\ LegsHold'
<1> USE DEF DownloadInv, LegsHold
<1>1. /\ live \in Leg /\ live + 1 \in Leg /\ live' = live + 1 /\ live # live + 1
      /\ legs \in [Leg -> LegState]
  BY DownloadAssumption DEF DownloadTypeOK, LegState, Swap, Leg
<1>2. legs'[live + 1] = r /\ legs'[live] = Closed(legs[live])
      /\ \A l \in Leg \ {live, live + 1} : legs'[l] = legs[l]
  BY <1>1 DEF Swap
<1>3. /\ Closed(legs[live]) \in LegState /\ Closed(legs[live]).closed /\ ~Closed(legs[live]).stack
      /\ Closed(legs[live]).downloading = legs[live].downloading
  BY <1>1, ClosedLeg
<1>4. live' \in Leg /\ legs' \in [Leg -> LegState] /\ hook' \in Leg \cup {NoOne}
  BY <1>1, <1>3 DEF Swap
<1>5. LegsInv'
  <2>1. ASSUME NEW f \in Flight
        PROVE  /\ flights'[f].kind = "none" => flights'[f] = NoFlight
               /\ flights'[f].kind = "load" => flights'[f].left = {}
               /\ flights'[f].kind # "none" => flights'[f].leg \in Leg /\ flights'[f].leg <= live'
    BY <1>1 DEF LegsInv, Leg
  <2>2. ~legs'[live'].closed  BY <1>1, <1>2
  <2>3. \A l \in Leg : l < live' => legs'[l].closed
    BY <1>1, <1>2, <1>3 DEF LegsInv, Leg
  <2>4. \A l \in Leg : l > live' => legs'[l] = Fresh("off") /\ l \notin done'
    BY <1>1, <1>2 DEF LegsInv, Leg
  <2> QED  BY <2>1, <2>2, <2>3, <2>4 DEF LegsInv
<1>6. SpinnerHonest'
  <2>1. ASSUME NEW l \in Leg, l # live + 1, legs'[l].downloading
        PROVE  \E f \in Flight : flights'[f].leg = l
    <3>1. PICK f \in Flight : flights[f].leg = l  BY <1>1, <1>2, <1>3, <2>1 DEF SpinnerHonest
    <3>2. flights[f] # NoFlight  BY <3>1, DownloadAssumption DEF NoFlight, NoOne, Leg
    <3> QED  BY <3>1, <3>2
  <2> QED  BY <1>1, <1>2, <2>1 DEF SpinnerHonest
<1>7. HookFollowsLive'
  <2>1. hook' = IF r.stack THEN live + 1 ELSE NoOne  BY DEF Swap
  <2>2. ASSUME ~revived, NEW l \in Leg, legs'[l].closed PROVE ~legs'[l].stack
    BY <1>1, <1>2, <1>3, <2>2 DEF HookFollowsLive
  <2> QED  BY <1>1, <1>2, <2>1, <2>2 DEF HookFollowsLive
<1>8. UpAfterDownload'
  <2>1. live + 1 \notin done  BY <1>1 DEF LegsInv, Leg
  <2> QED  BY <1>1, <1>2, <1>3, <2>1 DEF UpAfterDownload, DownloadTypeOK
<1> QED  BY <1>4, <1>5, <1>6, <1>7, <1>8

\* A download that has fetched everything ends.
LEMMA EndStep ==
    ASSUME DownloadInv, NEW f \in Flight, flights[f].kind # "none", Ended(f), UNCHANGED live
    PROVE  /\ legs' \in [Leg -> LegState] /\ hook' \in Leg \cup {NoOne}
           /\ done' \in SUBSET Leg /\ revived' \in BOOLEAN
           /\ LegsHold'
<1> USE DEF DownloadInv, LegsHold
<1> DEFINE l == flights[f].leg
           retry == [legs[l] EXCEPT !.downloading = FALSE, !.unavailable = FALSE]
           leg == IF Inspected THEN StackEnsured(retry) ELSE [legs[l] EXCEPT !.downloading = FALSE]
<1>1. l \in Leg /\ l <= live /\ live \in Leg /\ legs \in [Leg -> LegState]
  BY DEF LegsInv, DownloadTypeOK, LegState
<1>2. /\ retry \in LegState /\ retry.kind = legs[l].kind /\ retry.closed = legs[l].closed
      /\ retry.stack = legs[l].stack /\ ~retry.downloading /\ ~retry.unavailable
  BY <1>1, ZenonT(30) DEF LegState
<1>3. /\ leg \in LegState /\ leg.closed = legs[l].closed /\ ~leg.downloading
      /\ legs[l].stack => leg.stack
      /\ ~Inspected => leg.stack = legs[l].stack
      /\ Inspected => leg.stack \/ leg.unavailable
      /\ ~Inspected => leg.unavailable = legs[l].unavailable
      /\ Inspected /\ leg.kind = "local" => leg.stack
  <2>1. CASE Inspected
    <3>1. leg = StackEnsured(retry)  BY <2>1
    <3> HIDE DEF leg, retry
    <3>2. /\ StackEnsured(retry) \in LegState
          /\ StackEnsured(retry).kind = retry.kind /\ StackEnsured(retry).closed = retry.closed
          /\ StackEnsured(retry).downloading = retry.downloading
          /\ retry.stack => StackEnsured(retry).stack
          /\ retry.kind = "local" => StackEnsured(retry).stack
          /\ StackEnsured(retry).stack \/ StackEnsured(retry).unavailable
      BY <1>2, <2>1, EnsuredLeg
    <3> QED  BY <1>2, <2>1, <3>1, <3>2
  <2>2. CASE ~Inspected  BY <1>1, <2>2 DEF LegState
  <2> QED  BY <2>1, <2>2
<1>4. /\ flights' = [flights EXCEPT ![f] = NoFlight]
      /\ legs' = [legs EXCEPT ![l] = leg]
      /\ hook' = IF leg.stack /\ ~legs[l].stack THEN l ELSE hook
      /\ done' = IF Inspected /\ leg.kind = "local" THEN done \cup {l} ELSE done
      /\ revived' = (revived \/ (Inspected /\ legs[l].closed))
  BY DEF Ended, Hooked
<1> HIDE DEF leg, retry, l
<1>5. legs'[l] = leg /\ \A k \in Leg \ {l} : legs'[k] = legs[k]  BY <1>1, <1>4
<1>6. /\ legs' \in [Leg -> LegState] /\ hook' \in Leg \cup {NoOne}
      /\ done' \in SUBSET Leg /\ revived' \in BOOLEAN
  BY <1>1, <1>3, <1>4 DEF DownloadTypeOK, LegState
<1>7. flights'[f] = NoFlight /\ \A g \in Flight \ {f} : flights'[g] = flights[g]
  BY <1>4 DEF DownloadTypeOK
<1>8. LegsInv'
  <2>1. ASSUME NEW g \in Flight
        PROVE  /\ flights'[g].kind = "none" => flights'[g] = NoFlight
               /\ flights'[g].kind = "load" => flights'[g].left = {}
               /\ flights'[g].kind # "none" => flights'[g].leg \in Leg /\ flights'[g].leg <= live'
    <3>1. live' = live  BY <1>4
    <3>2. CASE g = f
      BY <3>2, <1>7 DEF NoFlight
    <3>3. CASE g # f
      BY <3>1, <3>3, <1>7 DEF LegsInv
    <3> QED  BY <3>2, <3>3
  <2>2. ~legs'[live'].closed /\ \A k \in Leg : k < live' => legs'[k].closed
    BY <1>1, <1>3, <1>5 DEF LegsInv
  <2>3. \A k \in Leg : k > live' => legs'[k] = Fresh("off") /\ k \notin done'
    BY <1>1, <1>4, <1>5 DEF LegsInv, Leg
  <2> QED  BY <2>1, <2>2, <2>3 DEF LegsInv
<1>9. SpinnerHonest'
  <2>1. ASSUME NEW k \in Leg, legs'[k].downloading PROVE \E g \in Flight : flights'[g].leg = k
    <3>1. k # l /\ legs[k].downloading  BY <1>3, <1>5, <2>1
    <3>2. PICK g \in Flight : flights[g].leg = k  BY <3>1 DEF SpinnerHonest
    <3> QED  BY <1>7, <3>1, <3>2 DEF l
  <2> QED  BY <2>1 DEF SpinnerHonest
<1>10. HookFollowsLive'
  <2> SUFFICES ASSUME ~revived' PROVE HookFollowsLive'  BY DEF HookFollowsLive
  <2>1. ~revived /\ (Inspected => ~legs[l].closed)  BY <1>4 DEF DownloadTypeOK
  <2>2. CASE Inspected
    <3>1. l = live  BY <1>1, <2>1, <2>2 DEF LegsInv, Leg
    <3> QED  BY <1>1, <1>3, <1>4, <1>5, <2>1, <2>2, <3>1 DEF HookFollowsLive, LegState
  <2>3. CASE ~Inspected
    BY <1>1, <1>3, <1>4, <1>5, <2>1, <2>3 DEF HookFollowsLive
  <2> QED  BY <2>2, <2>3
<1>11. UpAfterDownload'
  <2>1. ASSUME NEW k \in done', ~legs'[k].closed, ~legs'[k].unavailable PROVE legs'[k].stack
    <3>1. CASE k = l  BY <1>1, <1>3, <1>4, <1>5, <2>1, <3>1 DEF UpAfterDownload
    <3>2. CASE k # l  BY <1>4, <1>5, <2>1, <3>2 DEF UpAfterDownload, DownloadTypeOK
    <3> QED  BY <3>1, <3>2
  <2> QED  BY <2>1 DEF UpAfterDownload
<1> QED  BY <1>6, <1>8, <1>9, <1>10, <1>11

-----------------------------------------------------------------------------
(* The actions                                                             *)

\* A download that starts for a leg takes a free place.
LEMMA Beginning ==
    ASSUME DownloadInv, NEW l \in Leg, NEW leg \in LegState, Begin(l, leg)
    PROVE  /\ flights' \in Downloads
           /\ \A f \in Flight : flights[f] # NoFlight => flights'[f] = flights[f]
           /\ \A f \in Flight :
                 \/ flights'[f] = flights[f]
                 \/ flights'[f] \in [leg : {l}, kind : {"load"}, left : {{}}]
                 \/ flights'[f] \in [leg : {l}, kind : {"files"}, left : {Parts}]
           /\ Starts(leg) => \E f \in Flight : flights'[f].leg = l
<1>1. flights \in Downloads  BY TypeParts DEF DownloadInv
<1>2. CASE ~Starts(leg)
  BY <1>1, <1>2 DEF Begin
<1>3. CASE Starts(leg)
  <2>1. PICK f \in Flight : flights[f] = NoFlight /\ flights' = [flights EXCEPT ![f] = Begun(l, leg)]
    BY <1>3 DEF Begin
  <2>2. \/ Begun(l, leg) \in [leg : {l}, kind : {"load"}, left : {{}}]
        \/ Begun(l, leg) \in [leg : {l}, kind : {"files"}, left : {Parts}]
    BY DEF Begun
  <2>3. Begun(l, leg) \in FlightState
    BY <2>2 DEF Begun, FlightState
  <2>4. flights' \in Downloads  BY <1>1, <2>1, <2>3 DEF Downloads, FlightState
  <2>5. flights'[f] = Begun(l, leg) /\ \A g \in Flight \ {f} : flights'[g] = flights[g]
    BY <1>1, <2>1 DEF Downloads, FlightState
  <2>6. flights'[f].leg = l  BY <2>5 DEF Begun
  <2> QED  BY <2>1, <2>2, <2>4, <2>5, <2>6
<1> QED  BY <1>2, <1>3

\* The download that writes is still there when another starts.
LEMMA WriterStays ==
    ASSUME DownloadInv, UNCHANGED <<weights, writer>>,
           \A f \in Flight : flights[f] # NoFlight => flights'[f] = flights[f]
    PROVE  writer' # NoOne => weights' = "part" /\ "writing" \in flights'[writer'].left
BY DEF DownloadInv, DownloadTypeOK, NoFlight

\* Settings, clicks and installations.
LEMMA ServiceStep ==
    ASSUME DownloadInv,
           \/ (\E k \in Kind : Patch(k)) \/ Download \/ Remove
           \/ Install \/ InstallDone \/ InstallFails
    PROVE  DownloadInv'
<1> USE DEF DownloadInv, LegsHold
<1>0. /\ CacheTypes /\ live \in Leg /\ legs \in [Leg -> LegState] /\ flights \in Downloads
      /\ hook \in Leg \cup {NoOne} /\ done \in SUBSET Leg /\ revived \in BOOLEAN
      /\ legs[live] \in LegState /\ legs[live].kind \in Kind
  BY TypeParts DEF LegState
<1>1. ASSUME NEW k \in Kind, Patch(k) PROVE DownloadInv'
  <2>1. /\ StackEnsured(Fresh(k)) \in LegState
        /\ ~StackEnsured(Fresh(k)).closed /\ ~StackEnsured(Fresh(k)).downloading
    BY FreshLeg, EnsuredLeg
  <2>2. /\ Swap(StackEnsured(Fresh(k)))
        /\ UNCHANGED <<flights, cache, runtime, installing, clicks, done, revived>>
    BY <1>1 DEF Patch
  <2>3. /\ live' \in Leg /\ legs' \in [Leg -> LegState] /\ hook' \in Leg \cup {NoOne}
        /\ LegsHold'
    BY <2>1, <2>2, SwapStep
  <2>4. CacheTypes'  BY <1>0, <2>2, Zenon DEF CacheTypes, cache
  <2> QED
      BY <1>0, <2>2, <2>3, <2>4 DEF DownloadTypeOK, LegState, CacheTypes, Downloads, FlightState
<1>2. CASE Download
  <2>1. Begin(live, legs[live])  BY <1>2 DEF Download
  <2>2. /\ flights' \in Downloads
        /\ \A f \in Flight : flights[f] # NoFlight => flights'[f] = flights[f]
        /\ \A f \in Flight :
              \/ flights'[f] = flights[f]
              \/ flights'[f] \in [leg : {live}, kind : {"load"}, left : {{}}]
              \/ flights'[f] \in [leg : {live}, kind : {"files"}, left : {Parts}]
        /\ Starts(legs[live]) => \E f \in Flight : flights'[f].leg = live
    BY <1>0, <2>1, Beginning
  <2> DEFINE r == Clicked(legs[live])
  <2>3. /\ r \in LegState /\ r.closed = legs[live].closed /\ r.stack = legs[live].stack
        /\ r.unavailable = legs[live].unavailable
        /\ r.downloading => legs[live].downloading \/ Starts(legs[live])
    BY <1>0, ClickedLeg
  <2>4. r.downloading => \E f \in Flight : flights'[f].leg = live
    <3>1. CASE Starts(legs[live])  BY <2>2, <3>1
    <3>2. CASE ~Starts(legs[live]) /\ legs[live].downloading
      <4>1. flights' = flights  BY <2>1, <3>2 DEF Begin
      <4> QED  BY <1>0, <3>2, <4>1 DEF SpinnerHonest
    <3> QED  BY <2>3, <3>1, <3>2
  <2>5. /\ legs' = [legs EXCEPT ![live] = r]
        /\ UNCHANGED <<live, hook, cache, runtime, installing, done, revived>>
    BY <1>2 DEF Download
  <2>6. hook' = IF r.stack /\ ~legs[live].stack THEN live ELSE hook  BY <2>3, <2>5
  <2> HIDE DEF r
  <2>7. /\ legs' \in [Leg -> LegState] /\ hook' \in Leg \cup {NoOne}
        /\ LegsHold'
    BY <2>2, <2>3, <2>4, <2>5, <2>6, LiveStep DEF Downloads, FlightState
  <2>8. clicks' \in 0..MaxClicks
      BY <1>0, <1>2, DownloadAssumption DEF Download, Click, CacheTypes
  <2>9. writer' # NoOne => weights' = "part" /\ "writing" \in flights'[writer'].left
    BY <2>2, <2>5, WriterStays DEF cache
  <2>10. CacheTypes'  BY <1>0, <2>5, <2>8, <2>9, Zenon DEF CacheTypes, cache
  <2> QED
      BY <1>0, <2>2, <2>5, <2>7, <2>10
         DEF DownloadTypeOK, LegState, CacheTypes, Downloads, FlightState
<1>3. CASE Install \/ InstallFails
  <2>1. clicks' \in 0..MaxClicks
    BY <1>0, <1>3, DownloadAssumption DEF Install, InstallFails, Click, CacheTypes
  <2>2. /\ UNCHANGED <<live, legs, hook, flights, cache, runtime, done, revived>>
        /\ installing' \in BOOLEAN
    BY <1>3 DEF Install, InstallFails
  <2>3. CacheTypes'  BY <1>0, <2>1, <2>2, Zenon DEF CacheTypes, cache
  <2>4. LegsHold'
    BY <2>2, Zenon DEF LegsInv, SpinnerHonest, HookFollowsLive, UpAfterDownload
  <2> QED
      BY <1>0, <2>2, <2>3, <2>4 DEF DownloadTypeOK, LegState, CacheTypes, Downloads, FlightState
<1>4. CASE InstallDone
  <2> DEFINE leg == StackEnsured(Fresh(legs[live].kind))
             r == Clicked(leg)
  <2>1. /\ Swap(r) /\ Begin(live + 1, leg) /\ UNCHANGED <<cache, clicks, done, revived>>
        /\ installing' = FALSE /\ runtime' = TRUE
    BY <1>4 DEF InstallDone
  <2>2. leg \in LegState /\ ~leg.closed /\ ~leg.downloading
    BY <1>0, FreshLeg, EnsuredLeg
  <2> HIDE DEF leg
  <2>3. r \in LegState /\ ~r.closed /\ (r.downloading => Starts(leg))
    BY <2>2, ClickedLeg
  <2>4. live + 1 \in Leg  BY <1>0, <2>1, DownloadAssumption DEF Swap, Leg
  <2>5. /\ flights' \in Downloads
        /\ \A f \in Flight : flights[f] # NoFlight => flights'[f] = flights[f]
        /\ \A f \in Flight :
              \/ flights'[f] = flights[f]
              \/ flights'[f] \in [leg : {live + 1}, kind : {"load"}, left : {{}}]
              \/ flights'[f] \in [leg : {live + 1}, kind : {"files"}, left : {Parts}]
        /\ Starts(leg) => \E f \in Flight : flights'[f].leg = live + 1
    BY <2>1, <2>2, <2>4, Beginning
  <2> HIDE DEF r
  <2>6. /\ live' \in Leg /\ legs' \in [Leg -> LegState] /\ hook' \in Leg \cup {NoOne}
        /\ LegsHold'
    BY <2>1, <2>3, <2>5, SwapStep
  <2>7. writer' # NoOne => weights' = "part" /\ "writing" \in flights'[writer'].left
    BY <2>1, <2>5, WriterStays DEF cache
  <2>8. CacheTypes'  BY <1>0, <2>1, <2>7, Zenon DEF CacheTypes, cache
  <2> QED
      BY <1>0, <2>1, <2>5, <2>6, <2>8
         DEF DownloadTypeOK, LegState, CacheTypes, Downloads, FlightState
<1>5. CASE Remove
  <2> DEFINE r == [legs[live] EXCEPT !.downloading = FALSE]
  <2>1. r \in LegState /\ r.closed = legs[live].closed /\ r.stack = legs[live].stack /\ ~r.downloading
        /\ r.unavailable = legs[live].unavailable
    BY <1>0 DEF LegState
  <2>2. /\ legs' = [legs EXCEPT ![live] = r]
        /\ UNCHANGED <<live, hook, flights, runtime, installing, done, revived>>
        /\ weights' = "none" /\ writer' = NoOne /\ rest' = FALSE
    BY <1>5 DEF Remove
  <2> HIDE DEF r
  <2>3. /\ legs' \in [Leg -> LegState] /\ hook' \in Leg \cup {NoOne}
        /\ LegsHold'
    BY <1>0, <2>1, <2>2, LiveStep DEF Downloads, FlightState
  <2>4. clicks' \in 0..MaxClicks
      BY <1>0, <1>5, DownloadAssumption DEF Remove, Click, CacheTypes
  <2>5. CacheTypes'  BY <1>0, <2>2, <2>4, Zenon DEF CacheTypes
  <2> QED
      BY <1>0, <2>2, <2>3, <2>5 DEF DownloadTypeOK, LegState, CacheTypes, Downloads, FlightState
<1> QED  BY <1>1, <1>2, <1>3, <1>4, <1>5

\* The stack of the leg in use, and the answers it gives.
LEMMA UseStep ==
    ASSUME DownloadInv, Use \/ QueryFails \/ QueryAnswers
    PROVE  DownloadInv'
<1> USE DEF DownloadInv, LegsHold
<1>0. /\ CacheTypes /\ live \in Leg /\ legs \in [Leg -> LegState] /\ flights \in Downloads
      /\ hook \in Leg \cup {NoOne} /\ done \in SUBSET Leg /\ revived \in BOOLEAN
      /\ legs[live] \in LegState
  BY TypeParts
<1> DEFINE leg == legs[live]
           failed == [leg EXCEPT !.failures = @ + 1,
                                 !.unavailable = (@ \/ leg.failures + 1 >= QueryFailures)]
<1>1. PICK r \in LegState :
         /\ legs' = [legs EXCEPT ![live] = r]
         /\ r.closed = leg.closed /\ r.downloading = leg.downloading
         /\ leg.stack => r.stack
         /\ leg.unavailable => r.unavailable
         /\ hook' = IF r.stack /\ ~leg.stack THEN live ELSE hook
  <2>1. CASE Use
    <3>1. /\ legs' = [legs EXCEPT ![live] = StackEnsured(leg)]
          /\ hook' = IF StackEnsured(leg).stack /\ ~leg.stack THEN live ELSE hook
      BY <2>1 DEF Use, Hooked
    <3>2. /\ StackEnsured(leg) \in LegState /\ StackEnsured(leg).closed = leg.closed
          /\ StackEnsured(leg).downloading = leg.downloading
          /\ leg.stack => StackEnsured(leg).stack
          /\ leg.unavailable => StackEnsured(leg).unavailable
      BY <1>0, EnsuredLeg
    <3> HIDE DEF leg
    <3> QED  BY <3>1, <3>2
  <2>2. CASE QueryFails
    <3>1. /\ leg.stack /\ leg.failures <= QueryFailures /\ hook' = hook
          /\ legs' = [legs EXCEPT ![live] = failed]
      BY <1>0, <2>2 DEF QueryFails, LegState
    <3>2. /\ failed.closed = leg.closed /\ failed.stack = leg.stack
          /\ failed.downloading = leg.downloading /\ (leg.unavailable => failed.unavailable)
      BY <1>0 DEF LegState
    <3>3. leg.failures + 1 \in 0..(QueryFailures + 1)
      BY <1>0, <3>1, DownloadAssumption DEF LegState
    <3>4. failed \in LegState
      BY <1>0, <3>3 DEF LegState
    <3> HIDE DEF failed, leg
    <3> QED  BY <3>1, <3>2, <3>4
  <2>3. CASE QueryAnswers
    <3> DEFINE r == [leg EXCEPT !.failures = 0]
    <3>1. leg.stack /\ hook' = hook /\ legs' = [legs EXCEPT ![live] = r]
      BY <1>0, <2>3 DEF QueryAnswers, LegState
    <3>2. /\ r \in LegState /\ r.closed = leg.closed /\ r.stack = leg.stack
          /\ r.downloading = leg.downloading /\ r.unavailable = leg.unavailable
      BY <1>0, DownloadAssumption DEF LegState
    <3> HIDE DEF r, leg
    <3> QED  BY <3>1, <3>2
  <2> QED  BY <2>1, <2>2, <2>3
<1>2. UNCHANGED <<live, flights, cache, runtime, installing, clicks, done, revived>>
  BY DEF Use, QueryFails, QueryAnswers
<1>3. leg.downloading => \E f \in Flight : flights'[f].leg = live
  BY <1>0, <1>2 DEF SpinnerHonest
<1>4. /\ legs' \in [Leg -> LegState] /\ hook' \in Leg \cup {NoOne}
      /\ LegsHold'
  BY <1>0, <1>1, <1>2, <1>3, LiveStep DEF Downloads, FlightState
<1>5. CacheTypes'  BY <1>0, <1>2, Zenon DEF CacheTypes, cache
<1> QED
    BY <1>0, <1>2, <1>4, <1>5 DEF DownloadTypeOK, LegState, CacheTypes, Downloads, FlightState

\* A part of a download arrives.  The weights file is whole, or written by the
\* download that opened it last.
LEMMA CacheStep ==
    ASSUME DownloadInv, NEW f \in Flight,
           \/ LoadFetches(f) \/ FetchRest(f)
           \/ KeepWeights(f) \/ OpenWeights(f) \/ WriteWeights(f)
    PROVE  DownloadInv'
<1> USE DEF DownloadInv, LegsHold
<1>0. /\ CacheTypes /\ live \in Leg /\ legs \in [Leg -> LegState] /\ flights \in Downloads
      /\ hook \in Leg \cup {NoOne} /\ done \in SUBSET Leg /\ revived \in BOOLEAN
  BY TypeParts
<1>1. UNCHANGED <<live, legs, hook, runtime, installing, clicks, done, revived>>
  BY DEF LoadFetches, FetchRest, KeepWeights, OpenWeights, WriteWeights
<1> DEFINE Kept == /\ weights' \in {"none", "part", "whole"} /\ writer' \in Flight \cup {NoOne}
                   /\ writer' # NoOne => weights' = "part" /\ "writing" \in flights'[writer'].left
<1>2. rest' \in BOOLEAN
  <2>1. rest' = rest \/ rest' = TRUE
    BY Zenon DEF LoadFetches, FetchRest, KeepWeights, OpenWeights, WriteWeights, cache
  <2> QED  BY <1>0, <2>1, Zenon DEF CacheTypes
<1>3. NoOne \notin Flight  BY DownloadAssumption DEF NoOne, Flight
<1>4. /\ Kept
      /\ \/ \E parts \in SUBSET (Parts \cup {"writing"}) : Left(f, parts) /\ Runs(f, "files")
         \/ UNCHANGED flights
  <2>1. CASE LoadFetches(f)
    BY <1>0, <2>1 DEF LoadFetches, CacheTypes
  <2>2. flights[f].left \in SUBSET (Parts \cup {"writing"})  BY <1>0 DEF Downloads, FlightState
  <2>3. CASE FetchRest(f)
    <3>1. /\ Runs(f, "files") /\ Left(f, flights[f].left \ {"rest"})
          /\ weights' = weights /\ writer' = writer
      BY <2>3 DEF FetchRest
    <3>2. \A g \in Flight : "writing" \in flights[g].left => "writing" \in flights'[g].left
      BY <1>0, <3>1 DEF Left, Downloads, FlightState
    <3> QED  BY <1>0, <2>2, <3>1, <3>2 DEF CacheTypes
  <2>4. CASE KeepWeights(f)
    <3>1. /\ Runs(f, "files") /\ Left(f, flights[f].left \ {"weights"})
          /\ weights' = weights /\ writer' = writer
      BY <2>4 DEF KeepWeights, cache
    <3>2. \A g \in Flight : "writing" \in flights[g].left => "writing" \in flights'[g].left
      BY <1>0, <3>1 DEF Left, Downloads, FlightState
    <3> QED  BY <1>0, <2>2, <3>1, <3>2 DEF CacheTypes
  <2>5. CASE OpenWeights(f)
    <3> DEFINE parts == (flights[f].left \ {"weights"}) \cup {"writing"}
    <3>1. Runs(f, "files") /\ Left(f, parts) /\ weights' = "part" /\ writer' = f
      BY <2>5 DEF OpenWeights
    <3>2. parts \in SUBSET (Parts \cup {"writing"})  BY <2>2
    <3>3. flights'[f].left = parts  BY <1>0, <3>1 DEF Left, Downloads, FlightState
    <3> QED  BY <3>1, <3>2, <3>3
  <2>6. CASE WriteWeights(f)
    <3> DEFINE parts == flights[f].left \ {"writing"}
    <3>1. /\ Runs(f, "files") /\ Left(f, parts)
          /\ weights' = IF writer = f THEN "whole" ELSE weights
          /\ writer' = IF writer = f THEN NoOne ELSE writer
      BY <2>6 DEF WriteWeights
    <3>2. \A g \in Flight \ {f} : flights'[g] = flights[g]
        BY <1>0, <3>1 DEF Left, Downloads, FlightState
    <3> QED  BY <1>0, <2>2, <3>1, <3>2 DEF CacheTypes
  <2> QED  BY <2>1, <2>3, <2>4, <2>5, <2>6
<1>5. /\ flights' \in Downloads /\ LegsHold'
  <2>1. CASE UNCHANGED flights
    <3>1. {} \in SUBSET (Parts \cup {"writing"})  OBVIOUS
    <3> QED  BY <1>1, <2>1, <3>1, FetchStep DEF Downloads, FlightState
  <2>2. ASSUME NEW parts \in SUBSET (Parts \cup {"writing"}), Left(f, parts), Runs(f, "files")
        PROVE  /\ flights' \in Downloads
               /\ LegsHold'
    BY <1>1, <2>2, FetchStep DEF Downloads, FlightState
  <2> QED  BY <1>4, <2>1, <2>2
<1>6. CacheTypes'  BY <1>0, <1>1, <1>2, <1>4, Zenon DEF CacheTypes
<1> QED
    BY <1>0, <1>1, <1>5, <1>6 DEF DownloadTypeOK, LegState, CacheTypes, Downloads, FlightState

\* A download ends, well or not, or goes on without the provider.
LEMMA DownloadStep ==
    ASSUME DownloadInv, NEW f \in Flight,
           LoadDone(f) \/ FilesDone(f) \/ LoadFails(f) \/ FilesFail(f)
    PROVE  DownloadInv'
<1> USE DEF DownloadInv, LegsHold
<1> DEFINE l == flights[f].leg
<1>0. /\ CacheTypes /\ live \in Leg /\ legs \in [Leg -> LegState] /\ flights \in Downloads
      /\ hook \in Leg \cup {NoOne} /\ done \in SUBSET Leg /\ revived \in BOOLEAN
  BY TypeParts
<1>1. flights[f].kind # "none" /\ l \in Leg /\ l <= live /\ legs[l] \in LegState
  BY <1>0 DEF LoadDone, FilesDone, LoadFails, FilesFail, Runs, LegsInv
<1>2. NoFlight \in FlightState
  BY DEF NoFlight, FlightState
<1>3. CASE LoadDone(f) \/ FilesDone(f)
  <2>1. Ended(f) /\ UNCHANGED <<live, cache, runtime, installing, clicks>>
    BY <1>3 DEF LoadDone, FilesDone
  <2>2. /\ legs' \in [Leg -> LegState] /\ hook' \in Leg \cup {NoOne}
        /\ done' \in SUBSET Leg /\ revived' \in BOOLEAN
        /\ LegsHold'
    BY <1>1, <2>1, EndStep
  <2>3. flights' = [flights EXCEPT ![f] = NoFlight]  BY <2>1 DEF Ended
  <2>4. flights' \in Downloads  BY <1>0, <1>2, <2>3 DEF Downloads, FlightState
  <2>5. "writing" \notin flights[f].left
    BY <1>3 DEF LoadDone, FilesDone, Runs, LegsInv
  <2>6. writer' # NoOne => weights' = "part" /\ "writing" \in flights'[writer'].left
    BY <1>0, <2>1, <2>3, <2>5 DEF CacheTypes, cache, Downloads, FlightState
  <2>7. CacheTypes'  BY <1>0, <2>1, <2>6, Zenon DEF CacheTypes, cache
  <2> QED
      BY <1>0, <2>1, <2>2, <2>4, <2>7
         DEF DownloadTypeOK, LegState, CacheTypes, Downloads, FlightState
<1>4. CASE LoadFails(f)
  <2> DEFINE flight == [flights[f] EXCEPT !.kind = "files", !.left = Parts]
             leg == [legs[l] EXCEPT !.downloading = TRUE]
  <2>1. /\ flights' = [flights EXCEPT ![f] = flight] /\ legs' = [legs EXCEPT ![l] = leg]
        /\ UNCHANGED <<live, hook, cache, runtime, installing, clicks, done, revived>>
        /\ flights[f].kind = "load"
    BY <1>0, <1>4 DEF LoadFails, Runs, Downloads, FlightState
  <2>2. /\ flight \in FlightState
        /\ flight.leg = l /\ flight.kind = "files"
    BY <1>0 DEF Downloads, FlightState
  <2>3. /\ leg \in LegState /\ leg.closed = legs[l].closed /\ leg.stack = legs[l].stack
        /\ leg.unavailable = legs[l].unavailable
    BY <1>1 DEF LegState
  <2> HIDE DEF flight, leg, l
  <2>4. flights' \in Downloads  BY <1>0, <2>1, <2>2 DEF Downloads, FlightState
  <2>5. legs' \in [Leg -> LegState]  BY <1>0, <2>1, <2>3
  <2>6. /\ flights'[f] = flight /\ \A g \in Flight \ {f} : flights'[g] = flights[g]
        /\ legs'[l] = leg /\ \A k \in Leg \ {l} : legs'[k] = legs[k]
    BY <1>0, <1>1, <2>1 DEF Downloads, FlightState
  <2>7. "writing" \notin flights[f].left  BY <2>1 DEF LegsInv
  <2>8. writer' # NoOne => weights' = "part" /\ "writing" \in flights'[writer'].left
    BY <1>0, <2>1, <2>6, <2>7 DEF CacheTypes, cache
  <2>9. CacheTypes'  BY <1>0, <2>1, <2>8, Zenon DEF CacheTypes, cache
  <2>10. LegsInv'
    <3>1. ASSUME NEW g \in Flight
          PROVE  /\ flights'[g].kind = "none" => flights'[g] = NoFlight
                 /\ flights'[g].kind = "load" => flights'[g].left = {}
                 /\ flights'[g].kind # "none" => flights'[g].leg \in Leg /\ flights'[g].leg <= live'
      BY <1>1, <2>1, <2>2, <2>6 DEF LegsInv
    <3>2. ~legs'[live'].closed /\ \A k \in Leg : k < live' => legs'[k].closed
      BY <1>0, <2>1, <2>3, <2>6 DEF LegsInv
    <3>3. \A k \in Leg : k > live' => legs'[k] = Fresh("off") /\ k \notin done'
      BY <1>0, <1>1, <2>1, <2>6 DEF LegsInv, Leg
    <3> QED  BY <3>1, <3>2, <3>3 DEF LegsInv
  <2>11. SpinnerHonest'
    <3>1. \A g \in Flight : flights'[g].leg = flights[g].leg  BY <2>2, <2>6 DEF l
    <3>2. ASSUME NEW k \in Leg, legs'[k].downloading PROVE \E g \in Flight : flights'[g].leg = k
      <4>1. CASE k = l  BY <3>1, <4>1 DEF l
      <4>2. CASE k # l  BY <2>6, <3>1, <3>2, <4>2 DEF SpinnerHonest
      <4> QED  BY <4>1, <4>2
    <3> QED  BY <3>2 DEF SpinnerHonest
  <2>12. HookFollowsLive' /\ UpAfterDownload'
    BY <1>0, <2>1, <2>3, <2>6 DEF HookFollowsLive, UpAfterDownload
  <2> QED
      BY <1>0, <2>1, <2>4, <2>5, <2>9, <2>10, <2>11, <2>12
         DEF DownloadTypeOK, LegState, CacheTypes, Downloads, FlightState
<1>5. CASE FilesFail(f)
  <2> DEFINE leg == [legs[l] EXCEPT !.downloading = FALSE]
  <2>1. /\ flights' = [flights EXCEPT ![f] = NoFlight] /\ legs' = [legs EXCEPT ![l] = leg]
        /\ writer' = IF writer = f THEN NoOne ELSE writer
        /\ UNCHANGED <<live, hook, weights, rest, runtime, installing, clicks, done, revived>>
    BY <1>5 DEF FilesFail
  <2>2. /\ leg \in LegState /\ leg.closed = legs[l].closed /\ leg.stack = legs[l].stack
        /\ leg.unavailable = legs[l].unavailable /\ ~leg.downloading
    BY <1>1 DEF LegState
  <2> HIDE DEF leg, l
  <2>3. flights' \in Downloads  BY <1>0, <1>2, <2>1 DEF Downloads, FlightState
  <2>4. legs' \in [Leg -> LegState]  BY <1>0, <2>1, <2>2
  <2>5. /\ flights'[f] = NoFlight /\ \A g \in Flight \ {f} : flights'[g] = flights[g]
        /\ legs'[l] = leg /\ \A k \in Leg \ {l} : legs'[k] = legs[k]
    BY <1>0, <1>1, <2>1 DEF Downloads, FlightState
  <2>6. /\ writer' \in Flight \cup {NoOne}
        /\ writer' # NoOne => weights' = "part" /\ "writing" \in flights'[writer'].left
    BY <1>0, <2>1, <2>5 DEF CacheTypes
  <2>7. CacheTypes'  BY <1>0, <2>1, <2>6, Zenon DEF CacheTypes
  <2>8. LegsInv'
    <3>1. ASSUME NEW g \in Flight
          PROVE  /\ flights'[g].kind = "none" => flights'[g] = NoFlight
                 /\ flights'[g].kind = "load" => flights'[g].left = {}
                 /\ flights'[g].kind # "none" => flights'[g].leg \in Leg /\ flights'[g].leg <= live'
      <4>1. NoFlight.kind = "none"  BY DEF NoFlight
      <4>2. CASE g = f  BY <2>5, <4>1, <4>2
      <4>3. CASE g # f  BY <2>1, <2>5, <4>3 DEF LegsInv
      <4> QED  BY <4>2, <4>3
    <3>2. ~legs'[live'].closed /\ \A k \in Leg : k < live' => legs'[k].closed
      BY <1>0, <2>1, <2>2, <2>5 DEF LegsInv
    <3>3. \A k \in Leg : k > live' => legs'[k] = Fresh("off") /\ k \notin done'
      BY <1>0, <1>1, <2>1, <2>5 DEF LegsInv, Leg
    <3> QED  BY <3>1, <3>2, <3>3 DEF LegsInv
  <2>9. SpinnerHonest'
    <3>1. ASSUME NEW k \in Leg, legs'[k].downloading PROVE \E g \in Flight : flights'[g].leg = k
      <4>1. k # l /\ legs[k].downloading  BY <2>2, <2>5, <3>1
      <4>2. PICK g \in Flight : flights[g].leg = k  BY <4>1 DEF SpinnerHonest
      <4> QED  BY <2>5, <4>1, <4>2 DEF l
    <3> QED  BY <3>1 DEF SpinnerHonest
  <2>10. HookFollowsLive' /\ UpAfterDownload'
    BY <1>0, <2>1, <2>2, <2>5 DEF HookFollowsLive, UpAfterDownload
  <2> QED
      BY <1>0, <2>1, <2>3, <2>4, <2>7, <2>8, <2>9, <2>10
         DEF DownloadTypeOK, LegState, CacheTypes, Downloads, FlightState
<1> QED  BY <1>3, <1>4, <1>5

\* The process ends: the next one knows of no download.
LEMMA RestartStep == ASSUME DownloadInv, Restart PROVE DownloadInv'
<1> USE DEF DownloadInv, LegsHold
<1>0. /\ CacheTypes /\ live \in Leg /\ legs \in [Leg -> LegState] /\ flights \in Downloads
      /\ hook \in Leg \cup {NoOne} /\ done \in SUBSET Leg /\ revived \in BOOLEAN
      /\ legs[live].kind \in Kind
  BY TypeParts DEF LegState
<1> DEFINE leg == StackEnsured(Fresh(legs[live].kind))
           shut(l) == [Closed(legs[l]) EXCEPT !.downloading = FALSE]
<1>1. /\ live < MaxLegs /\ live' = live + 1
      /\ legs' = [l \in Leg |-> IF l = live + 1 THEN leg ELSE IF l <= live THEN shut(l) ELSE legs[l]]
      /\ hook' = IF legs'[live + 1].stack THEN live + 1 ELSE NoOne
      /\ flights' = [f \in Flight |-> NoFlight]
      /\ writer' = NoOne /\ installing' = FALSE /\ revived' = FALSE
      /\ UNCHANGED <<weights, rest, runtime, clicks, done>>
  BY DEF Restart
<1>2. leg \in LegState /\ ~leg.closed /\ ~leg.downloading
  BY <1>0, FreshLeg, EnsuredLeg
<1>3. \A l \in Leg : shut(l) \in LegState /\ shut(l).closed /\ ~shut(l).stack /\ ~shut(l).downloading
  BY <1>0 DEF LegState, Closed
<1> HIDE DEF leg, shut
<1>4. live + 1 \in Leg  BY <1>0, <1>1, DownloadAssumption DEF Leg
<1>5. /\ legs'[live + 1] = leg
      /\ \A l \in Leg : l <= live => legs'[l] = shut(l)
      /\ \A l \in Leg : l > live + 1 => legs'[l] = legs[l]
  BY <1>0, <1>1, <1>4 DEF Leg
<1>6. \A l \in Leg : legs'[l] \in LegState
  BY <1>0, <1>1, <1>2, <1>3
<1>7. legs' \in [Leg -> LegState]
  <2>1. legs' = [l \in Leg |-> legs'[l]]  BY <1>1
  <2> QED  BY <1>6, <2>1
<1>8. NoFlight \in FlightState
  BY DEF NoFlight, FlightState
<1>9. flights' \in Downloads  BY <1>1, <1>8 DEF Downloads, FlightState
<1>10. CacheTypes'
  <2>1. installing' \in BOOLEAN  BY <1>1
  <2>2. writer' \in Flight \cup {NoOne} /\ writer' = NoOne  BY <1>1
  <2> QED  BY <1>0, <1>1, <2>1, <2>2, Zenon DEF CacheTypes
<1>11. LegsInv'
  <2>1. \A f \in Flight : flights'[f] = NoFlight  BY <1>1
  <2>2. ~legs'[live'].closed  BY <1>1, <1>2, <1>5
  <2>3. \A l \in Leg : l < live' => legs'[l].closed
    BY <1>0, <1>1, <1>3, <1>5 DEF Leg
  <2>4. \A l \in Leg : l > live' => legs'[l] = Fresh("off") /\ l \notin done'
    BY <1>0, <1>1, <1>5 DEF Leg, LegsInv
  <2>5. NoFlight.kind = "none"  BY DEF NoFlight
  <2> QED  BY <2>1, <2>2, <2>3, <2>4, <2>5 DEF LegsInv
<1>12. \A l \in Leg : ~legs'[l].downloading /\ (legs'[l].closed => ~legs'[l].stack \/ l > live + 1)
  <2>1. \A l \in Leg : l > live + 1 => ~legs[l].downloading
    BY <1>0 DEF LegsInv, Fresh, Leg
  <2> QED  BY <1>0, <1>2, <1>3, <1>4, <1>5, <2>1 DEF Leg
<1>13. SpinnerHonest'  BY <1>12 DEF SpinnerHonest
<1>14. HookFollowsLive'
  <2>1. \A l \in Leg : l > live + 1 => ~legs'[l].closed
    BY <1>0, <1>5 DEF LegsInv, Fresh, Leg
  <2> QED  BY <1>1, <1>12, <2>1 DEF HookFollowsLive
<1>15. UpAfterDownload'
  <2>1. \A l \in done : l \in Leg /\ l <= live
    <3>1. ASSUME NEW l \in done PROVE l \in Leg /\ ~(l > live)
      <4>1. l \in Leg  BY <1>0
      <4> QED  BY <4>1 DEF LegsInv
    <3>2. live \in Nat /\ \A l \in Leg : l \in Nat  BY <1>0, DownloadAssumption DEF Leg
    <3> QED  BY <3>1, <3>2
  <2> QED  BY <1>1, <1>3, <1>5, <2>1 DEF UpAfterDownload
<1>16. revived' \in BOOLEAN /\ live' \in Leg /\ hook' \in Leg \cup {NoOne} /\ done' \in SUBSET Leg
  BY <1>0, <1>1, <1>4
<1> QED
    BY <1>7, <1>9, <1>10, <1>11, <1>13, <1>14, <1>15, <1>16
       DEF DownloadTypeOK, LegState, CacheTypes, Downloads, FlightState

\* The invariant holds in every reachable state.
THEOREM DownloadInvariant == DownloadSpec => []DownloadInv
<1>1. DownloadInv /\ [DownloadNext]_downloadVars => DownloadInv'
  <2> SUFFICES ASSUME DownloadInv, [DownloadNext]_downloadVars PROVE DownloadInv'  OBVIOUS
  <2>1. CASE UNCHANGED downloadVars
    BY <2>1, Zenon
       DEF downloadVars, cache, DownloadInv, LegsHold, DownloadTypeOK, LegsInv, SpinnerHonest, HookFollowsLive, UpAfterDownload
  <2>2. CASE DownloadNext
    BY <2>2, ServiceStep, UseStep, CacheStep, DownloadStep, RestartStep
       DEF DownloadNext, Progress
  <2> QED  BY <2>1, <2>2
<1> QED  BY <1>1, InitDownload, PTL DEF DownloadSpec

\* Legs, cache and downloads keep their types, and the weights file that is being
\* written is that of a download that writes.
THEOREM DownloadTypes == DownloadSpec => []DownloadTypeOK
BY DownloadInvariant, PTL DEF DownloadInv

\* A leg that shows a running download has one, however it ends, is repeated or
\* replaced (modelState.downloading).
THEOREM SpinnersHonest == DownloadSpec => []SpinnerHonest
BY DownloadInvariant, PTL DEF DownloadInv, LegsHold

\* The leg in use has the hook of the store when it has a stack, and no closed leg
\* has one, unless a download of a closed leg has ended well (close, start).
THEOREM HookFollows == DownloadSpec => []HookFollowsLive
BY DownloadInvariant, PTL DEF DownloadInv, LegsHold

\* A leg a download has brought up stays up until it is closed or marked
\* unavailable (ensure).
THEOREM StaysUp == DownloadSpec => []UpAfterDownload
BY DownloadInvariant, PTL DEF DownloadInv, LegsHold

=============================================================================

---------------------------- MODULE ModelDownload ----------------------------
(***************************************************************************)
(* The vector legs of a memory service and the model they need             *)
(* (src/core/application/vector-leg.ts, memory-service.ts;                 *)
(* src/core/infrastructure/model-cache.ts, model-download.ts,              *)
(* runtime-install.ts).  A leg brings its stack up when the model is       *)
(* cached; a click downloads the model, after installing the runtime when  *)
(* there is none; changed settings replace the leg.  Downloads outlive the *)
(* leg that started them.                                                  *)
(***************************************************************************)
EXTENDS Naturals, FiniteSets

CONSTANTS
    MaxLegs,      \* bound on legs: settings changes, installs and restarts
    MaxFlights,   \* bound on downloads that run at once
    MaxClicks,    \* bound on clicks on download and remove
    QueryFailures \* consecutive query failures that disable a leg (3)

ASSUME DownloadAssumption ==
    /\ MaxLegs \in Nat \ {0} /\ MaxFlights \in Nat \ {0} /\ MaxClicks \in Nat
    /\ QueryFailures \in Nat \ {0}

Leg    == 1..MaxLegs
Flight == 1..MaxFlights
NoOne   == 0     \* no leg, no download

VARIABLES
    live,       \* the leg the service uses
    legs,       \* Leg -> its state
    hook,       \* the leg whose queue hears of written entries
    flights,    \* Flight -> a running download and the parts it has still to fetch
    weights,    \* the ONNX file in the cache
    writer,     \* the download that opened the weights file last
    rest,       \* configuration and tokenizer are in the cache
    runtime,    \* the embedding runtime can be resolved
    installing, \* npm runs
    clicks,
    done,       \* history: legs a download has brought up
    revived     \* history: a download of a closed leg has ended well

downloadVars == <<live, legs, hook, flights, weights, writer, rest, runtime, installing,
          clicks, done, revived>>
cache == <<weights, writer, rest>>

Kind == {"local", "http", "off"}   \* the provider the settings ask for

Parts == {"weights", "rest"}

DownloadTypeOK ==
    /\ live \in Leg
    /\ legs \in [Leg -> [kind : Kind, closed : BOOLEAN, stack : BOOLEAN,
                         unavailable : BOOLEAN, downloading : BOOLEAN,
                         failures : 0..(QueryFailures + 1)]]
    /\ hook \in Leg \cup {NoOne}
    /\ flights \in [Flight -> [leg : Leg \cup {NoOne}, kind : {"none", "load", "files"},
                               left : SUBSET (Parts \cup {"writing"})]]
    /\ weights \in {"none", "part", "whole"}
    /\ writer \in Flight \cup {NoOne}
    /\ writer # NoOne => weights = "part" /\ "writing" \in flights[writer].left
    /\ rest \in BOOLEAN /\ runtime \in BOOLEAN /\ installing \in BOOLEAN
    /\ clicks \in 0..MaxClicks
    /\ done \subseteq Leg /\ revived \in BOOLEAN

-----------------------------------------------------------------------------
(* Helpers *)

NoFlight == [leg |-> NoOne, kind |-> "none", left |-> {}]

Fresh(kind) == [kind |-> kind, closed |-> FALSE, stack |-> FALSE, unavailable |-> FALSE,
                downloading |-> FALSE, failures |-> 0]

\* inspectModelCache: some weights, the configuration and a tokenizer.
Inspected == weights # "none" /\ rest

\* ensure: a stack, unless the leg was found unusable or the model is missing.
StackEnsured(leg) ==
    IF leg.stack \/ leg.unavailable THEN leg
    ELSE IF leg.kind # "local" THEN [leg EXCEPT !.unavailable = TRUE]
    ELSE [leg EXCEPT !.stack = Inspected]

\* A leg that builds its stack takes the hook of the store.
Hooked(l, leg) == IF leg.stack /\ ~legs[l].stack THEN l ELSE hook

Closed(leg) == [leg EXCEPT !.closed = TRUE, !.stack = FALSE]

\* downloadModel on the record of a leg, and whether it starts a download.
\* Without a provider the plain download starts before the flag is looked at.
Starts(leg) == leg.kind = "http" \/ (leg.kind = "local" /\ ~leg.downloading)

Clicked(leg) == IF Starts(leg) THEN [leg EXCEPT !.downloading = TRUE] ELSE leg

Begun(l, leg) ==
    [leg |-> l, kind |-> IF leg.kind = "local" THEN "load" ELSE "files",
     left |-> IF leg.kind = "local" THEN {} ELSE Parts]

\* A download for leg l is added, when one starts.
Begin(l, leg) ==
    IF Starts(leg)
    THEN \E f \in Flight :
            /\ flights[f] = NoFlight /\ \A g \in 1..(f - 1) : flights[g] # NoFlight
            /\ flights' = [flights EXCEPT ![f] = Begun(l, leg)]
    ELSE UNCHANGED flights

-----------------------------------------------------------------------------

\* A service with an empty cache or with a model in it.
DownloadInit ==
    /\ live = 1
    /\ weights \in {"none", "whole"} /\ rest = (weights = "whole") /\ writer = NoOne
    /\ \E k \in Kind : legs = [l \in Leg |-> IF l = 1 THEN StackEnsured(Fresh(k)) ELSE Fresh("off")]
    /\ hook = IF legs[1].stack THEN 1 ELSE NoOne
    /\ flights = [f \in Flight |-> NoFlight]
    /\ runtime \in BOOLEAN /\ installing = FALSE
    /\ clicks = 0 /\ done = {} /\ revived = FALSE

Click == clicks < MaxClicks /\ clicks' = clicks + 1

(* The service replaces its leg: close, create, start.                      *)

\* Mutant of Swap: the closed leg keeps the hook.
SwapKeepingHook(leg) ==
    /\ live < MaxLegs
    /\ live' = live + 1
    /\ legs' = [legs EXCEPT ![live] = Closed(@), ![live + 1] = leg]
    /\ hook' = IF leg.stack THEN live + 1 ELSE hook

Swap(leg) ==
    /\ live < MaxLegs
    /\ live' = live + 1
    /\ legs' = [legs EXCEPT ![live] = Closed(@), ![live + 1] = leg]
    /\ hook' = IF leg.stack THEN live + 1 ELSE NoOne

Patch(kind) ==
    /\ Swap(StackEnsured(Fresh(kind)))
    /\ UNCHANGED <<flights, cache, runtime, installing, clicks, done, revived>>

(* MemoryService.downloadModel with a runtime, or with nothing to install.  *)
Download ==
    /\ Click
    /\ runtime \/ legs[live].kind = "off"
    /\ Begin(live, legs[live])
    /\ legs' = [legs EXCEPT ![live] = Clicked(@)]
    /\ UNCHANGED <<live, hook, cache, runtime, installing, done, revived>>

\* Without one: npm is started, or runs already.
Install ==
    /\ Click
    /\ ~runtime /\ legs[live].kind # "off"
    /\ installing' = TRUE
    /\ UNCHANGED <<live, legs, hook, flights, cache, runtime, done, revived>>

\* npm ends well: a new leg, and the download on it.
InstallDone ==
    LET leg == StackEnsured(Fresh(legs[live].kind)) IN
    /\ installing
    /\ installing' = FALSE /\ runtime' = TRUE
    /\ Swap(Clicked(leg))
    /\ Begin(live + 1, leg)
    /\ UNCHANGED <<cache, clicks, done, revived>>

InstallFails ==
    /\ installing
    /\ installing' = FALSE
    /\ UNCHANGED <<live, legs, hook, flights, cache, runtime, clicks, done, revived>>

\* Mutant of Remove: a file that is being written survives.
RemoveUnlessOpen ==
    /\ Click
    /\ weights' = "none" /\ rest' = FALSE
    /\ legs' = [legs EXCEPT ![live].downloading = FALSE]
    /\ UNCHANGED <<live, hook, flights, writer, runtime, installing, done, revived>>

Remove ==
    /\ Click
    /\ weights' = "none" /\ writer' = NoOne /\ rest' = FALSE
    /\ legs' = [legs EXCEPT ![live].downloading = FALSE]
    /\ UNCHANGED <<live, hook, flights, runtime, installing, done, revived>>

\* A recall, the map or a rebuild asks for the stack.
Use ==
    /\ StackEnsured(legs[live]) # legs[live]
    /\ legs' = [legs EXCEPT ![live] = StackEnsured(@)]
    /\ hook' = Hooked(live, StackEnsured(legs[live]))
    /\ UNCHANGED <<live, flights, cache, runtime, installing, clicks, done, revived>>

\* semanticRanks: the query embedding fails or not.
QueryFails ==
    /\ legs[live].stack /\ legs[live].failures <= QueryFailures
    /\ legs' = [legs EXCEPT ![live].failures = @ + 1,
                            ![live].unavailable = (@ \/ legs[live].failures + 1 >= QueryFailures)]
    /\ UNCHANGED <<live, hook, flights, cache, runtime, installing, clicks, done, revived>>

QueryAnswers ==
    /\ legs[live].stack
    /\ legs' = [legs EXCEPT ![live].failures = 0]
    /\ UNCHANGED <<live, hook, flights, cache, runtime, installing, clicks, done, revived>>

-----------------------------------------------------------------------------
(* Downloads.  A load fetches what is missing under temporary names and     *)
(* renames it; a plain download writes the weights in place.                *)

Runs(f, kind) == flights[f].kind = kind

Left(f, parts) == flights' = [flights EXCEPT ![f].left = parts]

LoadFetches(f) ==
    /\ Runs(f, "load") /\ runtime
    /\ \/ weights = "none" /\ weights' = "whole" /\ UNCHANGED rest
       \/ ~rest /\ rest' = TRUE /\ UNCHANGED weights
    /\ UNCHANGED <<live, legs, hook, flights, writer, runtime, installing, clicks, done, revived>>

FetchRest(f) ==
    /\ Runs(f, "files") /\ "rest" \in flights[f].left
    /\ rest' = TRUE
    /\ Left(f, flights[f].left \ {"rest"})
    /\ UNCHANGED <<live, legs, hook, weights, writer, runtime, installing, clicks, done, revived>>

\* A weights file whose size the server confirms is kept.
KeepWeights(f) ==
    /\ Runs(f, "files") /\ "weights" \in flights[f].left /\ weights = "whole"
    /\ Left(f, flights[f].left \ {"weights"})
    /\ UNCHANGED <<live, legs, hook, cache, runtime, installing, clicks, done, revived>>

\* Any other is opened and truncated: a whole one too, when the server does not
\* say how long it should be.
OpenWeights(f) ==
    /\ Runs(f, "files") /\ "weights" \in flights[f].left
    /\ weights' = "part" /\ writer' = f
    /\ Left(f, (flights[f].left \ {"weights"}) \cup {"writing"})
    /\ UNCHANGED <<live, legs, hook, rest, runtime, installing, clicks, done, revived>>

WriteWeights(f) ==
    /\ Runs(f, "files") /\ "writing" \in flights[f].left
    /\ weights' = IF writer = f THEN "whole" ELSE weights
    /\ writer' = IF writer = f THEN NoOne ELSE writer
    /\ Left(f, flights[f].left \ {"writing"})
    /\ UNCHANGED <<live, legs, hook, rest, runtime, installing, clicks, done, revived>>

\* Mutant of Ended: the flag stays when the cache is incomplete.
EndedSilently(f) ==
    LET l   == flights[f].leg
        leg == IF Inspected
               THEN StackEnsured([legs[l] EXCEPT !.downloading = FALSE, !.unavailable = FALSE])
               ELSE legs[l]
    IN /\ flights' = [flights EXCEPT ![f] = NoFlight]
       /\ legs' = [legs EXCEPT ![l] = leg]
       /\ hook' = Hooked(l, leg)
       /\ done' = IF Inspected /\ leg.kind = "local" THEN done \cup {l} ELSE done
       /\ revived' = (revived \/ (Inspected /\ legs[l].closed))

\* Mutant of Ended: weights are enough.
EndedWithWeights(f) ==
    LET l   == flights[f].leg
        ok  == weights # "none"
        leg == IF ok THEN StackEnsured([legs[l] EXCEPT !.downloading = FALSE, !.unavailable = FALSE])
               ELSE [legs[l] EXCEPT !.downloading = FALSE]
    IN /\ flights' = [flights EXCEPT ![f] = NoFlight]
       /\ legs' = [legs EXCEPT ![l] = leg]
       /\ hook' = Hooked(l, leg)
       /\ done' = IF ok /\ leg.kind = "local" THEN done \cup {l} ELSE done
       /\ revived' = (revived \/ (ok /\ legs[l].closed))

\* A download that ended without an error looks at the cache; when it is
\* complete the leg gets another chance to start, closed or not.
Ended(f) ==
    LET l   == flights[f].leg
        leg == IF Inspected
               THEN StackEnsured([legs[l] EXCEPT !.downloading = FALSE, !.unavailable = FALSE])
               ELSE [legs[l] EXCEPT !.downloading = FALSE]
    IN /\ flights' = [flights EXCEPT ![f] = NoFlight]
       /\ legs' = [legs EXCEPT ![l] = leg]
       /\ hook' = Hooked(l, leg)
       /\ done' = IF Inspected /\ leg.kind = "local" THEN done \cup {l} ELSE done
       /\ revived' = (revived \/ (Inspected /\ legs[l].closed))

LoadDone(f) ==
    /\ Runs(f, "load") /\ runtime
    /\ Ended(f)
    /\ UNCHANGED <<live, cache, runtime, installing, clicks>>

FilesDone(f) ==
    /\ Runs(f, "files") /\ flights[f].left = {}
    /\ Ended(f)
    /\ UNCHANGED <<live, cache, runtime, installing, clicks>>

\* A load that fails goes on as a plain download.
LoadFails(f) ==
    /\ Runs(f, "load")
    /\ flights' = [flights EXCEPT ![f].kind = "files", ![f].left = Parts]
    /\ legs' = [legs EXCEPT ![flights[f].leg].downloading = TRUE]
    /\ UNCHANGED <<live, hook, cache, runtime, installing, clicks, done, revived>>

\* Mutant of FilesFail: the error is only logged.
FilesFailSilently(f) ==
    /\ Runs(f, "files")
    /\ flights' = [flights EXCEPT ![f] = NoFlight]
    /\ writer' = IF writer = f THEN NoOne ELSE writer
    /\ UNCHANGED <<live, legs, hook, weights, rest, runtime, installing, clicks, done, revived>>

FilesFail(f) ==
    /\ Runs(f, "files")
    /\ flights' = [flights EXCEPT ![f] = NoFlight]
    /\ writer' = IF writer = f THEN NoOne ELSE writer
    /\ legs' = [legs EXCEPT ![flights[f].leg].downloading = FALSE]
    /\ UNCHANGED <<live, hook, weights, rest, runtime, installing, clicks, done, revived>>

\* The process ends and another starts with the same settings.
Restart ==
    /\ live < MaxLegs
    /\ live' = live + 1
    /\ legs' = [l \in Leg |->
                  IF l = live + 1 THEN StackEnsured(Fresh(legs[live].kind))
                  ELSE IF l <= live THEN [Closed(legs[l]) EXCEPT !.downloading = FALSE]
                  ELSE legs[l]]
    /\ hook' = IF legs'[live + 1].stack THEN live + 1 ELSE NoOne
    /\ flights' = [f \in Flight |-> NoFlight]
    /\ writer' = NoOne /\ installing' = FALSE /\ revived' = FALSE
    /\ UNCHANGED <<weights, rest, runtime, clicks, done>>

Progress(f) ==
    \/ FetchRest(f) \/ KeepWeights(f) \/ OpenWeights(f) \/ WriteWeights(f)
    \/ LoadDone(f) \/ LoadFails(f) \/ FilesDone(f) \/ FilesFail(f)

DownloadNext ==
    \/ \E k \in Kind : Patch(k)
    \/ Download \/ Install \/ InstallDone \/ InstallFails \/ Remove
    \/ Use \/ QueryFails \/ QueryAnswers
    \/ \E f \in Flight : LoadFetches(f) \/ Progress(f)
    \/ Restart

DownloadSpec == DownloadInit /\ [][DownloadNext]_downloadVars

\* A download goes on until it has succeeded or failed: each request of it is
\* answered or fails.
FairDownloadSpec == DownloadSpec /\ \A f \in Flight : WF_downloadVars(Progress(f))

-----------------------------------------------------------------------------
(* Properties *)

\* A leg that shows a running download has one, through failures that fall
\* back to the plain download, removals, restarts and replaced legs
\* (modelState.downloading).
SpinnerHonest ==
    \A l \in Leg : legs[l].downloading => \E f \in Flight : flights[f].leg = l

\* A shown download ends (downloadModel, downloadFilesOnly).
SpinnerEnds == \A l \in Leg : legs[l].downloading ~> ~legs[l].downloading

\* Unless a download of a closed leg has ended well, the leg in use is the one
\* that hears of written entries as soon as it has a stack, and no closed leg
\* has one (close, start, onEntryChanged).
HookFollowsLive ==
    ~revived => /\ hook = IF legs[live].stack THEN live ELSE NoOne
                /\ \A l \in Leg : legs[l].closed => ~legs[l].stack

\* A leg a download has brought up stays up, though the model is removed, until
\* it is closed or failing queries have marked it unavailable: what becomes of an
\* unavailable leg is not said here (downloadModel, ensure, semanticRanks).
UpAfterDownload ==
    \A l \in done : ~legs[l].closed /\ ~legs[l].unavailable => legs[l].stack

=============================================================================

------------------------------ MODULE Providers -----------------------------
(***************************************************************************)
(* The embedding provider of a process: createEmbeddingProvider            *)
(* (src/core/infrastructure/embeddings.ts) builds the one that loads the   *)
(* model in the process (LocalProvider) or the one with a worker thread    *)
(* (WorkerProvider); the other does not exist.                             *)
(***************************************************************************)
EXTENDS WorkerProvider

CONSTANTS
    Caller,  \* calls open at once, for the provider in the process
    MaxLoads \* bound on its loads

ASSUME ProviderAssumption == MaxLoads \in Nat

VARIABLES
    inline,  \* the model is loaded in the process
    extractor, loading, broken, loads, call, again \* state of LocalProvider

Local == INSTANCE LocalProvider WITH failure <- broken, reloads <- again

local == <<extractor, loading, broken, loads, call, again>>

ProviderInit == Init /\ Local!Init /\ inline \in BOOLEAN

ProviderNext ==
    \/ ~inline /\ Next /\ UNCHANGED <<inline, local>>
    \/ inline /\ Local!Next /\ UNCHANGED <<inline, vars>>

ProviderSpec ==
    /\ ProviderInit /\ [][ProviderNext]_<<inline, local, vars>>
    /\ Fairness /\ Local!Fairness

-----------------------------------------------------------------------------
(* Properties of the provider in the process, as LocalProvider states them. *)

\* Calls and loads are well typed; a call that embeds has a loaded model.
LocalTypeOK == Local!TypeOK

\* Between two reloads the model is loaded by one load at a time.
SingleFlight == Local!SingleFlight

\* Every call ends, through loads, failures and reloads.
CallsEnd == Local!CallsEnd
=============================================================================

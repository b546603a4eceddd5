------------------------- MODULE EmbedQueue_proofs -------------------------
(***************************************************************************)
(* Proofs about EmbedQueue, for every set of entries, batch size, failure  *)
(* limit and number of calls.                                              *)
(***************************************************************************)
EXTENDS EmbedQueue, TLAPS

\* A call from outside stays within its bound.
LEMMA CallBound == ASSUME TypeOK, Call PROVE calls' \in 0..MaxCalls
BY QueueAssumption DEF QueueAssumption, TypeOK, Call

\* What a batch makes of vectors and jobs are vectors and jobs.
LEMMA BatchTypes ==
    ASSUME TypeOK, NEW B \in SUBSET Id
    PROVE  /\ Prepared(B) \in [Id -> Entry \cup {None}]
           /\ Jobs(B) \in [Id -> Entry \cup {None}]
<1> USE DEF TypeOK
<1>1. Prepared(B) \in [Id -> Entry \cup {None}]  BY DEF Prepared
<1>2. Jobs(B) \in [Id -> Entry \cup {None}]      BY DEF Jobs
<1> QED  BY <1>1, <1>2

\* One turn of the loop of drain keeps the types of what it changes.
LEMMA TakeTypes ==
    ASSUME TypeOK, NEW P \in SUBSET Id, Take(P)
    PROVE  /\ vec' \in [Id -> Entry \cup {None}] /\ jobs' \in [Id -> Entry \cup {None}]
           /\ pending' \subseteq Id
           /\ pc' \in {"idle", "loop", "embed"}
<1>1. CASE P = {} \/ stopped
  BY <1>1 DEF Take, TypeOK
<1>2. CASE ~(P = {} \/ stopped)
  <2>1. PICK B \in Batches(P) :
            /\ pending' = P \ B
            /\ vec' = Prepared(B)
            /\ jobs' = Jobs(B)
            /\ pc' = IF Jobs(B) = NoJobs THEN "loop" ELSE "embed"
    BY <1>2 DEF Take
  <2>2. B \in SUBSET Id  BY DEF Batches
  <2> QED  BY <2>1, <2>2, BatchTypes DEF TypeOK
<1> QED  BY <1>1, <1>2

\* The state types hold initially and no action leaves them.
THEOREM TypeCorrect == Spec => []TypeOK
<1>1. Init => TypeOK
  <2> SUFFICES ASSUME Init PROVE TypeOK
    OBVIOUS
  <2>1. calls \in 0..MaxCalls  BY QueueAssumption DEF QueueAssumption, Init
  <2>2. jobs \in [Id -> Entry \cup {None}]  BY DEF Init, NoJobs
  <2>3. vec \in [Id -> Entry \cup {None}]  BY DEF Init
  <2> QED  BY <2>1, <2>2, <2>3 DEF Init, TypeOK
<1>2. TypeOK /\ [Next]_vars => TypeOK'
  <2> SUFFICES ASSUME TypeOK, [Next]_vars PROVE TypeOK'
    OBVIOUS
  <2> USE DEF TypeOK
  <2>1. ASSUME NEW i \in Id, NEW e \in Entry, Write(i, e) PROVE TypeOK'
    BY <2>1, CallBound DEF Write, Enqueue, EnqueuedTimer
  <2>2. ASSUME NEW i \in Id, Delete(i) PROVE TypeOK'
    BY <2>2, CallBound DEF Delete, queue
  <2>3. ASSUME NEW i \in Id, DropRow(i) PROVE TypeOK'
    BY <2>3, CallBound DEF DropRow, queue
  <2>4. CASE Start
    BY <2>4 DEF Start, Enqueue, EnqueuedTimer, Live
  <2>5. CASE Rebuild
    BY <2>5, CallBound DEF Rebuild, Enqueue, EnqueuedTimer, Live
  <2>6. CASE Repair
    <3>1. Mended \in [Id -> Entry \cup {None}]  BY DEF Mended, Entry
    <3>2. Requeued \subseteq Id  BY DEF Requeued, Live
    <3> QED  BY <2>6, CallBound, <3>1, <3>2 DEF Repair, Enqueue, EnqueuedTimer
  <2>7. CASE Restart
    BY <2>7, CallBound DEF Restart, NoJobs
  <2>8. ASSUME NEW S \in SUBSET Id, NEW sweeps \in BOOLEAN, ProcessAll(S, sweeps) PROVE TypeOK'
    <3>1. /\ entry' = entry /\ stopped' = stopped /\ failures' = failures
          /\ prewarm' = prewarm /\ healed' = healed
          /\ calls' \in 0..MaxCalls
          /\ timer' \in {"none", "now", "retry"}
          /\ lost' \subseteq Id /\ swept' \in BOOLEAN
      BY <2>8, CallBound DEF ProcessAll, EnqueuedTimer
    <3>2. CASE pc # "idle" \/ stopped
      BY <2>8, <3>1, <3>2 DEF ProcessAll
    <3>3. CASE ~(pc # "idle" \/ stopped)
      <4>1. Take(pending \cup S)  BY <2>8, <3>3 DEF ProcessAll
      <4>2. pending \cup S \in SUBSET Id  OBVIOUS
      <4> HIDE DEF TypeOK
      <4>3. /\ vec' \in [Id -> Entry \cup {None}] /\ jobs' \in [Id -> Entry \cup {None}]
            /\ pending' \subseteq Id /\ pc' \in {"idle", "loop", "embed"}
        BY <4>1, <4>2, TakeTypes
      <4> QED  BY <3>1, <4>3 DEF TypeOK
    <3> QED  BY <3>2, <3>3
  <2>9. CASE TimerFires
    <3>1. CASE pc # "idle" \/ stopped
      BY <2>9, <3>1 DEF TimerFires
    <3>2. CASE ~(pc # "idle" \/ stopped)
      <4>1. Take(pending)  BY <2>9, <3>2 DEF TimerFires
      <4>2. pending \in SUBSET Id  OBVIOUS
      <4> HIDE DEF TypeOK
      <4>3. /\ vec' \in [Id -> Entry \cup {None}] /\ jobs' \in [Id -> Entry \cup {None}]
            /\ pending' \subseteq Id /\ pc' \in {"idle", "loop", "embed"}
        BY <4>1, <4>2, TakeTypes
      <4> QED  BY <2>9, <4>3 DEF TypeOK, TimerFires
    <3> QED  BY <3>1, <3>2
  <2>10. CASE NextBatch
    <3>1. Take(pending)  BY <2>10 DEF NextBatch
    <3>2. pending \in SUBSET Id  OBVIOUS
    <3> HIDE DEF TypeOK
    <3>3. /\ vec' \in [Id -> Entry \cup {None}] /\ jobs' \in [Id -> Entry \cup {None}]
          /\ pending' \subseteq Id /\ pc' \in {"idle", "loop", "embed"}
      BY <3>1, <3>2, TakeTypes
    <3> QED  BY <2>10, <3>3 DEF TypeOK, NextBatch
  <2>11. CASE EmbedOk
    <3>1. vec' \in [Id -> Entry \cup {None}]   BY <2>11 DEF EmbedOk, Written
    <3>2. jobs' \in [Id -> Entry \cup {None}]  BY <2>11 DEF EmbedOk, NoJobs
    <3> QED  BY <2>11, <3>1, <3>2 DEF EmbedOk, notes
  <2>12. CASE EmbedFail
    <3>1. jobs' \in [Id -> Entry \cup {None}]  BY <2>12 DEF EmbedFail, Finish, NoJobs
    <3>2. failures' \in Nat /\ stopped' \in BOOLEAN  BY <2>12 DEF EmbedFail, Fails
    <3>3. pending' \subseteq Id  BY <2>12 DEF EmbedFail, Finish, InFlight
    <3> QED  BY <2>12, <3>1, <3>2, <3>3 DEF EmbedFail, Finish
  <2>13. CASE EmbedThrows
    <3>1. PICK W \in SUBSET InFlight : \E k \in InFlight \ W : \E e \in {vec[k], None} :
            /\ vec' = [Written(W) EXCEPT ![k] = e]
            /\ lost' = lost \cup (InFlight \ W)
      BY <2>13 DEF EmbedThrows
    <3>2. Written(W) \in [Id -> Entry \cup {None}]  BY DEF Written
    <3>3. vec' \in [Id -> Entry \cup {None}] /\ lost' \subseteq Id  BY <3>1, <3>2 DEF InFlight
    <3>4. jobs' \in [Id -> Entry \cup {None}]  BY <2>13 DEF EmbedThrows, Finish, NoJobs
    <3>5. failures' \in Nat /\ stopped' \in BOOLEAN  BY <2>13 DEF EmbedThrows, Fails
    <3> QED  BY <2>13, <3>3, <3>4, <3>5 DEF EmbedThrows, Finish
  <2>14. CASE PrewarmOk
    BY <2>14 DEF PrewarmOk, notes
  <2>15. CASE PrewarmFail
    <3>1. failures' \in Nat /\ stopped' \in BOOLEAN  BY <2>15 DEF PrewarmFail, Fails
    <3> QED  BY <2>15, <3>1 DEF PrewarmFail
  <2>16. CASE UNCHANGED vars
    BY <2>16 DEF vars, queue, notes
  <2> QED
    BY <2>1, <2>2, <2>3, <2>4, <2>5, <2>6, <2>7, <2>8, <2>9, <2>10, <2>11, <2>12, <2>13, <2>14,
       <2>15, <2>16 DEF Next, Outside, Pass
<1> QED  BY <1>1, <1>2, PTL DEF Spec

-----------------------------------------------------------------------------
(* No id is forgotten and the queue never stalls.  NothingForgotten alone  *)
(* is not inductive: a batch writes its snapshots over whatever the store  *)
(* holds by then, so a snapshot that is out of date must belong to an id   *)
(* that waits again (StaleJobsWait), and a new batch replaces jobs, so     *)
(* there must be none while nothing is being embedded.                     *)

JobsOnlyInFlight == pc # "embed" => jobs = NoJobs

QueueInv == TypeOK /\ JobsOnlyInFlight /\ StaleJobsWait /\ NoStall /\ NothingForgotten

\* Scheduling on enqueue: what waits has a pass or a timer.
LEMMA EnqueueSchedules ==
    ASSUME NoStall, NEW S, Enqueue(S), UNCHANGED <<pc, stopped>>
    PROVE  NoStall'
BY DEF NoStall, Enqueue, EnqueuedTimer

\* What a batch of B leaves unwritten of a wanted entry is in flight.
LEMMA BatchCovers ==
    ASSUME NEW B \in SUBSET Id, NEW i \in B, TypeOK, Wanted(i), Prepared(B)[i] # entry[i]
    PROVE  Jobs(B)[i] = entry[i]
BY DEF Wanted, Prepared, Jobs, TypeOK

\* One turn of the loop over ids P forgets nothing that was in P, provided no
\* other turn was under way and everything wanted and out of date is in P or lost.
LEMMA TakeForgetsNothing ==
    ASSUME TypeOK, jobs = NoJobs, NEW P \in SUBSET Id, Take(P),
           UNCHANGED <<entry, stopped>>,
           NEW L, ~stopped => \A i \in Id : Wanted(i) /\ vec[i] # entry[i] => i \in P \/ i \in L
    PROVE  /\ ~stopped => \A i \in Id : Wanted(i) /\ vec'[i] # entry[i] =>
                              i \in pending' \/ jobs'[i] = entry[i] \/ i \in L
           /\ JobsOnlyInFlight' /\ StaleJobsWait'
           /\ pending' # {} /\ ~stopped' => pc' # "idle"
<1>1. CASE P = {} \/ stopped
  BY <1>1 DEF Take, JobsOnlyInFlight, StaleJobsWait, NoJobs
<1>2. CASE ~(P = {} \/ stopped)
  <2>1. PICK B \in Batches(P) :
            /\ pending' = P \ B
            /\ vec' = Prepared(B)
            /\ jobs' = Jobs(B)
            /\ pc' = IF Jobs(B) = NoJobs THEN "loop" ELSE "embed"
    BY <1>2 DEF Take
  <2>2. B \in SUBSET Id  BY DEF Batches
  <2>3. ASSUME NEW i \in Id, Wanted(i), vec'[i] # entry[i], ~stopped
        PROVE  i \in pending' \/ jobs'[i] = entry[i] \/ i \in L
    <3>1. CASE i \in B
      BY <2>1, <2>2, <2>3, <3>1, BatchCovers
    <3>2. CASE i \notin B
      <4>1. vec'[i] = vec[i]  BY <2>1, <3>2 DEF Prepared
      <4> QED  BY <2>1, <2>3, <3>2, <4>1
    <3> QED  BY <3>1, <3>2
  <2>4. JobsOnlyInFlight'  BY <2>1 DEF JobsOnlyInFlight, NoJobs
  <2>5. StaleJobsWait'     BY <2>1 DEF StaleJobsWait, Jobs
  <2> QED  BY <2>1, <2>3, <2>4, <2>5
<1> QED  BY <1>1, <1>2

\* The inductive invariant holds in every reachable state.
THEOREM QueueInvariant == Spec => []QueueInv
<1>1. Init => JobsOnlyInFlight /\ StaleJobsWait /\ NoStall /\ NothingForgotten
  BY DEF Init, JobsOnlyInFlight, StaleJobsWait, NoStall, NothingForgotten, NoJobs
<1>2. ASSUME TypeOK, QueueInv, [Next]_vars
      PROVE  JobsOnlyInFlight' /\ StaleJobsWait' /\ NoStall' /\ NothingForgotten'
  <2> USE <1>2 DEF QueueInv
  <2>1. ASSUME NEW i \in Id, NEW e \in Entry, Write(i, e)
        PROVE  JobsOnlyInFlight' /\ StaleJobsWait' /\ NoStall' /\ NothingForgotten'
    <3>1. NoStall'  BY <2>1, EnqueueSchedules DEF Write
    <3>2. JobsOnlyInFlight'  BY <2>1 DEF Write, JobsOnlyInFlight, NoJobs
    <3>3. ASSUME NEW j \in Id, j # i PROVE entry'[j] = entry[j]
      BY <2>1, <3>3 DEF Write, TypeOK
    <3>4. ~stopped => i \in pending'  BY <2>1 DEF Write, Enqueue
    <3>5. pending \subseteq pending'  BY <2>1 DEF Write, Enqueue
    <3>6. \A j \in Id : j # i /\ j \in lost => j \in lost'  BY <2>1 DEF Write, Enqueue
    <3>7. StaleJobsWait'
      BY <2>1, <3>3, <3>4, <3>5 DEF Write, StaleJobsWait, Wanted
    <3>8. NothingForgotten'
      BY <2>1, <3>3, <3>4, <3>5, <3>6 DEF Write, NothingForgotten, Wanted
    <3> QED  BY <3>1, <3>2, <3>7, <3>8
  <2>2. ASSUME NEW i \in Id, Delete(i)
        PROVE  JobsOnlyInFlight' /\ StaleJobsWait' /\ NoStall' /\ NothingForgotten'
    BY <2>2 DEF Delete, queue, TypeOK, JobsOnlyInFlight, StaleJobsWait, NoStall, NothingForgotten,
       Wanted, NoJobs
  <2>3. ASSUME NEW i \in Id, DropRow(i)
        PROVE  JobsOnlyInFlight' /\ StaleJobsWait' /\ NoStall' /\ NothingForgotten'
    BY <2>3 DEF DropRow, queue, TypeOK, JobsOnlyInFlight, StaleJobsWait, NoStall, NothingForgotten,
       Wanted, NoJobs
  <2>4. CASE Start
    <3>1. NoStall'  BY <2>4, EnqueueSchedules DEF Start
    <3>2. JobsOnlyInFlight'  BY <2>4 DEF Start, JobsOnlyInFlight, NoJobs
    <3>3. StaleJobsWait'  BY <2>4 DEF Start, Enqueue, StaleJobsWait, Wanted
    <3>4. NothingForgotten'  BY <2>4 DEF Start, Enqueue, NothingForgotten, Wanted, Live
    <3> QED  BY <3>1, <3>2, <3>3, <3>4
  <2>5. CASE Rebuild
    <3>1. NoStall'  BY <2>5, EnqueueSchedules DEF Rebuild
    <3>2. JobsOnlyInFlight'  BY <2>5 DEF Rebuild, JobsOnlyInFlight, NoJobs
    <3>3. StaleJobsWait'  BY <2>5 DEF Rebuild, Enqueue, StaleJobsWait, Wanted
    <3>4. NothingForgotten'  BY <2>5 DEF Rebuild, Enqueue, NothingForgotten, Wanted, Live
    <3> QED  BY <3>1, <3>2, <3>3, <3>4
  <2>6. CASE Repair
    <3>1. NoStall'  BY <2>6, EnqueueSchedules DEF Repair
    <3>2. JobsOnlyInFlight'  BY <2>6 DEF Repair, JobsOnlyInFlight, NoJobs
    <3>3. StaleJobsWait'  BY <2>6 DEF Repair, Enqueue, StaleJobsWait, Wanted
    <3>4. \A i \in Id : Wanted(i) /\ vec[i] = entry[i] => vec'[i] = entry[i]
      BY <2>6 DEF Repair, Mended, Wanted, TypeOK, Entry
    <3>5. \A i \in Id : Wanted(i) /\ vec[i] = None => i \in Requeued
      BY DEF Requeued, Live, Wanted
    <3>6. NothingForgotten'
      BY <2>6, <3>4, <3>5 DEF Repair, Enqueue, NothingForgotten, Wanted, Live, Requeued
    <3> QED  BY <3>1, <3>2, <3>3, <3>6
  <2>7. CASE Restart
    BY <2>7 DEF Restart, JobsOnlyInFlight, StaleJobsWait, NoStall, NothingForgotten, NoJobs
  <2>8. ASSUME NEW S \in SUBSET Id, NEW sweeps \in BOOLEAN, ProcessAll(S, sweeps)
        PROVE  JobsOnlyInFlight' /\ StaleJobsWait' /\ NoStall' /\ NothingForgotten'
    <3>1. /\ UNCHANGED <<entry, stopped>>
          /\ lost' = IF stopped THEN lost ELSE lost \ S
          /\ swept' /\ ~stopped => swept \/ S = Live
      BY <2>8 DEF ProcessAll
    <3>2. CASE pc # "idle" \/ stopped
      <4>1. /\ pending' = IF stopped THEN pending ELSE pending \cup S
            /\ UNCHANGED <<vec, pc, jobs>>
        BY <2>8, <3>2 DEF ProcessAll
      <4>2. NoStall' /\ JobsOnlyInFlight' /\ StaleJobsWait'
        BY <3>1, <3>2, <4>1 DEF NoStall, JobsOnlyInFlight, StaleJobsWait, NoJobs, Wanted
      <4>3. NothingForgotten'
        BY <3>1, <4>1 DEF NothingForgotten, Wanted, Live
      <4> QED  BY <4>2, <4>3
    <3>3. CASE ~(pc # "idle" \/ stopped)
      <4>1. Take(pending \cup S)  BY <2>8, <3>3 DEF ProcessAll
      <4>2. jobs = NoJobs /\ pending \cup S \in SUBSET Id
        BY <3>3 DEF JobsOnlyInFlight, TypeOK
      <4> DEFINE L == {i \in Id : (swept' /\ ~stopped) => i \in lost'}
      <4>3. ASSUME NEW i \in Id, Wanted(i), vec[i] # entry[i]
            PROVE  i \in pending \cup S \/ i \in L
        <5>1. jobs[i] # entry[i]  BY <4>2, <4>3 DEF NoJobs, Wanted
        <5> QED  BY <3>1, <4>3, <5>1 DEF NothingForgotten, Wanted, Live
      <4> HIDE DEF L
      <4>4. /\ ~stopped => \A i \in Id : Wanted(i) /\ vec'[i] # entry[i] =>
                              i \in pending' \/ jobs'[i] = entry[i] \/ i \in L
            /\ JobsOnlyInFlight' /\ StaleJobsWait'
            /\ pending' # {} /\ ~stopped' => pc' # "idle"
        BY <3>1, <4>1, <4>2, <4>3, TakeForgetsNothing
      <4> QED  BY <3>1, <4>4 DEF NoStall, NothingForgotten, Wanted, L
    <3> QED  BY <3>2, <3>3
  <2>9. ASSUME TimerFires \/ NextBatch
        PROVE  JobsOnlyInFlight' /\ StaleJobsWait' /\ NoStall' /\ NothingForgotten'
    <3>1. UNCHANGED <<entry, stopped, swept, lost>>  BY <2>9 DEF TimerFires, NextBatch
    <3>2. CASE TimerFires /\ (pc # "idle" \/ stopped)
      <4>1. UNCHANGED <<vec, pending, pc, jobs>>  BY <3>2 DEF TimerFires
      <4>2. NoStall'  BY <3>1, <3>2, <4>1 DEF NoStall
      <4>3. JobsOnlyInFlight' /\ StaleJobsWait' /\ NothingForgotten'
        BY <3>1, <4>1 DEF JobsOnlyInFlight, StaleJobsWait, NothingForgotten, Wanted, NoJobs
      <4> QED  BY <4>2, <4>3
    <3>3. CASE NextBatch \/ ~(pc # "idle" \/ stopped)
      <4>1. Take(pending)
        BY <2>9, <3>3 DEF TimerFires, NextBatch
      <4>2. jobs = NoJobs /\ pending \in SUBSET Id
        BY <2>9, <3>3 DEF NextBatch, JobsOnlyInFlight, TypeOK
      <4> DEFINE L == {i \in Id : swept => i \in lost}
      <4>3. ASSUME ~stopped, NEW i \in Id, Wanted(i), vec[i] # entry[i]
            PROVE  i \in pending \/ i \in L
        <5>1. jobs[i] # entry[i]  BY <4>2, <4>3 DEF NoJobs, Wanted
        <5> QED  BY <4>3, <5>1 DEF NothingForgotten
      <4> HIDE DEF L
      <4>4. /\ ~stopped => \A i \in Id : Wanted(i) /\ vec'[i] # entry[i] =>
                              i \in pending' \/ jobs'[i] = entry[i] \/ i \in L
            /\ JobsOnlyInFlight' /\ StaleJobsWait'
            /\ pending' # {} /\ ~stopped' => pc' # "idle"
        BY <3>1, <4>1, <4>2, <4>3, TakeForgetsNothing
      <4> QED  BY <3>1, <4>4 DEF NoStall, NothingForgotten, Wanted, L
    <3> QED  BY <2>9, <3>2, <3>3
  <2>10. CASE EmbedOk
    <3>1. NoStall' /\ JobsOnlyInFlight' /\ StaleJobsWait'
      BY <2>10 DEF EmbedOk, NoStall, JobsOnlyInFlight, StaleJobsWait, NoJobs
    <3>2. ASSUME NEW i \in Id, swept, ~stopped, Wanted(i), vec'[i] # entry[i]
          PROVE  i \in pending \/ i \in lost
      <4>1. CASE jobs[i] # None
        BY <2>10, <3>2, <4>1 DEF EmbedOk, Written, InFlight, StaleJobsWait
      <4>2. CASE jobs[i] = None
        BY <2>10, <3>2, <4>2 DEF EmbedOk, Written, InFlight, NothingForgotten, Wanted
      <4> QED  BY <4>1, <4>2
    <3>3. NothingForgotten'
      BY <2>10, <3>2 DEF EmbedOk, notes, NothingForgotten, Wanted
    <3> QED  BY <3>1, <3>3
  <2>11. ASSUME EmbedFail \/ EmbedThrows
         PROVE  JobsOnlyInFlight' /\ StaleJobsWait' /\ NoStall' /\ NothingForgotten'
    <3>1. PICK left : Finish(left)  BY <2>11 DEF EmbedFail, EmbedThrows
    <3>2. JobsOnlyInFlight' /\ StaleJobsWait' /\ NoStall'
      BY <3>1 DEF Finish, JobsOnlyInFlight, StaleJobsWait, NoStall, NoJobs
    <3>3. CASE EmbedFail
      <4>1. /\ UNCHANGED <<entry, vec, swept, lost>>
            /\ pending' = pending \cup InFlight
            /\ stopped' = (stopped \/ failures + 1 >= MaxFailures)
        BY <3>3 DEF EmbedFail, Finish, Fails
      <4>2. ASSUME NEW i \in Id, Wanted(i), jobs[i] = entry[i] PROVE i \in InFlight
        BY <4>2 DEF InFlight, Wanted
      <4> QED  BY <3>2, <4>1, <4>2 DEF NothingForgotten, Wanted
    <3>4. CASE EmbedThrows
      <4>1. PICK W \in SUBSET InFlight : \E k \in InFlight \ W : \E e \in {vec[k], None} :
              /\ vec' = [Written(W) EXCEPT ![k] = e]
              /\ lost' = lost \cup (InFlight \ W)
        BY <3>4 DEF EmbedThrows
      <4>2. ASSUME NEW i \in Id, i \notin lost', Wanted(i), vec'[i] # entry[i], swept, ~stopped
            PROVE  i \in pending
        <5>1. CASE i \in W
          BY <4>1, <4>2, <5>1 DEF Written, InFlight, StaleJobsWait
        <5>2. CASE i \notin W
          BY <4>1, <4>2, <5>2 DEF Written, InFlight, NothingForgotten, Wanted
        <5> QED  BY <5>1, <5>2
      <4>3. /\ UNCHANGED <<entry, swept>> /\ pending' = pending
            /\ stopped' = (stopped \/ 0 + 1 >= MaxFailures)
        BY <3>4 DEF EmbedThrows, Finish, Fails
      <4> QED  BY <3>2, <4>2, <4>3 DEF NothingForgotten, Wanted
    <3> QED  BY <2>11, <3>2, <3>3, <3>4
  <2>12. CASE PrewarmOk
    BY <2>12 DEF PrewarmOk, notes, JobsOnlyInFlight, StaleJobsWait, NoStall, NothingForgotten,
       Wanted, NoJobs
  <2>13. CASE PrewarmFail
    BY <2>13 DEF PrewarmFail, Fails, JobsOnlyInFlight, StaleJobsWait, NoStall, NothingForgotten,
       Wanted, NoJobs
  <2>14. CASE UNCHANGED vars
    BY <2>14 DEF vars, queue, notes, JobsOnlyInFlight, StaleJobsWait, NoStall, NothingForgotten,
       Wanted, NoJobs
  <2> QED
    BY <2>1, <2>2, <2>3, <2>4, <2>5, <2>6, <2>7, <2>8, <2>9, <2>10, <2>11, <2>12, <2>13, <2>14
    DEF Next, Outside, Pass
<1> QED  BY <1>1, <1>2, TypeCorrect, PTL DEF Spec, QueueInv

\* An entry with missing or outdated vectors is always on its way to new ones.
THEOREM Remembered == Spec => []NothingForgotten
BY QueueInvariant, PTL DEF QueueInv

\* A queue with work always has a pass or a timer to do it.
THEOREM Unstalled == Spec => []NoStall
BY QueueInvariant, PTL DEF QueueInv

\* Out-of-date snapshots are only ever in flight for ids that wait again.
THEOREM StaleWaits == Spec => []StaleJobsWait
BY QueueInvariant, PTL DEF QueueInv

-----------------------------------------------------------------------------
(* Repair.  Until the next change or failure, what repair did not mend by  *)
(* itself is waiting or in flight as the store holds it.                   *)

\* The vectors of i are of the right count and carry its metadata.
Fits(i) ==
    /\ vec[i] # None
    /\ vec[i].meta = entry[i].meta
    /\ Chunks[vec[i].text] = Chunks[entry[i].text]

HealInv ==
    healed /\ ~stopped =>
        \A i \in Id : /\ jobs[i] \in {None, entry[i]}
                      /\ entry[i] = None => vec[i] = None
                      /\ Wanted(i) => Fits(i) \/ i \in pending \/ jobs[i] = entry[i]

\* One turn of the loop writes, sends or leaves waiting all that waited.
LEMMA TakeHeals ==
    ASSUME TypeOK, HealInv, healed, ~stopped, jobs = NoJobs, UNCHANGED <<entry, healed, stopped>>,
           NEW P \in SUBSET Id, pending \subseteq P, Take(P)
    PROVE  HealInv'
<1>1. ASSUME NEW i \in Id
      PROVE  /\ entry[i] = None => vec[i] = None
             /\ Wanted(i) => Fits(i) \/ i \in P
  BY DEF HealInv, NoJobs, Wanted
<1>2. CASE P = {}
  BY <1>1, <1>2 DEF Take, HealInv, NoJobs, Wanted, Fits
<1>3. CASE P # {}
  <2>1. PICK B \in Batches(P) : pending' = P \ B /\ vec' = Prepared(B) /\ jobs' = Jobs(B)
    BY <1>3 DEF Take
  <2>2. ASSUME NEW i \in Id
        PROVE  /\ jobs'[i] \in {None, entry[i]}
               /\ entry[i] = None => vec'[i] = None
               /\ Wanted(i) => Fits(i)' \/ i \in pending' \/ jobs'[i] = entry[i]
    <3>1. CASE i \in B
      BY <2>1, <3>1 DEF Prepared, Jobs, Wanted, Fits, SameText
    <3>2. CASE i \notin B
      BY <1>1, <2>1, <3>2 DEF Prepared, Jobs, Wanted, Fits
    <3> QED  BY <3>1, <3>2
  <2> QED  BY <2>2 DEF HealInv, Wanted
<1> QED  BY <1>2, <1>3

\* The repair invariant holds in every reachable state.
THEOREM HealInvariant == Spec => []HealInv
<1>1. Init => HealInv
  BY DEF Init, HealInv
<1>2. QueueInv /\ HealInv /\ [Next]_vars => HealInv'
  <2> SUFFICES ASSUME QueueInv, HealInv, [Next]_vars, healed', ~stopped' PROVE HealInv'
    BY DEF HealInv
  <2>0. TypeOK /\ JobsOnlyInFlight  BY DEF QueueInv
  \* A step that leaves entries, vectors and jobs alone and only adds to what waits.
  <2>1. ASSUME healed, ~stopped, UNCHANGED <<entry, vec, jobs>>, pending \subseteq pending' PROVE HealInv'
    BY <2>1 DEF HealInv, Wanted, Fits
  <2>2. \A i \in Id, e \in Entry : ~Write(i, e)  BY DEF Write
  <2>3. \A i \in Id : ~Delete(i) /\ ~DropRow(i)  BY DEF Delete, DropRow
  <2>4. ~Rebuild /\ ~Restart /\ ~PrewarmFail  BY DEF Rebuild, Restart, PrewarmFail
  <2>5. ~EmbedFail /\ ~EmbedThrows  BY DEF EmbedFail, EmbedThrows, Finish
  <2>6. CASE Start
    BY <2>1, <2>6 DEF Start, Enqueue
  <2>7. CASE Repair
    <3>1. /\ pc = "idle" /\ ~stopped /\ UNCHANGED <<entry, jobs>> /\ jobs = NoJobs
          /\ vec' = Mended /\ Requeued \subseteq pending'
      BY <2>0, <2>7 DEF Repair, Enqueue, JobsOnlyInFlight
    <3>2. ASSUME NEW i \in Id, Wanted(i), i \notin Requeued
          PROVE  /\ vec[i] \in Entry /\ Chunks[vec[i].text] = Chunks[entry[i].text]
                 /\ vec'[i] = [vec[i] EXCEPT !.meta = entry[i].meta]
      BY <2>0, <3>1, <3>2 DEF Requeued, Live, Wanted, Mended, TypeOK
    <3>3. ASSUME NEW i \in Id, Wanted(i) PROVE Fits(i)' \/ i \in pending'
      <4>1. CASE i \in Requeued
        BY <3>1, <4>1
      <4>2. CASE i \notin Requeued
        <5>1. vec'[i] \in Entry /\ vec'[i].meta = entry[i].meta /\ vec'[i].text = vec[i].text
          BY <2>0, <3>2, <3>3, <4>2 DEF Entry, Wanted, TypeOK
        <5> QED  BY <3>1, <3>2, <3>3, <4>2, <5>1, QueueAssumption DEF Fits, QueueAssumption
      <4> QED  BY <4>1, <4>2
    <3>4. \A i \in Id : jobs'[i] = None /\ (entry[i] = None => vec'[i] = None)
      BY <3>1 DEF NoJobs, Mended
    <3> QED  BY <3>1, <3>3, <3>4 DEF HealInv, Wanted
  <2>8. ASSUME NEW S \in SUBSET Id, NEW sweeps \in BOOLEAN, ProcessAll(S, sweeps) PROVE HealInv'
    <3>1. UNCHANGED <<entry, healed, stopped>>  BY <2>8 DEF ProcessAll
    <3>2. CASE pc # "idle"
      BY <2>1, <2>8, <3>1, <3>2 DEF ProcessAll
    <3>3. CASE pc = "idle"
      <4>1. healed /\ ~stopped /\ jobs = NoJobs
        BY <2>0, <3>1, <3>3 DEF JobsOnlyInFlight
      <4>2. Take(pending \cup S)  BY <2>8, <3>3, <4>1 DEF ProcessAll
      <4>3. pending \cup S \in SUBSET Id  BY <2>0 DEF TypeOK
      <4> QED  BY <2>0, <3>1, <4>1, <4>2, <4>3, TakeHeals
    <3> QED  BY <3>2, <3>3
  <2>9. CASE TimerFires \/ NextBatch
    <3>1. UNCHANGED <<entry, healed, stopped>>  BY <2>9 DEF TimerFires, NextBatch
    <3>2. CASE TimerFires /\ pc # "idle"
      BY <2>1, <3>1, <3>2 DEF TimerFires
    <3>3. CASE NextBatch \/ pc = "idle"
      BY <2>0, <2>9, <3>1, <3>3, TakeHeals DEF TimerFires, NextBatch, JobsOnlyInFlight, TypeOK
    <3> QED  BY <2>9, <3>2, <3>3
  <2>10. CASE EmbedOk
    <3>1. UNCHANGED <<entry, healed, stopped, pending>> /\ vec' = Written(InFlight) /\ jobs' = NoJobs
      BY <2>10 DEF EmbedOk, notes
    <3>2. \A i \in Id : vec'[i] = IF jobs[i] # None THEN jobs[i] ELSE vec[i]
      BY <3>1 DEF Written, InFlight
    <3>3. ASSUME NEW i \in Id
          PROVE  /\ jobs'[i] = None
                 /\ entry[i] = None => vec'[i] = None
                 /\ Wanted(i) => Fits(i)' \/ i \in pending'
      BY <3>1, <3>2 DEF HealInv, Fits, Wanted, NoJobs
    <3> QED  BY <3>1, <3>3 DEF HealInv, Wanted
  <2>11. CASE PrewarmOk
    BY <2>1, <2>11 DEF PrewarmOk, notes
  <2>12. CASE UNCHANGED vars
    BY <2>1, <2>12 DEF vars, queue, notes
  <2> QED
    BY <2>2, <2>3, <2>4, <2>5, <2>6, <2>7, <2>8, <2>9, <2>10, <2>11, <2>12 DEF Next, Outside, Pass
<1> QED  BY <1>1, <1>2, QueueInvariant, PTL DEF Spec

\* Once a repair and the work it queued are done, vectors agree with the store.
THEOREM RepairAgrees == Spec => []HealedAgrees
<1>1. QueueInv /\ HealInv => HealedAgrees
  BY DEF QueueInv, JobsOnlyInFlight, HealInv, HealedAgrees, Quiet, Fits, Wanted, NoJobs
<1> QED  BY <1>1, HealInvariant, QueueInvariant, PTL

=============================================================================

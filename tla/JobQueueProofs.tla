--------------------------- MODULE JobQueueProofs ---------------------------
(***************************************************************************)
(* Theorems about JobQueue, for every set of jobs and of workers, every    *)
(* batch size and attempt budget, and any crash or statement failure.      *)
(***************************************************************************)
EXTENDS JobQueue, TLAPS

USE ConstantsOK DEF Kinds

RowsOK ==
    /\ status \in [Ids -> Statuses]
    /\ key \in [Ids -> Keys \cup {NoKey}]
    /\ attempts \in [Ids -> Nat]
    /\ due \in [Ids -> BOOLEAN]
    /\ lockedBy \in [Ids -> Workers \cup {Nobody}]
    /\ lease \in [Ids -> {"none", "live", "expired"}]

PollsOK ==
    /\ phase \in [Workers -> Phases]
    /\ batch \in [Workers -> SUBSET Ids]
    /\ current \in [Workers -> Ids \cup {NoJob}]

\* completeJob and failJob leave well-typed rows, whoever calls them.
LEMMA SettlingTyped ==
  ASSUME RowsOK, NEW i, NEW w, CompleteJob(i, w) \/ FailJob(i, w)
  PROVE  RowsOK'
<1>1. CASE CompleteJob(i, w)
  BY <1>1 DEF RowsOK, CompleteJob, Unlock, Statuses
<1>2. CASE FailJob(i, w)
  BY <1>2 DEF RowsOK, FailJob, AfterFailure, Unlock, Statuses
<1> QED
  BY <1>1, <1>2

\* So do the moves of a worker that is done with its job, or caught an error.
LEMMA ReleaseTyped ==
  ASSUME PollsOK, NEW w, Release(w) \/ Caught(w)
  PROVE  PollsOK'
BY DEF PollsOK, Release, Caught, Phases

\* One more effect of a job leaves a count for every job.
LEMMA Counted ==
  ASSUME NEW f \in [Ids -> Nat], NEW i
  PROVE  [f EXCEPT ![i] = @ + 1] \in [Ids -> Nat]
<1>1. \A j \in Ids : f[j] + 1 \in Nat
  OBVIOUS
<1> QED
  BY <1>1

\* No step of the queue leaves the types.
LEMMA TypeStep == TypeOK /\ [Next]_vars => TypeOK'
<1> SUFFICES ASSUME TypeOK, [Next]_vars PROVE TypeOK'
  OBVIOUS
<1> USE DEF TypeOK
<1>0. RowsOK /\ PollsOK
  BY DEF RowsOK, PollsOK
<1>1. ASSUME NEW i \in Ids, NEW k \in Keys \cup {NoKey}, EnqueueJob(i, k) PROVE TypeOK'
  <2>1. PICK d \in BOOLEAN : due' = [due EXCEPT ![i] = d]
    BY <1>1 DEF EnqueueJob
  <2> QED
    BY <1>1, <2>1 DEF EnqueueJob, polls, Statuses
<1>2. ASSUME NEW i \in Ids, RunAtArrives(i) \/ LeaseExpires(i) \/ Prune(i) PROVE TypeOK'
  <2>0. due' \in [Ids -> BOOLEAN]
    <3>1. due' = [due EXCEPT ![i] = TRUE] \/ due' = due
      BY <1>2 DEF RunAtArrives, LeaseExpires, Prune
    <3> QED
      BY <3>1
  <2>1. RowsOK'
    BY <1>2, <2>0 DEF RunAtArrives, LeaseExpires, Prune, Statuses, RowsOK
  <2>2. UNCHANGED <<polls, stopping, effects, faults>>
    BY <1>2 DEF RunAtArrives, LeaseExpires, Prune
  <2> QED
    BY <2>1, <2>2 DEF RowsOK, polls
<1>3. ASSUME NEW w \in Workers, NEW S \in SUBSET Ids, ClaimJobs(w, S) PROVE TypeOK'
  <2>1. faults' \in Nat
    BY <1>3 DEF ClaimJobs, NoFault, Fault
  <2>2. RowsOK'
    BY <1>3 DEF ClaimJobs, Statuses, RowsOK
  <2>3. PollsOK'
    BY <1>3 DEF ClaimJobs, Phases, PollsOK
  <2>4. UNCHANGED <<stopping, effects>>
    BY <1>3 DEF ClaimJobs
  <2> QED
    BY <2>1, <2>2, <2>3, <2>4 DEF RowsOK, PollsOK
<1>4. ASSUME NEW w \in Workers, NEW i \in Ids, TakeJob(w, i) PROVE TypeOK'
  BY <1>4 DEF TakeJob, rows, Phases
<1>5. ASSUME NEW w \in Workers,
             BeginPoll(w) \/ EndBatch(w) \/ Stop(w) \/ RequestStop(w) \/ Crash(w)
      PROVE TypeOK'
  BY <1>5 DEF BeginPoll, EndBatch, Stop, RequestStop, Crash, rows, polls, Phases
<1>6. ASSUME NEW w \in Workers, CommitWithJob(w) PROVE TypeOK'
  <2>1. CompleteJob(current[w], w) /\ (Release(w) \/ Caught(w))
    BY <1>6 DEF CommitWithJob
  <2>2. RowsOK' /\ PollsOK'
    BY <1>0, <2>1, SettlingTyped, ReleaseTyped
  <2>3. stopping' = stopping /\ effects' = [effects EXCEPT ![current[w]] = @ + 1]
    BY <1>6 DEF CommitWithJob
  <2>4. effects' \in [Ids -> Nat]
    BY <2>3, Counted
  <2>5. faults' \in Nat
    BY <1>6 DEF CommitWithJob, NoFault, Fault
  <2> QED
    BY <2>2, <2>3, <2>4, <2>5 DEF RowsOK, PollsOK
<1>7. ASSUME NEW w \in Workers, CommitManaged(w) \/ HandlerThrows(w) PROVE TypeOK'
  BY <1>7 DEF CommitManaged, HandlerThrows, Caught, rows, Phases
<1>8. ASSUME NEW w \in Workers, CompleteManaged(w) \/ RecordFailure(w) \/ AbandonBatch(w)
      PROVE TypeOK'
  <2>1. RowsOK'
    BY <1>0, <1>8, SettlingTyped DEF CompleteManaged, RecordFailure, AbandonBatch, rows, RowsOK
  <2>2. PollsOK'
    BY <1>0, <1>8, ReleaseTyped DEF CompleteManaged, RecordFailure, AbandonBatch, PollsOK, Phases
  <2>3. UNCHANGED <<stopping, effects>>
    BY <1>8 DEF CompleteManaged, RecordFailure, AbandonBatch
  <2>4. faults' \in Nat
    BY <1>8 DEF CompleteManaged, RecordFailure, AbandonBatch, NoFault, Fault
  <2> QED
    BY <2>1, <2>2, <2>3, <2>4 DEF RowsOK, PollsOK
<1>9. CASE UNCHANGED vars
  BY <1>9 DEF vars, rows, polls
<1> QED
  BY <1>1, <1>2, <1>3, <1>4, <1>5, <1>6, <1>7, <1>8, <1>9 DEF Next, WorkerStep

\* Every column and every worker's memory stays in its type: the CHECK
\* constraints of tenant.background_jobs are never hit.
THEOREM TypeCorrect == Spec => []TypeOK
<1>1. Init => TypeOK
  BY DEF Init, TypeOK, Statuses, Phases
<1> QED
  BY <1>1, TypeStep, PTL DEF Spec

-----------------------------------------------------------------------------

\* A worker has a job in hand exactly in the phases that work on one, and a
\* batch only while it goes through one.
HandsOK ==
    \A w \in Workers :
        /\ phase[w] \in {"handling", "handled", "failing"} => current[w] \in batch[w]
        /\ phase[w] \notin {"handling", "handled", "failing"} => current[w] = NoJob
        /\ phase[w] \notin {"batch", "handling", "handled", "failing"} => batch[w] = {}

\* A claimed row is leased to the worker whose batch it is in, until that
\* worker reports it; only a lost answer leaves it settled and still in hand.
HolderAgrees ==
    \A w \in Workers : \A i \in batch[w] :
        \/ status[i] = "processing" /\ lockedBy[i] = w /\ lease[i] = "live"
        \/ status[i] \in {"completed", "deleted"} /\ phase[w] = "failing" /\ current[w] = i

\* Between its own commit and completeJob a managed handler has taken effect.
HandledHasEffect ==
    \A w \in Workers : phase[w] = "handled" =>
        Kind[current[w]] = "managed" /\ effects[current[w]] > 0

\* The inductive invariant behind the theorems below.
Inv ==
    /\ TypeOK
    /\ LockedIffProcessing
    /\ HandsOK
    /\ HolderAgrees
    /\ SingleRunner
    /\ HandledHasEffect
    /\ TxExactlyOnce
    /\ CompletedMeansRun

\* An empty queue with every worker idle satisfies the invariant.
LEMMA InvInit == Init => Inv
BY DEF Init, Inv, TypeOK, LockedIffProcessing, HandsOK, HolderAgrees, SingleRunner,
       HandledHasEffect, TxExactlyOnce, CompletedMeansRun, Statuses, Phases

\* Every statement of queue.js that sets a status sets the lock and the lease with it.
LEMMA LockStep == LockedIffProcessing /\ TypeOK /\ [Next]_vars => LockedIffProcessing'
<1> SUFFICES ASSUME TypeOK, LockedIffProcessing, [Next]_vars PROVE LockedIffProcessing'
  OBVIOUS
<1> USE DEF TypeOK, LockedIffProcessing
<1>1. ASSUME NEW i \in Ids, NEW k \in Keys \cup {NoKey}, EnqueueJob(i, k)
      PROVE LockedIffProcessing'
  BY <1>1 DEF EnqueueJob
<1>2. ASSUME NEW i \in Ids, RunAtArrives(i) \/ LeaseExpires(i) \/ Prune(i)
      PROVE LockedIffProcessing'
  BY <1>2 DEF RunAtArrives, LeaseExpires, Prune
<1>3. ASSUME NEW w \in Workers, NEW S \in SUBSET Ids, ClaimJobs(w, S)
      PROVE LockedIffProcessing'
  BY <1>3 DEF ClaimJobs
<1>4. ASSUME NEW i, NEW w \in Workers, CompleteJob(i, w) \/ FailJob(i, w)
      PROVE LockedIffProcessing'
  BY <1>4 DEF CompleteJob, FailJob, Unlock, AfterFailure
<1>5. ASSUME UNCHANGED rows PROVE LockedIffProcessing'
  BY <1>5 DEF rows
<1>6. ASSUME NEW w \in Workers, WorkerStep(w) \/ RequestStop(w) \/ Crash(w)
      PROVE LockedIffProcessing'
  BY <1>3, <1>4, <1>5, <1>6 DEF WorkerStep, BeginPoll, TakeJob, EndBatch, CommitWithJob,
     CommitManaged, CompleteManaged, HandlerThrows, RecordFailure, AbandonBatch, Stop,
     RequestStop, Crash
<1>7. CASE UNCHANGED vars
  BY <1>5, <1>7 DEF vars
<1> QED
  BY <1>1, <1>2, <1>6, <1>7 DEF Next

\* A worker takes jobs from its batch one at a time and lets go of each before the next.
LEMMA HandsStep == HandsOK /\ TypeOK /\ [Next]_vars => HandsOK'
<1> SUFFICES ASSUME TypeOK, HandsOK, [Next]_vars PROVE HandsOK'
  OBVIOUS
<1> USE DEF TypeOK, HandsOK
<1>1. ASSUME UNCHANGED polls PROVE HandsOK'
  BY <1>1 DEF polls
<1>2. ASSUME NEW w \in Workers, NEW S \in SUBSET Ids, ClaimJobs(w, S) PROVE HandsOK'
  BY <1>2 DEF ClaimJobs
<1>3. ASSUME NEW w \in Workers, NEW i \in Ids, TakeJob(w, i) PROVE HandsOK'
  BY <1>3 DEF TakeJob
<1>4. ASSUME NEW w \in Workers, BeginPoll(w) \/ EndBatch(w) \/ Stop(w) \/ Crash(w) PROVE HandsOK'
  BY <1>4 DEF BeginPoll, EndBatch, Stop, Crash, Live
<1>5. ASSUME NEW w \in Workers, Release(w) PROVE HandsOK'
  BY <1>5 DEF Release
<1>6. ASSUME NEW w \in Workers, phase[w] \in {"handling", "handled"}, Caught(w) PROVE HandsOK'
  BY <1>6 DEF Caught
<1>7. ASSUME NEW w \in Workers, CommitManaged(w) \/ AbandonBatch(w) PROVE HandsOK'
  BY <1>7 DEF CommitManaged, AbandonBatch
<1>8. ASSUME NEW w \in Workers, WorkerStep(w) \/ RequestStop(w) PROVE HandsOK'
  BY <1>1, <1>2, <1>3, <1>4, <1>5, <1>6, <1>7, <1>8
     DEF WorkerStep, CommitWithJob, CompleteManaged, HandlerThrows, RecordFailure, RequestStop
<1>9. ASSUME NEW i \in Ids, \/ \E k \in Keys \cup {NoKey} : EnqueueJob(i, k)
                            \/ RunAtArrives(i) \/ LeaseExpires(i) \/ Prune(i)
      PROVE HandsOK'
  BY <1>1, <1>9 DEF EnqueueJob, RunAtArrives, LeaseExpires, Prune
<1> QED
  BY <1>1, <1>4, <1>8, <1>9 DEF Next, vars

\* The rows of every batch, after a step that settles the job in w's hand.
LEMMA SettleKeepsOthers ==
  ASSUME TypeOK, HandsOK, HolderAgrees, SingleRunner, LockedIffProcessing,
         NEW w \in Workers, phase[w] \in {"handling", "handled", "failing"},
         CompleteJob(current[w], w) \/ FailJob(current[w], w) \/ UNCHANGED rows
  PROVE  \A v \in Workers : \A i \in batch[v] :
            (v # w \/ i # current[w]) =>
                (status[i] = status'[i] /\ lockedBy[i] = lockedBy'[i] /\ lease[i] = lease'[i])
<1> SUFFICES ASSUME NEW v \in Workers, NEW i \in batch[v], v # w \/ i # current[w]
             PROVE  status[i] = status'[i] /\ lockedBy[i] = lockedBy'[i] /\ lease[i] = lease'[i]
  OBVIOUS
<1>1. i # current[w]
  BY DEF HandsOK, SingleRunner, TypeOK
<1> QED
  BY <1>1 DEF TypeOK, CompleteJob, FailJob, Unlock, rows

\* While leases outlast batches, no step of another takes a row from its holder.
LEMMA HolderStep ==
  ASSUME ~Overrun, Inv, [Next]_vars
  PROVE  HolderAgrees'
<1> USE DEF Inv
<1>1. ASSUME NEW i \in Ids, NEW k \in Keys \cup {NoKey}, EnqueueJob(i, k) PROVE HolderAgrees'
  BY <1>1 DEF EnqueueJob, HolderAgrees, TypeOK, polls
<1>2. ASSUME NEW i \in Ids, RunAtArrives(i) \/ LeaseExpires(i) \/ Prune(i) PROVE HolderAgrees'
  BY <1>2 DEF RunAtArrives, LeaseExpires, Prune, HolderAgrees, TypeOK, polls
<1>3. ASSUME NEW w \in Workers, NEW S \in SUBSET Ids, ClaimJobs(w, S) PROVE HolderAgrees'
  BY <1>3 DEF ClaimJobs, Claimable, HolderAgrees, TypeOK, HandsOK
<1>4. ASSUME NEW w \in Workers, NEW i \in Ids, TakeJob(w, i) PROVE HolderAgrees'
  BY <1>4 DEF TakeJob, HolderAgrees, HandsOK, TypeOK, rows
<1>5. ASSUME NEW w \in Workers,
             BeginPoll(w) \/ EndBatch(w) \/ Stop(w) \/ RequestStop(w) \/ Crash(w)
      PROVE HolderAgrees'
  BY <1>5 DEF BeginPoll, EndBatch, Stop, RequestStop, Crash, HolderAgrees, HandsOK, TypeOK, rows, polls
<1>6. ASSUME NEW w \in Workers, CommitManaged(w) \/ HandlerThrows(w) PROVE HolderAgrees'
  BY <1>6 DEF CommitManaged, HandlerThrows, Caught, HolderAgrees, TypeOK, rows
<1>7. ASSUME NEW w \in Workers, phase[w] \in {"handling", "handled", "failing"},
             CompleteJob(current[w], w) \/ FailJob(current[w], w), Release(w)
      PROVE HolderAgrees'
  BY <1>7, SettleKeepsOthers DEF Release, HolderAgrees, TypeOK
<1>8. ASSUME NEW w \in Workers, phase[w] \in {"handling", "handled"},
             CompleteJob(current[w], w) \/ UNCHANGED rows, Caught(w)
      PROVE HolderAgrees'
  <2>1. current[w] \in batch[w] /\ lockedBy[current[w]] = w /\ status[current[w]] = "processing"
    BY <1>8 DEF HandsOK, HolderAgrees
  <2>2. \/ status'[current[w]] = "completed"
        \/ UNCHANGED rows
    BY <1>8, <2>1 DEF CompleteJob, Unlock, TypeOK
  <2> QED
    BY <1>8, <2>1, <2>2, SettleKeepsOthers DEF Caught, HolderAgrees, TypeOK, rows
<1>9. ASSUME NEW w \in Workers, AbandonBatch(w) PROVE HolderAgrees'
  BY <1>9, SettleKeepsOthers DEF AbandonBatch, HolderAgrees, TypeOK
<1>10. ASSUME NEW w \in Workers, CommitWithJob(w) \/ CompleteManaged(w) \/ RecordFailure(w)
       PROVE HolderAgrees'
  BY <1>7, <1>8, <1>10 DEF CommitWithJob, CompleteManaged, RecordFailure
<1>11. CASE UNCHANGED vars
  BY <1>11 DEF vars, rows, polls, HolderAgrees
<1> QED
  BY <1>1, <1>2, <1>3, <1>4, <1>5, <1>6, <1>9, <1>10, <1>11 DEF Next, WorkerStep

\* A claim takes only rows that nobody holds.
LEMMA SingleStep ==
  ASSUME ~Overrun, Inv, [Next]_vars
  PROVE  SingleRunner'
<1> USE DEF Inv
<1>1. ASSUME NEW w \in Workers, NEW S \in SUBSET Ids, ClaimJobs(w, S) PROVE SingleRunner'
  <2>1. \A v \in Workers : S \cap batch[v] = {}
    BY <1>1 DEF ClaimJobs, Claimable, HolderAgrees, TypeOK
  <2> QED
    BY <1>1, <2>1 DEF ClaimJobs, SingleRunner, TypeOK
<1>2. ASSUME NEW w \in Workers, batch'[w] \subseteq batch[w],
             \A v \in Workers \ {w} : batch'[v] = batch[v]
      PROVE SingleRunner'
  BY <1>2 DEF SingleRunner, TypeOK
<1>3. ASSUME UNCHANGED batch PROVE SingleRunner'
  BY <1>3 DEF SingleRunner
<1>4. ASSUME NEW w \in Workers, CommitWithJob(w) \/ CompleteManaged(w) \/ RecordFailure(w)
                                \/ AbandonBatch(w) \/ Crash(w)
      PROVE SingleRunner'
  BY <1>2, <1>3, <1>4 DEF CommitWithJob, CompleteManaged, RecordFailure, AbandonBatch, Crash,
     Release, Caught, TypeOK
<1>5. ASSUME NEW w \in Workers, \/ BeginPoll(w) \/ EndBatch(w) \/ Stop(w) \/ RequestStop(w)
                                \/ CommitManaged(w) \/ HandlerThrows(w)
                                \/ \E i \in Ids : TakeJob(w, i)
      PROVE SingleRunner'
  BY <1>3, <1>5 DEF BeginPoll, EndBatch, Stop, RequestStop, CommitManaged, HandlerThrows,
     TakeJob, Caught, polls
<1>6. ASSUME NEW i \in Ids, \/ \E k \in Keys \cup {NoKey} : EnqueueJob(i, k)
                            \/ RunAtArrives(i) \/ LeaseExpires(i) \/ Prune(i)
      PROVE SingleRunner'
  BY <1>3, <1>6 DEF EnqueueJob, RunAtArrives, LeaseExpires, Prune, polls
<1> QED
  BY <1>1, <1>3, <1>4, <1>5, <1>6 DEF Next, WorkerStep, vars, polls

\* What a step does to the rows and effects of one job: the cases the two
\* counting invariants and the refinement distinguish.
RowStep(i) ==
    \/ /\ Seen(i)' = Seen(i)
       /\ effects'[i] = effects[i]
    \/ /\ status[i] = "absent" /\ status'[i] = "pending"
       /\ effects'[i] = effects[i]
    \/ /\ status[i] \in {"completed", "dead"} /\ status'[i] = "deleted"
       /\ effects'[i] = effects[i]
    \/ /\ Kind[i] = "tx" /\ status[i] = "processing" /\ status'[i] = "completed"
       /\ effects'[i] = effects[i] + 1
    \/ /\ Kind[i] = "managed" /\ status[i] = "processing" /\ status'[i] = "processing"
       /\ effects'[i] = effects[i] + 1
    \/ /\ Kind[i] = "managed" /\ status[i] = "processing" /\ status'[i] = "completed"
       /\ effects[i] > 0 /\ effects'[i] = effects[i]
    \/ /\ status[i] = "processing" /\ status'[i] = "dead"
       /\ effects'[i] = effects[i]

Untouched(i) == Seen(i)' = Seen(i) /\ effects'[i] = effects[i]

\* Every step does one of these to one job and leaves the others as they are.
LEMMA OneJobMoves ==
  ASSUME ~Overrun, Inv, [Next]_vars
  PROVE  \/ \A i \in Ids : Untouched(i)
         \/ \E i \in Ids : RowStep(i) /\ \A j \in Ids \ {i} : Untouched(j)
<1> DEFINE Goal == \/ \A i \in Ids : Untouched(i)
                   \/ \E i \in Ids : RowStep(i) /\ \A j \in Ids \ {i} : Untouched(j)
<1> SUFFICES Goal
  OBVIOUS
<1> USE DEF Inv
<1>1. ASSUME NEW i \in Ids, NEW k \in Keys \cup {NoKey}, EnqueueJob(i, k) PROVE Goal
  <2>1. /\ status[i] = "absent" /\ effects' = effects
        /\ status' = [status EXCEPT ![i] = "pending"]
    BY <1>1 DEF EnqueueJob
  <2>2. RowStep(i)
    BY <2>1 DEF RowStep, TypeOK
  <2>3. \A j \in Ids \ {i} : Untouched(j)
    BY <2>1 DEF Untouched, Seen, TypeOK
  <2> QED
    BY <2>2, <2>3
<1>2. ASSUME NEW i \in Ids, Prune(i) PROVE Goal
  BY <1>2 DEF Prune, RowStep, Untouched, Seen, TypeOK
<1>3. ASSUME UNCHANGED <<status, effects>> PROVE Goal
  BY <1>3 DEF Untouched, Seen
<1>4. ASSUME NEW w \in Workers, NEW S \in SUBSET Ids, ClaimJobs(w, S) PROVE Goal
  <2>1. ASSUME NEW i \in Ids PROVE Untouched(i)
    BY <1>4 DEF ClaimJobs, Claimable, Untouched, Seen, TypeOK
  <2> QED
    BY <2>1
<1>5. ASSUME NEW w \in Workers, CommitWithJob(w) PROVE Goal
  <2> DEFINE i == current[w]
  <2>1. i \in Ids /\ Kind[i] = "tx" /\ status[i] = "processing" /\ lockedBy[i] = w
    BY <1>5 DEF CommitWithJob, HandsOK, HolderAgrees, TypeOK
  <2>2. status' = [status EXCEPT ![i] = "completed"] /\ effects' = [effects EXCEPT ![i] = @ + 1]
    BY <1>5, <2>1 DEF CommitWithJob, CompleteJob, Unlock
  <2>3. RowStep(i) /\ \A j \in Ids \ {i} : Untouched(j)
    BY <2>1, <2>2 DEF RowStep, Untouched, Seen, TypeOK
  <2> QED
    BY <2>1, <2>3
<1>6. ASSUME NEW w \in Workers, CommitManaged(w) PROVE Goal
  <2> DEFINE i == current[w]
  <2>1. i \in Ids /\ Kind[i] = "managed" /\ status[i] = "processing"
    BY <1>6 DEF CommitManaged, HandsOK, HolderAgrees, TypeOK
  <2>2. status' = status /\ effects' = [effects EXCEPT ![i] = @ + 1]
    BY <1>6 DEF CommitManaged, rows
  <2>3. RowStep(i) /\ \A j \in Ids \ {i} : Untouched(j)
    BY <2>1, <2>2 DEF RowStep, Untouched, Seen, TypeOK
  <2> QED
    BY <2>1, <2>3
<1>7. ASSUME NEW w \in Workers, CompleteManaged(w) PROVE Goal
  <2> DEFINE i == current[w]
  <2>1. /\ i \in Ids /\ Kind[i] = "managed" /\ effects[i] > 0
        /\ status[i] = "processing" /\ lockedBy[i] = w
    BY <1>7 DEF CompleteManaged, HandsOK, HolderAgrees, HandledHasEffect, TypeOK
  <2>2. effects' = effects /\ status' \in {status, [status EXCEPT ![i] = "completed"]}
    BY <1>7, <2>1 DEF CompleteManaged, CompleteJob, Unlock, rows
  <2>3. CASE status' = [status EXCEPT ![i] = "completed"]
    <3>1. RowStep(i) /\ \A j \in Ids \ {i} : Untouched(j)
      BY <2>1, <2>2, <2>3 DEF RowStep, Untouched, Seen, TypeOK
    <3> QED
      BY <2>1, <3>1
  <2> QED
    BY <1>3, <2>2, <2>3
<1>8. ASSUME NEW w \in Workers, RecordFailure(w) \/ AbandonBatch(w) PROVE Goal
  <2> DEFINE i == current[w]
  <2>1. /\ i \in Ids /\ effects' = effects
        /\ FailJob(i, w) \/ UNCHANGED rows
    BY <1>8 DEF RecordFailure, AbandonBatch, HandsOK, TypeOK
  <2>2. CASE lockedBy[i] # w \/ UNCHANGED rows
    BY <1>3, <2>1, <2>2 DEF FailJob, rows
  <2>3. CASE lockedBy[i] = w /\ FailJob(i, w)
    <3>1. status[i] = "processing" /\ status' = [status EXCEPT ![i] = AfterFailure(i)]
      BY <2>1, <2>3 DEF FailJob, Unlock, LockedIffProcessing
    <3>2. status'[i] \in {"pending", "dead"}
      BY <2>1, <3>1 DEF AfterFailure, TypeOK
    <3>3. \A j \in Ids \ {i} : Untouched(j)
      BY <2>1, <3>1 DEF Untouched, Seen, TypeOK
    <3>4. CASE status'[i] = "pending"
      BY <1>3, <2>1, <3>1, <3>4 DEF Untouched, Seen, TypeOK
    <3>5. CASE status'[i] = "dead"
      <4>1. RowStep(i)
        BY <2>1, <3>1, <3>5 DEF RowStep
      <4> QED
        BY <2>1, <3>3, <4>1
    <3> QED
      BY <3>2, <3>4, <3>5
  <2> QED
    BY <2>1, <2>2, <2>3
<1>9. ASSUME NEW w \in Workers, \/ BeginPoll(w) \/ EndBatch(w) \/ Stop(w) \/ RequestStop(w)
                                \/ Crash(w) \/ HandlerThrows(w)
                                \/ \E i \in Ids : TakeJob(w, i)
      PROVE Goal
  BY <1>3, <1>9 DEF BeginPoll, EndBatch, Stop, RequestStop, Crash, HandlerThrows, TakeJob, rows
<1>10. ASSUME NEW i \in Ids, RunAtArrives(i) \/ LeaseExpires(i) PROVE Goal
  BY <1>3, <1>10 DEF RunAtArrives, LeaseExpires
<1>11. CASE UNCHANGED vars
  BY <1>3, <1>11 DEF vars, rows
<1> QED
  BY <1>1, <1>2, <1>4, <1>5, <1>6, <1>7, <1>8, <1>9, <1>10, <1>11 DEF Next, WorkerStep

\* A job that waits to be completed keeps the commit of its handler.
LEMMA HandledStep ==
  ASSUME ~Overrun, Inv, [Next]_vars
  PROVE  HandledHasEffect'
<1> USE DEF Inv, HandledHasEffect
<1>1. ASSUME NEW w \in Workers, CommitManaged(w) PROVE HandledHasEffect'
  BY <1>1 DEF CommitManaged, TypeOK, HandsOK
<1>2. ASSUME NEW w \in Workers, phase'[w] # "handled", UNCHANGED effects,
             \A v \in Workers \ {w} : phase'[v] = phase[v] /\ current'[v] = current[v]
      PROVE HandledHasEffect'
  BY <1>2 DEF TypeOK
<1>3. ASSUME UNCHANGED <<phase, current, effects>> PROVE HandledHasEffect'
  BY <1>3
<1>4. ASSUME NEW w \in Workers, CommitWithJob(w) PROVE HandledHasEffect'
  <2>1. /\ phase'[w] # "handled"
        /\ \A v \in Workers \ {w} : phase'[v] = phase[v] /\ current'[v] = current[v]
    BY <1>4 DEF CommitWithJob, Release, Caught, TypeOK
  <2>2. effects' = [effects EXCEPT ![current[w]] = @ + 1]
    BY <1>4 DEF CommitWithJob
  <2>3. \A i \in Ids : effects[i] > 0 => effects'[i] > 0
    BY <2>2 DEF TypeOK
  <2>4. \A v \in Workers : phase[v] = "handled" => current[v] \in Ids
    BY DEF HandsOK, TypeOK
  <2> QED
    BY <2>1, <2>3, <2>4
<1>5. ASSUME NEW w \in Workers,
             \/ \E S \in SUBSET Ids : ClaimJobs(w, S)
             \/ \E i \in Ids : TakeJob(w, i)
             \/ BeginPoll(w) \/ EndBatch(w) \/ Stop(w) \/ Crash(w)
             \/ CompleteManaged(w) \/ HandlerThrows(w) \/ RecordFailure(w) \/ AbandonBatch(w)
      PROVE HandledHasEffect'
  <2>1. /\ phase'[w] # "handled" /\ UNCHANGED effects
        /\ \A v \in Workers \ {w} : phase'[v] = phase[v] /\ current'[v] = current[v]
    BY <1>5 DEF ClaimJobs, TakeJob, BeginPoll, EndBatch, Stop, Crash, CompleteManaged,
       HandlerThrows, RecordFailure, AbandonBatch, Release, Caught, TypeOK
  <2> QED
    BY <1>2, <2>1
<1>6. ASSUME NEW i \in Ids, \/ \E k \in Keys \cup {NoKey} : EnqueueJob(i, k)
                            \/ RunAtArrives(i) \/ LeaseExpires(i) \/ Prune(i)
      PROVE HandledHasEffect'
  BY <1>3, <1>6 DEF EnqueueJob, RunAtArrives, LeaseExpires, Prune, polls
<1>7. ASSUME NEW w \in Workers, RequestStop(w) PROVE HandledHasEffect'
  BY <1>3, <1>7 DEF RequestStop, polls
<1> QED
  BY <1>1, <1>3, <1>4, <1>5, <1>6, <1>7 DEF Next, WorkerStep, vars, polls

\* A commit is counted with the completion that belongs to it, and no completion comes without one.
LEMMA CountStep ==
  ASSUME ~Overrun, Inv, [Next]_vars
  PROVE  TxExactlyOnce' /\ CompletedMeansRun'
<1> USE DEF Inv
<1>1. ASSUME NEW i \in Ids, Untouched(i) \/ RowStep(i)
      PROVE  /\ (Kind[i] = "tx" /\ status'[i] # "deleted") =>
                   effects'[i] = IF status'[i] = "completed" THEN 1 ELSE 0
             /\ status'[i] = "completed" => effects'[i] > 0
  <2>1. status[i] \in Statuses /\ status'[i] \in Statuses /\ effects[i] \in Nat
    BY TypeStep DEF TypeOK
  <2>2. /\ (Kind[i] = "tx" /\ status[i] # "deleted") =>
             effects[i] = IF status[i] = "completed" THEN 1 ELSE 0
        /\ status[i] = "completed" => effects[i] > 0
    BY DEF TxExactlyOnce, CompletedMeansRun
  <2>3. CASE Seen(i)' = Seen(i) /\ effects'[i] = effects[i]
    <3>1. status'[i] = "completed" <=> status[i] = "completed"
      BY <2>1, <2>3 DEF Seen, Statuses
    <3>2. status'[i] = "deleted" <=> status[i] = "deleted"
      BY <2>1, <2>3 DEF Seen, Statuses
    <3> QED
      BY <2>2, <2>3, <3>1, <3>2
  <2>4. CASE RowStep(i) /\ ~Untouched(i)
    BY <2>1, <2>2, <2>4 DEF RowStep, Untouched
  <2> QED
    BY <1>1, <2>3, <2>4 DEF Untouched
<1>2. \A i \in Ids : Untouched(i) \/ RowStep(i)
  BY OneJobMoves
<1> QED
  BY <1>1, <1>2 DEF TxExactlyOnce, CompletedMeansRun

-----------------------------------------------------------------------------

\* The inductive invariant holds when leases outlast their batches.
THEOREM Invariance == ASSUME ~Overrun PROVE Spec => []Inv
<1>1. Inv /\ [Next]_vars => Inv'
  BY TypeStep, LockStep, HandsStep, HolderStep, SingleStep, HandledStep, CountStep DEF Inv
<1> QED
  BY <1>1, InvInit, PTL DEF Spec

\* Replicas never have one job in two batches.
THEOREM OneRunner == ASSUME ~Overrun PROVE Spec => []SingleRunner
<1>1. Inv => SingleRunner
  BY DEF Inv
<1> QED
  BY <1>1, Invariance, PTL

\* A tenant_transaction handler commits once for a completed job and never for
\* another, whichever workers crash and whichever statements fail.
THEOREM ExactlyOnce == ASSUME ~Overrun PROVE Spec => []TxExactlyOnce
<1>1. Inv => TxExactlyOnce
  BY DEF Inv
<1> QED
  BY <1>1, Invariance, PTL

\* The row's lock, lease and status agree, whether or not leases are overrun.
THEOREM LocksAgree == Spec => []LockedIffProcessing
<1>1. Init => LockedIffProcessing /\ TypeOK
  BY InvInit DEF Inv
<1>2. (LockedIffProcessing /\ TypeOK) /\ [Next]_vars => (LockedIffProcessing /\ TypeOK)'
  BY LockStep, TypeStep
<1> QED
  BY <1>1, <1>2, PTL DEF Spec

\* A worker whose answer comes late settles nothing: the row is already another's
\* or nobody's.  No assumption on leases.
THEOREM FinalIsFinal == Spec => FinishedIsFinal
<1> DEFINE I == TypeOK /\ LockedIffProcessing
           A == \A i \in Ids :
                  status[i] \in {"completed", "dead"} => status'[i] \in {status[i], "deleted"}
<1>1. ASSUME I, [Next]_vars PROVE A
  <2> SUFFICES ASSUME NEW i \in Ids, status[i] \in {"completed", "dead"}
               PROVE  status'[i] \in {status[i], "deleted"}
    OBVIOUS
  <2> USE DEF TypeOK
  <2>0. ASSUME UNCHANGED status PROVE status'[i] \in {status[i], "deleted"}
    BY <2>0
  <2>1. ASSUME NEW j \in Ids, \/ \E k \in Keys \cup {NoKey} : EnqueueJob(j, k)
                              \/ RunAtArrives(j) \/ LeaseExpires(j) \/ Prune(j)
        PROVE  status'[i] \in {status[i], "deleted"}
    <3>1. \/ status' = status
          \/ status[j] = "absent" /\ status' = [status EXCEPT ![j] = "pending"]
          \/ status' = [status EXCEPT ![j] = "deleted"]
      BY <2>1 DEF EnqueueJob, RunAtArrives, LeaseExpires, Prune
    <3> QED
      BY <1>1, <3>1
  <2>2. ASSUME NEW w \in Workers, NEW S \in SUBSET Ids, ClaimJobs(w, S)
        PROVE  status'[i] \in {status[i], "deleted"}
    BY <2>2 DEF ClaimJobs, Claimable
  <2>3. ASSUME NEW j, NEW w \in Workers, CompleteJob(j, w) \/ FailJob(j, w)
        PROVE  status'[i] \in {status[i], "deleted"}
    <3>1. lockedBy[i] = Nobody
      BY <1>1 DEF LockedIffProcessing
    <3>2. CASE i = j
      BY <2>3, <3>1, <3>2 DEF CompleteJob, FailJob
    <3>3. CASE i # j
      <4>1. status' = status \/ \E s : status' = [status EXCEPT ![j] = s]
        BY <2>3 DEF CompleteJob, FailJob, Unlock
      <4> QED
        BY <1>1, <3>3, <4>1
    <3> QED
      BY <3>2, <3>3
  <2>4. ASSUME NEW w \in Workers, WorkerStep(w) \/ RequestStop(w) \/ Crash(w)
        PROVE  status'[i] \in {status[i], "deleted"}
    BY <2>0, <2>2, <2>3, <2>4 DEF WorkerStep, BeginPoll, TakeJob, EndBatch, CommitWithJob,
       CommitManaged, CompleteManaged, HandlerThrows, RecordFailure, AbandonBatch, Stop,
       RequestStop, Crash, rows
  <2> QED
    BY <1>1, <2>0, <2>1, <2>4 DEF Next, vars, rows
<1>2. Spec => []I
  BY TypeCorrect, LocksAgree, PTL
<1>3. I /\ [Next]_vars => [A]_vars
  BY <1>1
<1> QED
  BY <1>2, <1>3, PTL DEF Spec, FinishedIsFinal

\* A processing row is settled only by the worker that has it in hand and whose
\* name its lock bears; a worker that lost the row changes nothing.  No
\* assumption on leases.
THEOREM HolderSettles == Spec => OnlyHolderSettles
<1> DEFINE A == \A i \in Ids :
                  (status[i] = "processing" /\ status'[i] # "processing") =>
                      \E w \in Workers : current[w] = i /\ lockedBy[i] = w
<1>1. ASSUME TypeOK, [Next]_vars PROVE A
  <2> SUFFICES ASSUME NEW i \in Ids, status[i] = "processing", status'[i] # "processing"
               PROVE  \E w \in Workers : current[w] = i /\ lockedBy[i] = w
    OBVIOUS
  <2> DEFINE Goal == \E w \in Workers : current[w] = i /\ lockedBy[i] = w
  <2> USE <1>1 DEF TypeOK
  <2>1. status' # status
    OBVIOUS
  <2>2. ASSUME NEW j \in Ids, \/ \E k \in Keys \cup {NoKey} : EnqueueJob(j, k)
                              \/ RunAtArrives(j) \/ LeaseExpires(j) \/ Prune(j)
        PROVE  Goal
    BY <2>1, <2>2 DEF EnqueueJob, RunAtArrives, LeaseExpires, Prune
  <2>3. ASSUME NEW w \in Workers, NEW S \in SUBSET Ids, ClaimJobs(w, S) PROVE Goal
    BY <2>3 DEF ClaimJobs
  <2>4. ASSUME NEW w \in Workers, CompleteJob(current[w], w) \/ FailJob(current[w], w) PROVE Goal
    <3>1. lockedBy[current[w]] = w
      BY <2>1, <2>4 DEF CompleteJob, FailJob
    <3>2. current[w] = i
      BY <2>4 DEF CompleteJob, FailJob, Unlock
    <3> QED
      BY <3>1, <3>2
  <2>5. ASSUME NEW w \in Workers, WorkerStep(w) \/ RequestStop(w) \/ Crash(w) PROVE Goal
    BY <2>1, <2>3, <2>4, <2>5 DEF WorkerStep, BeginPoll, TakeJob, EndBatch, CommitWithJob,
       CommitManaged, CompleteManaged, HandlerThrows, RecordFailure, AbandonBatch, Stop,
       RequestStop, Crash, rows
  <2> QED
    BY <2>1, <2>2, <2>5 DEF Next, vars, rows
<1>2. TypeOK /\ [Next]_vars => [A]_vars
  BY <1>1
<1> QED
  BY <1>2, TypeCorrect, PTL DEF Spec, OnlyHolderSettles

\* What the enqueuing code sees is a behaviour of DeliveryContract: accepted jobs
\* are delivered while open, "tx" jobs in the same step as they are done.
THEOREM Refines == ASSUME ~Overrun PROVE Spec => KeepsContract
<1>1. Init => Contract!Init
  BY DEF Init, Contract!Init, Seen
<1>2. Inv /\ Inv' /\ [Next]_vars => [Contract!Next]_(Contract!vars)
  <2> SUFFICES ASSUME Inv, Inv', [Next]_vars PROVE [Contract!Next]_(Contract!vars)
    OBVIOUS
  <2> USE DEF Inv
  <2>0. effects \in [Ids -> Nat] /\ effects' \in [Ids -> Nat]
    BY DEF TypeOK
  <2>1. CASE \A i \in Ids : Untouched(i)
    BY <2>0, <2>1 DEF Untouched, Contract!vars
  <2>2. ASSUME NEW i \in Ids, RowStep(i), \A j \in Ids \ {i} : Untouched(j), ~Untouched(i)
        PROVE  Contract!Next
    <3> DEFINE seen == [j \in Ids |-> Seen(j)]
    <3>1. status[i] \in Statuses /\ status'[i] \in Statuses
      BY DEF TypeOK
    <3>2. seen' = [j \in Ids |-> IF j \in {i} THEN Seen(i)' ELSE seen[j]]
      BY <2>2 DEF Untouched
    <3>3. effects' = [effects EXCEPT ![i] = effects'[i]]
      BY <2>0, <2>2 DEF Untouched
    <3>4. CASE status[i] = "absent" /\ status'[i] = "pending" /\ effects'[i] = effects[i]
      <4>1. Seen(i) = "none" /\ Seen(i)' = "open"
        BY <3>4 DEF Seen
      <4>2. Contract!Accept({i})
        BY <2>0, <3>2, <3>3, <3>4, <4>1 DEF Contract!Accept, Contract!Enter, Contract!To
      <4> QED
        BY <4>2 DEF Contract!Next
    <3>5. CASE /\ status[i] \in {"completed", "dead"} /\ status'[i] = "deleted"
               /\ effects'[i] = effects[i]
      <4>1. Seen(i) \in {"done", "dead"} /\ Seen(i)' = "gone"
        BY <3>5 DEF Seen
      <4>2. Contract!Forget({i})
        BY <2>0, <3>2, <3>3, <3>5, <4>1 DEF Contract!Forget, Contract!To
      <4> QED
        BY <4>2 DEF Contract!Next
    <3>6. CASE /\ Kind[i] = "tx" /\ status[i] = "processing" /\ status'[i] = "completed"
               /\ effects'[i] = effects[i] + 1
      <4>1. Seen(i) = "open" /\ Seen(i)' = "done"
        BY <3>6 DEF Seen
      <4>2. Contract!Deliver(i)
        BY <2>0, <3>2, <3>3, <3>6, <4>1 DEF Contract!Deliver, Contract!Owed, Contract!To
      <4> QED
        BY <4>2 DEF Contract!Next
    <3>7. CASE /\ Kind[i] = "managed" /\ status[i] = "processing" /\ status'[i] = "processing"
               /\ effects'[i] = effects[i] + 1
      <4>1. Seen(i) = "open" /\ Seen(i)' = "open"
        BY <3>7 DEF Seen
      <4>2. Contract!Deliver(i)
        BY <2>0, <3>2, <3>3, <3>7, <4>1 DEF Contract!Deliver, Contract!Owed
      <4> QED
        BY <4>2 DEF Contract!Next
    <3>8. CASE /\ Kind[i] = "managed" /\ status[i] = "processing" /\ status'[i] = "completed"
               /\ effects[i] > 0 /\ effects'[i] = effects[i]
      <4>1. Seen(i) = "open" /\ Seen(i)' = "done"
        BY <3>8 DEF Seen
      <4>2. Contract!Close(i)
        BY <2>0, <3>2, <3>3, <3>8, <4>1 DEF Contract!Close, Contract!Owed, Contract!To
      <4> QED
        BY <4>2 DEF Contract!Next
    <3>9. CASE /\ status[i] = "processing" /\ status'[i] = "dead"
               /\ effects'[i] = effects[i]
      <4>1. Seen(i) = "open" /\ Seen(i)' = "dead"
        BY <3>9 DEF Seen
      <4>2. Contract!GiveUp(i)
        BY <2>0, <3>2, <3>3, <3>9, <4>1 DEF Contract!GiveUp, Contract!Owed, Contract!To
      <4> QED
        BY <4>2 DEF Contract!Next
    <3> QED
      BY <2>2, <3>4, <3>5, <3>6, <3>7, <3>8, <3>9 DEF RowStep, Untouched
  <2> QED
    BY <2>1, <2>2, OneJobMoves
<1> QED
  BY <1>1, <1>2, Invariance, PTL DEF Spec, KeepsContract, Contract!Spec
=============================================================================

------------------------------ MODULE JobQueue ------------------------------
(***************************************************************************)
(* The durable job queue of one organisation and the worker processes that *)
(* drain it (services/worker/src/queue.js, worker.js).                     *)
(*                                                                         *)
(* The columns of tenant.background_jobs are functions of the row id; each *)
(* SQL transaction is one action.  Time is two flags per row: whether      *)
(* run_at has arrived, and whether the lease of a claimed row still runs.  *)
(* A worker is one process incarnation: workerId is fresh per start, so a  *)
(* crashed worker never comes back under the same name.                    *)
(*                                                                         *)
(* The order within a batch (priority, run_at) is left open, and the       *)
(* status "cancelled", which no code writes, is left out.                  *)
(***************************************************************************)
EXTENDS Naturals, FiniteSets

CONSTANTS
    Ids,          \* row ids (uuids; never reused)
    Keys,         \* idempotency keys
    NoKey,        \* a NULL idempotency_key, which never collides
    Workers,      \* worker process incarnations
    Nobody,       \* locked_by IS NULL
    NoJob,        \* the worker has no job in hand
    Kind,         \* Kind[i]: what the registry knows of the row's job_type
    MaxAttempts,  \* max_attempts
    BatchSize,    \* WORKER_BATCH_SIZE
    MayCrash,     \* the workers that may be killed
    MayStop,      \* the workers that may be asked to stop
    Overrun,      \* may a lease run out while its holder still works on the batch?
    FaultCap,     \* bound of the model: statements that fail, before or after they committed
    ClaimCap,     \* bound of the model: claims of one row
    Mixes         \* bound of the model: rows that are enqueued in one behaviour

Kinds == {"tx", "managed", "malformed", "unknown"}

ASSUME ConstantsOK ==
    /\ NoKey \notin Keys
    /\ Nobody \notin Workers
    /\ NoJob \notin Ids
    /\ Kind \in [Ids -> Kinds]
    /\ MaxAttempts \in Nat \ {0}
    /\ BatchSize \in Nat \ {0}
    /\ MayCrash \subseteq Workers
    /\ MayStop \subseteq Workers
    /\ Overrun \in BOOLEAN
    /\ FaultCap \in Nat
    /\ ClaimCap \in Nat

ASSUME MixesOK == \A m \in Mixes : m \subseteq Ids

VARIABLES
    status, key, attempts,  \* the row
    due,                    \* run_at <= now()
    lockedBy, lease,        \* locked_by; lease_expires_at against now()
    phase,                  \* phase[w]: where worker w's poll stands
    batch,                  \* batch[w]: rows claimed by w and not yet settled by it
    current,                \* current[w]: the row w has in hand
    stopping,               \* stopRequested
    faults,                 \* statements that failed so far
    effects                 \* history: how often the handler of i has committed

rows == <<status, key, attempts, due, lockedBy, lease>>
polls == <<phase, batch, current>>
vars == <<rows, polls, stopping, effects, faults>>

Statuses == {"absent", "pending", "processing", "completed", "dead", "deleted"}
Phases == {"idle", "claiming", "batch", "handling", "handled", "failing", "stopped", "crashed"}

\* A statement succeeds, or it fails as far as its caller can tell.
NoFault == UNCHANGED faults
Fault == faults < FaultCap /\ faults' = faults + 1

Live(w) == phase[w] \notin {"stopped", "crashed"}

-----------------------------------------------------------------------------

Init ==
    /\ status = [i \in Ids |-> "absent"]
    /\ key = [i \in Ids |-> NoKey]
    /\ attempts = [i \in Ids |-> 0]
    /\ due = [i \in Ids |-> FALSE]
    /\ lockedBy = [i \in Ids |-> Nobody]
    /\ lease = [i \in Ids |-> "none"]
    /\ phase = [w \in Workers |-> "idle"]
    /\ batch = [w \in Workers |-> {}]
    /\ current = [w \in Workers |-> NoJob]
    /\ stopping = [w \in Workers |-> FALSE]
    /\ effects = [i \in Ids |-> 0]
    /\ faults = 0

InTable(i) == status[i] \notin {"absent", "deleted"}

\* The unique constraint (organization_id, idempotency_key).
Collides(k) ==
    k # NoKey /\ \E i \in Ids : InTable(i) /\ key[i] = k

\* enqueueJob: a colliding key inserts nothing and answers the existing row.
EnqueueJob(i, k) ==
    /\ status[i] = "absent"
    /\ \E m \in Mixes : {j \in Ids : status[j] # "absent"} \cup {i} \subseteq m
    /\ ~Collides(k)
    /\ status' = [status EXCEPT ![i] = "pending"]
    /\ key' = [key EXCEPT ![i] = k]
    /\ \E d \in BOOLEAN : due' = [due EXCEPT ![i] = d]
    /\ UNCHANGED <<attempts, lockedBy, lease, polls, stopping, effects, faults>>

\* run_at arrives.
RunAtArrives(i) ==
    /\ status[i] = "pending"
    /\ ~due[i]
    /\ due' = [due EXCEPT ![i] = TRUE]
    /\ UNCHANGED <<status, key, attempts, lockedBy, lease, polls, stopping, effects, faults>>

\* Mutant: a sweep that returns rows with a passed lease to "pending".
LeaseSwept(i) ==
    /\ status[i] = "processing"
    /\ lease[i] = "live"
    /\ Overrun \/ \A w \in Workers : i \notin batch[w]
    /\ status' = [status EXCEPT ![i] = "pending"]
    /\ lockedBy' = [lockedBy EXCEPT ![i] = Nobody]
    /\ lease' = [lease EXCEPT ![i] = "none"]
    /\ UNCHANGED <<key, attempts, due, polls, stopping, effects, faults>>

\* lease_expires_at passes.  Unless Overrun, a batch is finished within its lease.
LeaseExpires(i) ==
    /\ status[i] = "processing"
    /\ lease[i] = "live"
    /\ Overrun \/ \A w \in Workers : i \notin batch[w]
    /\ lease' = [lease EXCEPT ![i] = "expired"]
    /\ UNCHANGED <<status, key, attempts, due, lockedBy, polls, stopping, effects, faults>>

\* prune_platform_history removes finished rows past their retention.
Prune(i) ==
    /\ status[i] \in {"completed", "dead"}
    /\ status' = [status EXCEPT ![i] = "deleted"]
    /\ UNCHANGED <<key, attempts, due, lockedBy, lease, polls, stopping, effects, faults>>

-----------------------------------------------------------------------------

\* Mutant: stopRequested is not read.
BeginPollAnyway(w) ==
    /\ phase[w] = "idle"
    /\ phase' = [phase EXCEPT ![w] = "claiming"]
    /\ UNCHANGED <<rows, batch, current, stopping, effects, faults>>

\* A poll begins; stopRequested is read here, before the claim.
BeginPoll(w) ==
    /\ phase[w] = "idle"
    /\ ~stopping[w]
    /\ phase' = [phase EXCEPT ![w] = "claiming"]
    /\ UNCHANGED <<rows, batch, current, stopping, effects, faults>>

\* Mutant: a processing row is a candidate whatever its lease.
ClaimableLeased ==
    {i \in Ids : /\ (status[i] = "pending" /\ due[i]) \/ status[i] = "processing"
                 /\ attempts[i] < ClaimCap}

\* Mutant: no recovery of expired leases.
ClaimablePending ==
    {i \in Ids : status[i] = "pending" /\ due[i] /\ attempts[i] < ClaimCap}

\* The candidates of claimJobs; max_attempts is not looked at.
Claimable ==
    {i \in Ids : /\ \/ status[i] = "pending" /\ due[i]
                    \/ status[i] = "processing" /\ lease[i] = "expired"
                 /\ attempts[i] < ClaimCap}

\* Rows another transaction may hold locked just now; SKIP LOCKED passes over them.
InFlight == {current[w] : w \in Workers}

\* claimJobs: as many candidates as LIMIT allows, in one statement.
ClaimJobs(w, S) ==
    /\ phase[w] = "claiming"
    /\ S \subseteq Claimable
    /\ Cardinality(S) <= BatchSize
    /\ Cardinality(S) = BatchSize \/ Claimable \ S \subseteq InFlight
    /\ status' = [i \in Ids |-> IF i \in S THEN "processing" ELSE status[i]]
    /\ lockedBy' = [i \in Ids |-> IF i \in S THEN w ELSE lockedBy[i]]
    /\ lease' = [i \in Ids |-> IF i \in S THEN "live" ELSE lease[i]]
    /\ attempts' = [i \in Ids |-> IF i \in S THEN attempts[i] + 1 ELSE attempts[i]]
    /\ \/ /\ NoFault
          /\ phase' = [phase EXCEPT ![w] = "batch"]
          /\ batch' = [batch EXCEPT ![w] = S]
       \/ /\ Fault             \* committed, but the answer was lost
          /\ phase' = [phase EXCEPT ![w] = "idle"]
          /\ batch' = batch
    /\ UNCHANGED <<key, due, current, stopping, effects>>

\* processGenericJob up to the handler: an unknown type or a payload that does
\* not validate goes to failJob without running anything.
TakeJob(w, i) ==
    /\ phase[w] = "batch"
    /\ i \in batch[w]
    /\ current' = [current EXCEPT ![w] = i]
    /\ phase' = [phase EXCEPT ![w] = IF Kind[i] \in {"tx", "managed"} THEN "handling" ELSE "failing"]
    /\ UNCHANGED <<rows, batch, stopping, effects, faults>>

\* processOrganization returns.
EndBatch(w) ==
    /\ phase[w] = "batch"
    /\ batch[w] = {}
    /\ phase' = [phase EXCEPT ![w] = "idle"]
    /\ UNCHANGED <<rows, batch, current, stopping, effects, faults>>

-----------------------------------------------------------------------------

\* The row leaves "processing" and its lock is cleared.
Unlock(i, s) ==
    /\ status' = [status EXCEPT ![i] = s]
    /\ lockedBy' = [lockedBy EXCEPT ![i] = Nobody]
    /\ lease' = [lease EXCEPT ![i] = "none"]

\* Mutant: a status the table does not know.
CompleteJobMisspelt(i, w) ==
    /\ IF lockedBy[i] = w THEN Unlock(i, "complete") ELSE UNCHANGED <<status, lockedBy, lease>>
    /\ UNCHANGED <<key, attempts, due>>

\* completeJob does nothing when locked_by is not the caller.
CompleteJob(i, w) ==
    /\ IF lockedBy[i] = w THEN Unlock(i, "completed") ELSE UNCHANGED <<status, lockedBy, lease>>
    /\ UNCHANGED <<key, attempts, due>>

\* Where a failure puts the row.
AfterFailure(i) ==
    IF Kind[i] = "malformed" \/ attempts[i] >= MaxAttempts THEN "dead" ELSE "pending"

\* Mutant: no locked_by in the WHERE.
FailJobOfAnyone(i, w) ==
    /\ Unlock(i, AfterFailure(i))
    /\ due' = [due EXCEPT ![i] = FALSE]
    /\ UNCHANGED <<key, attempts>>

\* failJob, with the same condition.
FailJob(i, w) ==
    /\ IF lockedBy[i] = w
       THEN Unlock(i, AfterFailure(i)) /\ due' = [due EXCEPT ![i] = FALSE]
       ELSE UNCHANGED <<status, lockedBy, lease, due>>
    /\ UNCHANGED <<key, attempts>>

\* The worker is done with the job in hand.
Release(w) ==
    /\ batch' = [batch EXCEPT ![w] = @ \ {current[w]}]
    /\ current' = [current EXCEPT ![w] = NoJob]
    /\ phase' = [phase EXCEPT ![w] = "batch"]

\* An error reaches the catch block with the job still in hand.
Caught(w) ==
    /\ phase' = [phase EXCEPT ![w] = "failing"]
    /\ UNCHANGED <<batch, current>>

\* transactionMode "tenant_transaction": the handler and completeJob commit
\* together.  The result of completeJob is not looked at, so the handler's
\* writes commit even when the row now belongs to another worker.  With a
\* fault the commit went through but the worker sees an error.
CommitWithJob(w) ==
    LET i == current[w] IN
    /\ phase[w] = "handling"
    /\ Kind[i] = "tx"
    /\ CompleteJob(i, w)
    /\ effects' = [effects EXCEPT ![i] = @ + 1]
    /\ (NoFault /\ Release(w)) \/ (Fault /\ Caught(w))
    /\ UNCHANGED stopping

\* transactionMode "managed": the handler commits in transactions of its own ...
CommitManaged(w) ==
    LET i == current[w] IN
    /\ phase[w] = "handling"
    /\ Kind[i] = "managed"
    /\ effects' = [effects EXCEPT ![i] = @ + 1]
    /\ phase' = [phase EXCEPT ![w] = "handled"]
    /\ UNCHANGED <<rows, batch, current, stopping, faults>>

\* ... and the row is completed afterwards, in another one, which may fail.
CompleteManaged(w) ==
    /\ phase[w] = "handled"
    /\ \/ NoFault /\ CompleteJob(current[w], w) /\ Release(w)
       \/ Fault /\ (CompleteJob(current[w], w) \/ UNCHANGED rows) /\ Caught(w)
    /\ UNCHANGED <<stopping, effects>>

\* The handler throws; what it wrote in the tenant transaction is rolled back.
HandlerThrows(w) ==
    /\ phase[w] = "handling"
    /\ Caught(w)
    /\ UNCHANGED <<rows, stopping, effects, faults>>

\* The catch block records the failure ...
RecordFailure(w) ==
    /\ phase[w] = "failing"
    /\ FailJob(current[w], w)
    /\ Release(w)
    /\ UNCHANGED <<stopping, effects, faults>>

\* ... or fails itself, which ends the poll of the organisation: the rest of
\* the batch stays claimed until its lease runs out.
AbandonBatch(w) ==
    /\ Fault
    /\ phase[w] = "failing"
    /\ FailJob(current[w], w) \/ UNCHANGED rows
    /\ batch' = [batch EXCEPT ![w] = {}]
    /\ current' = [current EXCEPT ![w] = NoJob]
    /\ phase' = [phase EXCEPT ![w] = "idle"]
    /\ UNCHANGED <<stopping, effects>>

-----------------------------------------------------------------------------

\* stop(): no new poll; the poll in flight runs to its end first.
RequestStop(w) ==
    /\ w \in MayStop
    /\ Live(w)
    /\ ~stopping[w]
    /\ stopping' = [stopping EXCEPT ![w] = TRUE]
    /\ UNCHANGED <<rows, polls, effects, faults>>

Stop(w) ==
    /\ stopping[w]
    /\ phase[w] = "idle"
    /\ phase' = [phase EXCEPT ![w] = "stopped"]
    /\ UNCHANGED <<rows, batch, current, stopping, effects, faults>>

\* The process is killed; open transactions roll back.
Crash(w) ==
    /\ w \in MayCrash
    /\ Live(w)
    /\ phase' = [phase EXCEPT ![w] = "crashed"]
    /\ batch' = [batch EXCEPT ![w] = {}]
    /\ current' = [current EXCEPT ![w] = NoJob]
    /\ UNCHANGED <<rows, stopping, effects, faults>>

-----------------------------------------------------------------------------

WorkerStep(w) ==
    \/ BeginPoll(w)
    \/ \E S \in SUBSET Ids : ClaimJobs(w, S)
    \/ \E i \in Ids : TakeJob(w, i)
    \/ EndBatch(w)
    \/ CommitWithJob(w)
    \/ CommitManaged(w)
    \/ CompleteManaged(w)
    \/ HandlerThrows(w)
    \/ RecordFailure(w)
    \/ AbandonBatch(w)
    \/ Stop(w)

Next ==
    \/ \E i \in Ids, k \in Keys \cup {NoKey} : EnqueueJob(i, k)
    \/ \E i \in Ids : RunAtArrives(i) \/ LeaseExpires(i) \/ Prune(i)
    \/ \E w \in Workers : WorkerStep(w) \/ RequestStop(w) \/ Crash(w)

Spec == Init /\ [][Next]_vars

\* What the deployment gives: a running worker keeps polling and its handlers
\* return, and the clock advances.
Fairness ==
    /\ \A w \in Workers : WF_vars(WorkerStep(w))
    /\ \A i \in Ids : WF_vars(RunAtArrives(i)) /\ WF_vars(LeaseExpires(i))

FairSpec == Spec /\ Fairness

-----------------------------------------------------------------------------

\* Types of the columns and of a worker's memory (the table's CHECK constraints).
TypeOK ==
    /\ status \in [Ids -> Statuses]
    /\ key \in [Ids -> Keys \cup {NoKey}]
    /\ attempts \in [Ids -> Nat]
    /\ due \in [Ids -> BOOLEAN]
    /\ lockedBy \in [Ids -> Workers \cup {Nobody}]
    /\ lease \in [Ids -> {"none", "live", "expired"}]
    /\ phase \in [Workers -> Phases]
    /\ batch \in [Workers -> SUBSET Ids]
    /\ current \in [Workers -> Ids \cup {NoJob}]
    /\ stopping \in [Workers -> BOOLEAN]
    /\ effects \in [Ids -> Nat]
    /\ faults \in Nat

\* A row carries a lock and a lease exactly while it is processing, so the
\* locked_by test of completeJob and failJob refuses every late answer.
LockedIffProcessing ==
    \A i \in Ids :
        /\ (status[i] = "processing") <=> (lockedBy[i] # Nobody)
        /\ (status[i] = "processing") <=> (lease[i] # "none")

\* No two workers ever have the same job in their batches: what "parallel lanes
\* and parallel replicas never run the same job twice" (worker.js, pollOnce)
\* comes to when leases outlast batches.
SingleRunner ==
    \A v, w \in Workers : v # w => batch[v] \cap batch[w] = {}

\* A tenant_transaction handler commits exactly once for a completed row and not
\* at all for any other, through crashes, lost answers and reclaims, because
\* its writes and completeJob share a transaction.
TxExactlyOnce ==
    \A i \in Ids :
        (Kind[i] = "tx" /\ status[i] # "deleted") =>
            effects[i] = IF status[i] = "completed" THEN 1 ELSE 0

\* A completed row had its handler commit, whoever ran it and whoever lost it.
CompletedMeansRun ==
    \A i \in Ids : status[i] = "completed" => effects[i] > 0

\* A finished row stays finished: a worker that lost its lease cannot reopen,
\* bury or complete what another has settled.
FinishedIsFinal ==
    [][\A i \in Ids :
          status[i] \in {"completed", "dead"} => status'[i] \in {status[i], "deleted"}]_vars

\* A row leaves "processing" only in the hand of the worker its lock names.
OnlyHolderSettles ==
    [][\A i \in Ids :
          (status[i] = "processing" /\ status'[i] # "processing") =>
              \E w \in Workers : current[w] = i /\ lockedBy[i] = w]_vars

\* Every accepted job is settled, through the crash of any worker that may crash.
EverySettled ==
    \A i \in Ids : status[i] = "pending" ~> status[i] \in {"completed", "dead", "deleted"}

\* A worker asked to stop does come to rest.
StopCompletes ==
    \A w \in Workers : stopping[w] ~> ~Live(w)

-----------------------------------------------------------------------------

\* A row as the code that enqueued it sees it.
Seen(i) ==
    CASE status[i] = "absent"                      -> "none"
      [] status[i] \in {"pending", "processing"}   -> "open"
      [] status[i] = "completed"                   -> "done"
      [] status[i] = "dead"                        -> "dead"
      [] status[i] = "deleted"                     -> "gone"

Contract == INSTANCE DeliveryContract WITH
    Atomic     <- {i \in Ids : Kind[i] # "managed"},
    Reopenable <- {},
    Losable    <- {},
    state      <- [i \in Ids |-> Seen(i)],
    delivered  <- effects

\* With leases that outlast their batches the queue keeps its contract: no
\* effect before acceptance or after the end, none counted twice in "tx" mode.
KeepsContract == Contract!Spec
=============================================================================

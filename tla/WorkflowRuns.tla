---------------------------- MODULE WorkflowRuns ----------------------------
(***************************************************************************)
(* The workflow engine of one organisation: runs fanned out from domain    *)
(* events and from dates, and the workers that execute them                *)
(* (core/platform/workflows/service.js, services/worker/src/webhooks.js,   *)
(* modules/crm/automation/actions.js).                                     *)
(*                                                                         *)
(* A run is the triple <<workflow, version, cause>> its idempotency key    *)
(* spells.  A worker executes a run in one transaction, which is open      *)
(* while it is in phase "running" or "mailed": what the run did outside    *)
(* the database in between stays done when the transaction does not        *)
(* commit.  Conditions, templates and the single actions are abstracted to *)
(* what a run may do: change records, publish an event, send a message.    *)
(***************************************************************************)
EXTENDS Naturals, FiniteSets

CONSTANTS
    Workflows,
    VersionCap,   \* bound of the model: versions of a workflow
    Events,       \* domain events of registered types
    Dates,        \* a record whose date comes, on its day
    Mails,        \* the workflows with a crm.send_email or crm.send_whatsapp action
    Workers,      \* worker process incarnations
    None,         \* the worker has no run in hand
    BatchSize,    \* WORKFLOW_LIMITS.runsPerTick
    MayCrash,     \* the workers that may be killed
    Overrun,      \* may the five minutes run out while the worker is still at the batch?
    FaultCap,     \* bound of the model: statements that fail, before or after they committed
    ClaimCap,     \* bound of the model: claims of a run
    SwitchCap     \* bound of the model: activations and deactivations

Causes == Events \cup Dates
Versions == 1..VersionCap
Runs == Workflows \X Versions \X Causes

ASSUME ConstantsOK ==
    /\ VersionCap \in Nat \ {0}
    /\ Events \cap Dates = {}
    /\ Mails \subseteq Workflows
    /\ None \notin Runs
    /\ BatchSize \in Nat \ {0}
    /\ MayCrash \subseteq Workers
    /\ Overrun \in BOOLEAN
    /\ FaultCap \in Nat
    /\ ClaimCap \in Nat
    /\ SwitchCap \in Nat

VARIABLES
    version,    \* version[f]: the current version of workflow f
    active,     \* active[f]
    switches,   \* how often active was changed
    origin,     \* origin[e]: who caused the committed event e
    fanned,     \* fanned[c]: the event is dispatched, the day's job is done
    status,     \* status[r]: the row of workflow_runs ...
    attempts,   \* ... attempt_count
    lease,      \* ... started_at against now() - five minutes
    phase,      \* phase[w]
    batch,      \* batch[w]: runs claimed by w and not yet finished by it
    current,    \* current[w]: the run w is executing
    faults,     \* statements that failed so far
    applied,    \* history: how often the run's transaction committed
    sent        \* history: how often the run sent its message

definitions == <<version, active, switches>>
rows == <<status, attempts, lease>>
turns == <<phase, batch, current>>
vars == <<definitions, origin, fanned, rows, turns, faults, applied, sent>>

Statuses == {"none", "pending", "running", "succeeded", "failed", "gone"}
Phases == {"idle", "batch", "running", "mailed", "failing", "crashed"}

\* A statement succeeds, or it fails as far as its caller can tell.
NoFault == UNCHANGED faults
Fault == faults < FaultCap /\ faults' = faults + 1

Live(w) == phase[w] # "crashed"

Init ==
    /\ version = [f \in Workflows |-> 1]
    /\ active = [f \in Workflows |-> TRUE]
    /\ switches = 0
    /\ origin = [e \in Events |-> "none"]
    /\ fanned = [c \in Causes |-> FALSE]
    /\ status = [r \in Runs |-> "none"]
    /\ attempts = [r \in Runs |-> 0]
    /\ lease = [r \in Runs |-> "none"]
    /\ phase = [w \in Workers |-> "idle"]
    /\ batch = [w \in Workers |-> {}]
    /\ current = [w \in Workers |-> None]
    /\ faults = 0
    /\ applied = [r \in Runs |-> 0]
    /\ sent = [r \in Runs |-> 0]

-----------------------------------------------------------------------------
(* Definitions and triggers. *)

\* updateWorkflow saves a new version; runs keep the one they were queued with.
UpdateWorkflow(f) ==
    /\ version[f] < VersionCap
    /\ version' = [version EXCEPT ![f] = @ + 1]
    /\ UNCHANGED <<active, switches, origin, fanned, rows, turns, faults, applied, sent>>

SetWorkflowStatus(f) ==
    /\ switches < SwitchCap
    /\ active' = [active EXCEPT ![f] = ~@]
    /\ switches' = switches + 1
    /\ UNCHANGED <<version, origin, fanned, rows, turns, faults, applied, sent>>

\* A user's change commits with its event.
UserEvent(e) ==
    /\ origin[e] = "none"
    /\ origin' = [origin EXCEPT ![e] = "user"]
    /\ UNCHANGED <<definitions, fanned, rows, turns, faults, applied, sent>>

\* The runs a cause gets: one per active workflow, of its current version,
\* unless the key exists.  (The platform.workflows flag off is all of them inactive.)
Queued(c) ==
    {r \in Runs : /\ r[3] = c
                  /\ active[r[1]]
                  /\ r[2] = version[r[1]]
                  /\ status[r] = "none"}

Queue(c) == status' = [r \in Runs |-> IF r \in Queued(c) THEN "pending" ELSE status[r]]

\* Mutant: events an automation caused are triggers too.
FanOutAny(e) ==
    /\ origin[e] # "none"
    /\ ~fanned[e]
    /\ Queue(e)
    /\ fanned' = [fanned EXCEPT ![e] = TRUE]
    /\ UNCHANGED <<definitions, origin, attempts, lease, turns, faults, applied, sent>>

\* Mutant: the fan-out may commit without the event's new dispatch_status.
FanOutUnmarked(e) ==
    /\ origin[e] # "none"
    /\ ~fanned[e]
    /\ IF origin[e] = "workflow" THEN UNCHANGED status ELSE Queue(e)
    /\ \E b \in BOOLEAN : fanned' = [fanned EXCEPT ![e] = b]
    /\ UNCHANGED <<definitions, origin, attempts, lease, turns, faults, applied, sent>>

\* fanOutWorkflowRuns, in the transaction that marks the event dispatched.
FanOutWorkflowRuns(e) ==
    /\ origin[e] # "none"
    /\ ~fanned[e]
    /\ IF origin[e] = "workflow" THEN UNCHANGED status ELSE Queue(e)
    /\ fanned' = [fanned EXCEPT ![e] = TRUE]
    /\ UNCHANGED <<definitions, origin, attempts, lease, turns, faults, applied, sent>>

\* queueTimeTriggeredRuns, run by the day's job.  Its transaction commits with
\* the job; once the job's lease can run out under its worker, it may come again.
QueueTimeTriggeredRuns(c) ==
    /\ Overrun \/ ~fanned[c]
    /\ Queue(c)
    /\ fanned' = [fanned EXCEPT ![c] = TRUE]
    /\ UNCHANGED <<definitions, origin, attempts, lease, turns, faults, applied, sent>>

-----------------------------------------------------------------------------

\* started_at falls five minutes behind.  Unless Overrun, a batch is done by then.
LeaseExpires(r) ==
    /\ status[r] = "running"
    /\ lease[r] = "live"
    /\ Overrun \/ \A w \in Workers : r \notin batch[w]
    /\ lease' = [lease EXCEPT ![r] = "expired"]
    /\ UNCHANGED <<definitions, origin, fanned, status, attempts, turns, faults, applied, sent>>

\* prune_platform_history, past the retention.
Prune(r) ==
    /\ status[r] \in {"succeeded", "failed"}
    /\ status' = [status EXCEPT ![r] = "gone"]
    /\ UNCHANGED <<definitions, origin, fanned, attempts, lease, turns, faults, applied, sent>>

-----------------------------------------------------------------------------
(* One turn of a worker (processOrganizationWorkflows). *)

To(w, ph) == phase' = [phase EXCEPT ![w] = ph]

\* Mutant: an abandoned run is not taken up again.
ClaimablePending ==
    {r \in Runs : status[r] = "pending" /\ attempts[r] < ClaimCap}

\* Mutant: a failed run is tried again.
ClaimableFailed ==
    {r \in Runs : /\ \/ status[r] \in {"pending", "failed"}
                     \/ status[r] = "running" /\ lease[r] = "expired"
                  /\ attempts[r] < ClaimCap}

\* The candidates of claimWorkflowRuns; neither an owner nor a limit of attempts.
Claimable ==
    {r \in Runs : /\ \/ status[r] = "pending"
                     \/ status[r] = "running" /\ lease[r] = "expired"
                  /\ attempts[r] < ClaimCap}

\* Rows another transaction may hold locked just now.
InFlight == {current[w] : w \in Workers}

ClaimWorkflowRuns(w, S) ==
    /\ phase[w] = "idle"
    /\ S \subseteq Claimable
    /\ Cardinality(S) <= BatchSize
    /\ Cardinality(S) = BatchSize \/ Claimable \ S \subseteq InFlight
    /\ status' = [r \in Runs |-> IF r \in S THEN "running" ELSE status[r]]
    /\ lease' = [r \in Runs |-> IF r \in S THEN "live" ELSE lease[r]]
    /\ attempts' = [r \in Runs |-> IF r \in S THEN attempts[r] + 1 ELSE attempts[r]]
    /\ \/ NoFault /\ To(w, "batch") /\ batch' = [batch EXCEPT ![w] = S]
       \/ Fault /\ UNCHANGED <<phase, batch>>       \* committed, but the answer was lost
    /\ UNCHANGED <<definitions, origin, fanned, current, applied, sent>>

\* executeWorkflowRun begins, in a transaction of its own.
ExecuteWorkflowRun(w, r) ==
    /\ phase[w] = "batch"
    /\ r \in batch[w]
    /\ current' = [current EXCEPT ![w] = r]
    /\ To(w, "running")
    /\ UNCHANGED <<definitions, origin, fanned, rows, batch, faults, applied, sent>>

\* A crm.send_email or crm.send_whatsapp action: the message leaves while the
\* transaction is open.
SendMessage(w) ==
    /\ phase[w] = "running"
    /\ current[w][1] \in Mails
    /\ sent' = [sent EXCEPT ![current[w]] = @ + 1]
    /\ To(w, "mailed")
    /\ UNCHANGED <<definitions, origin, fanned, rows, batch, current, faults, applied>>

\* Mutant: a status the column's check does not know.
FinishMisspelt(r, s) ==
    /\ status' = [status EXCEPT ![r] = IF s = "failed" THEN "dead" ELSE s]
    /\ UNCHANGED <<attempts, lease>>

\* UPDATE ... WHERE id: no status and no owner is asked for.
Finish(r, s) ==
    /\ status' = [status EXCEPT ![r] = IF @ = "gone" THEN @ ELSE s]
    /\ UNCHANGED <<attempts, lease>>

\* The worker goes on to the next run of its batch.
Release(w) ==
    /\ batch' = [batch EXCEPT ![w] = @ \ {current[w]}]
    /\ current' = [current EXCEPT ![w] = None]
    /\ To(w, "batch")

\* The actions commit with the status (none of them when the conditions do not
\* hold); a module action publishes its events with origin "workflow".
CommitRun(w) ==
    LET r == current[w] IN
    /\ phase[w] \in {"running", "mailed"}
    /\ Finish(r, "succeeded")
    /\ applied' = [applied EXCEPT ![r] = @ + 1]
    /\ \/ UNCHANGED origin
       \/ \E e \in Events : origin[e] = "none" /\ origin' = [origin EXCEPT ![e] = "workflow"]
    /\ \/ NoFault /\ Release(w)
       \/ Fault /\ To(w, "failing") /\ UNCHANGED <<batch, current>>
    /\ UNCHANGED <<definitions, fanned, sent>>

\* Something throws, and the transaction rolls back.
RunThrows(w) ==
    /\ phase[w] \in {"running", "mailed"}
    /\ To(w, "failing")
    /\ UNCHANGED <<definitions, origin, fanned, rows, batch, current, faults, applied, sent>>

\* failWorkflowRun; an error here is swallowed, and the run waits for its lease.
FailWorkflowRun(w) ==
    /\ phase[w] = "failing"
    /\ (NoFault /\ Finish(current[w], "failed")) \/ (Fault /\ UNCHANGED rows)
    /\ Release(w)
    /\ UNCHANGED <<definitions, origin, fanned, applied, sent>>

EndTurn(w) ==
    /\ phase[w] = "batch"
    /\ batch[w] = {}
    /\ To(w, "idle")
    /\ UNCHANGED <<definitions, origin, fanned, rows, batch, current, faults, applied, sent>>

\* The process is killed; the open transaction rolls back.
Crash(w) ==
    /\ w \in MayCrash
    /\ Live(w)
    /\ To(w, "crashed")
    /\ batch' = [batch EXCEPT ![w] = {}]
    /\ current' = [current EXCEPT ![w] = None]
    /\ UNCHANGED <<definitions, origin, fanned, rows, faults, applied, sent>>

-----------------------------------------------------------------------------

WorkerStep(w) ==
    \/ \E S \in SUBSET Claimable : ClaimWorkflowRuns(w, S)
    \/ \E r \in Runs : ExecuteWorkflowRun(w, r)
    \/ SendMessage(w)
    \/ CommitRun(w)
    \/ RunThrows(w)
    \/ FailWorkflowRun(w)
    \/ EndTurn(w)

Next ==
    \/ \E f \in Workflows : UpdateWorkflow(f) \/ SetWorkflowStatus(f)
    \/ \E e \in Events : UserEvent(e) \/ FanOutWorkflowRuns(e)
    \/ \E c \in Dates : QueueTimeTriggeredRuns(c)
    \/ \E r \in Runs : LeaseExpires(r) \/ Prune(r)
    \/ \E w \in Workers : WorkerStep(w) \/ Crash(w)

Spec == Init /\ [][Next]_vars

\* A running worker keeps polling, its executions return, and the clock advances.
Fairness ==
    /\ \A w \in Workers : WF_vars(WorkerStep(w))
    /\ \A r \in Runs : WF_vars(LeaseExpires(r))

FairSpec == Spec /\ Fairness

-----------------------------------------------------------------------------

\* Types of the columns and of a worker's memory.
TypeOK ==
    /\ version \in [Workflows -> Versions]
    /\ active \in [Workflows -> BOOLEAN]
    /\ switches \in Nat
    /\ origin \in [Events -> {"none", "user", "workflow"}]
    /\ fanned \in [Causes -> BOOLEAN]
    /\ status \in [Runs -> Statuses]
    /\ attempts \in [Runs -> Nat]
    /\ lease \in [Runs -> {"none", "live", "expired"}]
    /\ phase \in [Workers -> Phases]
    /\ batch \in [Workers -> SUBSET Runs]
    /\ current \in [Workers -> Runs \cup {None}]
    /\ faults \in Nat
    /\ applied \in [Runs -> Nat]
    /\ sent \in [Runs -> Nat]

\* What an automation changed never starts another automation: "events that carry
\* origin 'workflow' are ignored as triggers" (header of workflows/service.js).
NoChainReaction ==
    \A r \in Runs :
        (status[r] # "none" /\ r[3] \in Events) => origin[r[3]] = "user"

\* One event gets one run per workflow, even when a new version is saved while
\* the fan-out is repeated.
OneRunPerEvent ==
    \A q, r \in Runs :
        (q # r /\ q[1] = r[1] /\ q[3] = r[3] /\ q[3] \in Events) =>
            status[q] = "none" \/ status[r] = "none"

\* "No external I/O ... all actions commit together or not at all (a failed run is
\* recorded, never half-applied)": a run shown as failed sent nothing.
FailedSentNothing ==
    \A r \in Runs : status[r] = "failed" => sent[r] = 0

\* Every queued run finishes, through the crash of a worker and whatever happens
\* to its workflow meanwhile.
EveryRunFinishes ==
    \A r \in Runs : status[r] = "pending" ~> status[r] \in {"succeeded", "failed", "gone"}

-----------------------------------------------------------------------------

Seen(r) ==
    CASE status[r] = "none"                    -> "none"
      [] status[r] = "gone"                    -> "gone"
      [] status[r] \in {"pending", "running"}  -> "open"
      [] status[r] \in {"succeeded", "failed"} -> IF applied[r] > 0 THEN "done" ELSE "dead"

Contract == INSTANCE DeliveryContract WITH
    Ids        <- Runs,
    Atomic     <- Runs,
    Reopenable <- {},
    Losable    <- {},
    state      <- [r \in Runs |-> Seen(r)],
    delivered  <- applied

\* While the five minutes outlast a batch, runs keep the contract of a durable queue
\* whose items take effect as they are done: the contract goes by what was committed,
\* whatever the row says of it after a lost answer.
KeepsContract == Contract!Spec
=============================================================================

--------------------------- MODULE WebhookOutbox ---------------------------
(***************************************************************************)
(* The transactional outbox of domain events of one organisation and the   *)
(* webhook deliveries fanned out from it                                   *)
(* (core/platform/events/service.js, integrations/webhooks/service.js,     *)
(* services/worker/src/webhooks.js).                                       *)
(*                                                                         *)
(* A delivery row is the pair <<event, subscription>> its unique constraint*)
(* makes it.  Each SQL transaction is one action, except the dispatch      *)
(* transaction, whose row locks other workers see, and the prune statement,*)
(* whose snapshot others can outrun.  Every event type is one every        *)
(* subscription asks for; audit rows, failure counters and secrets are     *)
(* left out.                                                               *)
(***************************************************************************)
EXTENDS Naturals, FiniteSets

CONSTANTS
    Events,       \* event ids
    Subs,         \* subscription ids
    Registered,   \* the events whose type the registry knows
    Called,       \* the subscriptions a crm.call_webhook action names
    Workers,      \* worker process incarnations
    Nobody,       \* locked_by IS NULL
    None,         \* the worker has no delivery in hand
    MaxAttempts,  \* max_delivery_attempts
    BatchSize,    \* WORKER_BATCH_SIZE
    DispatchLimit,\* events fanned out per transaction
    MayCrash,     \* the workers that may be killed
    Overrun,      \* may a lease run out while its holder still works on the batch?
    FaultCap,     \* bound of the model: statements that fail, before or after they committed
    ClaimCap,     \* bound of the model: claims of a delivery between redeliveries
    RedeliverCap, \* bound of the model: redeliveries of a delivery
    SwitchCap     \* bound of the model: changes of subscriptions and of the kill switch

Pairs == Events \X Subs

ASSUME ConstantsOK ==
    /\ Registered \subseteq Events
    /\ Called \subseteq Subs
    /\ Nobody \notin Workers
    /\ None \notin Pairs
    /\ MaxAttempts \in Nat \ {0}
    /\ BatchSize \in Nat \ {0}
    /\ DispatchLimit \in Nat \ {0}
    /\ MayCrash \subseteq Workers
    /\ Overrun \in BOOLEAN
    /\ FaultCap \in Nat
    /\ ClaimCap \in Nat
    /\ RedeliverCap \in Nat
    /\ SwitchCap \in Nat

VARIABLES
    event,       \* event[e]: the row of platform_events
    older,       \* older[e]: the subscriptions with created_at <= occurred_at
    pruning,     \* events the prune statement running now has selected
    sub,         \* sub[s]: the row of webhook_subscriptions
    paused,      \* the operator.webhooks / delivery_paused flag
    switches,    \* how often sub and paused were changed
    status,      \* status[p]: the row of webhook_deliveries ...
    attempts,    \* ... attempt_count
    due,         \* ... next_attempt_at <= now()
    lockedBy,    \* ... locked_by
    lease,       \* ... locked_at against now() - lease
    redeliveries,\* ... redelivery_count
    phase,       \* phase[w]: where worker w's turn at the organisation stands
    taking,      \* taking[w]: events w's dispatch transaction has locked
    batch,       \* batch[w]: deliveries claimed by w and not yet settled by it
    current,     \* current[w]: the delivery w has in hand
    faults,      \* statements that failed so far
    called,      \* history: the pairs an automation asked for
    received     \* history: POSTs of the pair its endpoint answered with success

outbox == <<event, older, pruning>>
history == <<faults, called, received>>
settings == <<sub, paused, switches>>
rows == <<status, attempts, due, lockedBy, lease, redeliveries>>
turns == <<phase, taking, batch, current>>
vars == <<outbox, settings, rows, turns, history>>

EventStatuses == {"none", "writing", "rolledback", "pending", "dispatched", "pruned"}
DeliveryStatuses == {"none", "pending", "processing", "retry", "delivered", "dead", "gone"}
Phases == {"idle", "dispatching", "checking", "claiming", "batch", "posting",
           "accepted", "refused", "rejected", "crashed"}

\* A statement succeeds, or it fails as far as its caller can tell.
NoFault == UNCHANGED faults
Fault == faults < FaultCap /\ faults' = faults + 1

Live(w) == phase[w] # "crashed"
Owed(p) == status[p] \in {"pending", "processing", "retry"}

Init ==
    /\ event = [e \in Events |-> "none"]
    /\ older = [e \in Events |-> {}]
    /\ pruning = {}
    /\ sub = [s \in Subs |-> "none"]
    /\ paused = FALSE
    /\ switches = 0
    /\ status = [p \in Pairs |-> "none"]
    /\ attempts = [p \in Pairs |-> 0]
    /\ due = [p \in Pairs |-> FALSE]
    /\ lockedBy = [p \in Pairs |-> Nobody]
    /\ lease = [p \in Pairs |-> "none"]
    /\ redeliveries = [p \in Pairs |-> 0]
    /\ phase = [w \in Workers |-> "idle"]
    /\ taking = [w \in Workers |-> {}]
    /\ batch = [w \in Workers |-> {}]
    /\ current = [w \in Workers |-> None]
    /\ faults = 0
    /\ called = {}
    /\ received = [p \in Pairs |-> 0]

-----------------------------------------------------------------------------
(* Business transactions, subscriptions and the kill switch. *)

\* A business transaction begins; occurred_at is its now().
BeginChange(e) ==
    /\ event[e] = "none"
    /\ event' = [event EXCEPT ![e] = "writing"]
    /\ older' = [older EXCEPT ![e] = {s \in Subs : sub[s] # "none"}]
    /\ UNCHANGED <<pruning, settings, rows, turns, history>>

\* publishDomainEvent wrote the event in that transaction; it commits with the
\* change or not at all.
EndChange(e) ==
    /\ event[e] = "writing"
    /\ \E s \in {"pending", "rolledback"} : event' = [event EXCEPT ![e] = s]
    /\ UNCHANGED <<older, pruning, settings, rows, turns, history>>

CreateWebhookSubscription(s) ==
    /\ sub[s] = "none"
    /\ sub' = [sub EXCEPT ![s] = "active"]
    /\ UNCHANGED <<outbox, paused, switches, rows, turns, history>>

\* updateWebhookSubscription, as far as the status goes.
UpdateWebhookSubscription(s) ==
    /\ sub[s] # "none"
    /\ switches < SwitchCap
    /\ sub' = [sub EXCEPT ![s] = IF @ = "active" THEN "disabled" ELSE "active"]
    /\ switches' = switches + 1
    /\ UNCHANGED <<outbox, paused, rows, turns, history>>

SetDeliveryPaused ==
    /\ switches < SwitchCap
    /\ paused' = ~paused
    /\ switches' = switches + 1
    /\ UNCHANGED <<outbox, sub, rows, turns, history>>

\* Mutant: a delivered row may be sent again too.
RedeliverAny(p) ==
    /\ status[p] \in {"retry", "dead", "delivered"}
    /\ redeliveries[p] < RedeliverCap
    /\ status' = [status EXCEPT ![p] = "pending"]
    /\ attempts' = [attempts EXCEPT ![p] = 0]
    /\ due' = [due EXCEPT ![p] = TRUE]
    /\ redeliveries' = [redeliveries EXCEPT ![p] = @ + 1]
    /\ UNCHANGED <<outbox, settings, lockedBy, lease, turns, history>>

\* redeliverWebhookDelivery: an operator has one failed delivery sent again.
RedeliverWebhookDelivery(p) ==
    /\ status[p] \in {"retry", "dead"}
    /\ redeliveries[p] < RedeliverCap
    /\ status' = [status EXCEPT ![p] = "pending"]
    /\ attempts' = [attempts EXCEPT ![p] = 0]
    /\ due' = [due EXCEPT ![p] = TRUE]
    /\ redeliveries' = [redeliveries EXCEPT ![p] = @ + 1]
    /\ UNCHANGED <<outbox, settings, lockedBy, lease, turns, history>>

-----------------------------------------------------------------------------
(* Time and retention. *)

\* next_attempt_at arrives.
NextAttemptArrives(p) ==
    /\ status[p] = "retry"
    /\ ~due[p]
    /\ due' = [due EXCEPT ![p] = TRUE]
    /\ UNCHANGED <<outbox, settings, status, attempts, lockedBy, lease, redeliveries, turns, history>>

\* locked_at falls behind the lease.  Unless Overrun, a batch is finished within it.
LeaseExpires(p) ==
    /\ status[p] = "processing"
    /\ lease[p] = "live"
    /\ Overrun \/ \A w \in Workers : p \notin batch[w]
    /\ lease' = [lease EXCEPT ![p] = "expired"]
    /\ UNCHANGED <<outbox, settings, status, attempts, due, lockedBy, redeliveries, turns, history>>

\* Mutant: the deliveries of the event are not asked about.
PruneAnySelect(e) ==
    /\ event[e] = "dispatched"
    /\ e \notin pruning
    /\ pruning' = pruning \cup {e}
    /\ UNCHANGED <<event, older, settings, rows, turns, history>>

\* prune_platform_history: the snapshot of the DELETE, past the retention ...
PruneSelect(e) ==
    /\ event[e] = "dispatched"
    /\ e \notin pruning
    /\ \A s \in Subs : ~Owed(<<e, s>>)
    /\ pruning' = pruning \cup {e}
    /\ UNCHANGED <<event, older, settings, rows, turns, history>>

\* ... and the delete itself, which takes the event's deliveries with it.
PruneDelete(e) ==
    /\ e \in pruning
    /\ pruning' = pruning \ {e}
    /\ event' = [event EXCEPT ![e] = "pruned"]
    /\ status' = [p \in Pairs |-> IF p[1] = e /\ status[p] # "none" THEN "gone" ELSE status[p]]
    /\ UNCHANGED <<older, settings, attempts, due, lockedBy, lease, redeliveries, turns, history>>

-----------------------------------------------------------------------------
(* One turn of a worker: dispatch, read the kill switch, claim, deliver. *)

To(w, ph) == phase' = [phase EXCEPT ![w] = ph]

\* Mutant: an event is lost sight of when a worker that had locked it crashed.
BeginDispatchLocksCount(w, E) ==
    /\ phase[w] = "idle"
    /\ LET free == {e \in Events : event[e] = "pending" /\ \A v \in Workers : Live(v) /\ e \notin taking[v]} IN
       /\ E \subseteq free
       /\ Cardinality(E) <= DispatchLimit
       /\ E = free \/ Cardinality(E) = DispatchLimit
    /\ taking' = [taking EXCEPT ![w] = E]
    /\ To(w, "dispatching")
    /\ UNCHANGED <<outbox, settings, rows, batch, current, history>>

\* dispatchPendingEvents selects and locks; SKIP LOCKED passes over the events
\* another worker's transaction holds.
BeginDispatch(w, E) ==
    /\ phase[w] = "idle"
    /\ LET free == {e \in Events : event[e] = "pending" /\ \A v \in Workers : e \notin taking[v]} IN
       /\ E \subseteq free
       /\ Cardinality(E) <= DispatchLimit
       /\ E = free \/ Cardinality(E) = DispatchLimit
    /\ taking' = [taking EXCEPT ![w] = E]
    /\ To(w, "dispatching")
    /\ UNCHANGED <<outbox, settings, rows, batch, current, history>>

\* Mutant: subscriptions of any age.
FanOutToAll(E) ==
    {p \in Pairs : p[1] \in E \cap Registered /\ sub[p[2]] = "active" /\ status[p] = "none"}

\* fanOutWebhookDeliveries: the rows the events get.
FanOut(E) ==
    {p \in Pairs : /\ p[1] \in E \cap Registered
                   /\ sub[p[2]] = "active"
                   /\ p[2] \in older[p[1]]
                   /\ status[p] = "none"}

\* The fan-out and the new dispatch_status commit together ...
CommitDispatch(w) ==
    /\ phase[w] = "dispatching"
    /\ event' = [e \in Events |-> IF e \in taking[w] THEN "dispatched" ELSE event[e]]
    /\ LET new == FanOut(taking[w]) IN
       /\ status' = [p \in Pairs |-> IF p \in new THEN "pending" ELSE status[p]]
       /\ due' = [p \in Pairs |-> IF p \in new THEN TRUE ELSE due[p]]
    /\ taking' = [taking EXCEPT ![w] = {}]
    /\ \/ NoFault /\ To(w, "checking")
       \/ Fault /\ To(w, "idle")        \* committed, but the answer was lost
    /\ UNCHANGED <<older, pruning, settings, attempts, lockedBy, lease, redeliveries, batch, current, called, received>>

\* ... or roll back, which ends the turn.
DispatchFails(w) ==
    /\ phase[w] = "dispatching"
    /\ Fault
    /\ taking' = [taking EXCEPT ![w] = {}]
    /\ To(w, "idle")
    /\ UNCHANGED <<outbox, settings, rows, batch, current, called, received>>

\* A workflow run executes a crm.call_webhook action for the event that started
\* it: a row as the fan-out makes it, but the age of the subscription is not asked.
CallWebhook(p) ==
    /\ event[p[1]] = "dispatched"
    /\ p[1] \in Registered
    /\ p[2] \in Called
    /\ sub[p[2]] = "active"
    /\ status[p] = "none"
    /\ status' = [status EXCEPT ![p] = "pending"]
    /\ due' = [due EXCEPT ![p] = TRUE]
    /\ called' = called \cup {p}
    /\ UNCHANGED <<outbox, settings, attempts, lockedBy, lease, redeliveries, turns, faults, received>>

ReadKillSwitch(w) ==
    /\ phase[w] = "checking"
    /\ To(w, IF paused THEN "idle" ELSE "claiming")
    /\ UNCHANGED <<outbox, settings, rows, taking, batch, current, history>>

\* Mutant: an abandoned delivery is not taken up again.
ClaimableUnlocked ==
    {p \in Pairs : /\ sub[p[2]] = "active"
                   /\ status[p] \in {"pending", "retry"} /\ due[p]
                   /\ attempts[p] < ClaimCap}

\* The candidates of claimWebhookDeliveries.
Claimable ==
    {p \in Pairs : /\ sub[p[2]] = "active"
                   /\ \/ status[p] \in {"pending", "retry"} /\ due[p]
                      \/ status[p] = "processing" /\ lease[p] = "expired"
                   /\ attempts[p] < ClaimCap}

\* Rows another transaction may hold locked just now.
InFlight == {current[w] : w \in Workers}

ClaimWebhookDeliveries(w, S) ==
    /\ phase[w] = "claiming"
    /\ S \subseteq Claimable
    /\ Cardinality(S) <= BatchSize
    /\ Cardinality(S) = BatchSize \/ Claimable \ S \subseteq InFlight
    /\ status' = [p \in Pairs |-> IF p \in S THEN "processing" ELSE status[p]]
    /\ lockedBy' = [p \in Pairs |-> IF p \in S THEN w ELSE lockedBy[p]]
    /\ lease' = [p \in Pairs |-> IF p \in S THEN "live" ELSE lease[p]]
    /\ attempts' = [p \in Pairs |-> IF p \in S THEN attempts[p] + 1 ELSE attempts[p]]
    /\ \/ NoFault /\ To(w, "batch") /\ batch' = [batch EXCEPT ![w] = S]
       \/ Fault /\ To(w, "idle") /\ UNCHANGED batch
    /\ UNCHANGED <<outbox, settings, due, redeliveries, taking, current, called, received>>

\* processWebhookDelivery takes the next delivery; a request that cannot be
\* built (type no longer registered, secret not readable) is rejected unsent.
TakeDelivery(w, p) ==
    /\ phase[w] = "batch"
    /\ p \in batch[w]
    /\ current' = [current EXCEPT ![w] = p]
    /\ To(w, "posting") \/ To(w, "rejected")
    /\ UNCHANGED <<outbox, settings, rows, taking, batch, history>>

\* The POST, outside any transaction: the endpoint takes it and says so, or
\* takes it and the answer is lost, or refuses it for now, or for good.
Post(w) ==
    /\ phase[w] = "posting"
    /\ \/ /\ received' = [received EXCEPT ![current[w]] = @ + 1]
          /\ To(w, "accepted") \/ To(w, "refused")
       \/ /\ UNCHANGED received
          /\ To(w, "refused") \/ To(w, "rejected")
    /\ UNCHANGED <<outbox, settings, rows, taking, batch, current, faults, called>>

Unlock(p, s) ==
    /\ status' = [status EXCEPT ![p] = s]
    /\ lockedBy' = [lockedBy EXCEPT ![p] = Nobody]
    /\ lease' = [lease EXCEPT ![p] = "none"]

\* Still the holder, and the row still there.
Holds(p, w) == status[p] # "gone" /\ lockedBy[p] = w

\* Mutant: a status the table does not know.
CompleteMisspelt(p, w) ==
    /\ IF Holds(p, w) THEN Unlock(p, "sent") ELSE UNCHANGED <<status, lockedBy, lease>>
    /\ UNCHANGED <<attempts, due, redeliveries>>

\* completeWebhookDelivery does nothing when locked_by is not the caller.
CompleteWebhookDelivery(p, w) ==
    /\ IF Holds(p, w) THEN Unlock(p, "delivered") ELSE UNCHANGED <<status, lockedBy, lease>>
    /\ UNCHANGED <<attempts, due, redeliveries>>

\* failWebhookDelivery, with the same condition.
FailWebhookDelivery(p, w, retryable) ==
    /\ IF Holds(p, w)
       THEN /\ Unlock(p, IF ~retryable \/ attempts[p] >= MaxAttempts THEN "dead" ELSE "retry")
            /\ due' = [due EXCEPT ![p] = FALSE]
       ELSE UNCHANGED <<status, lockedBy, lease, due>>
    /\ UNCHANGED <<attempts, redeliveries>>

\* What the outcome of the POST does to the row.
Settle(p, w) ==
    \/ phase[w] = "accepted" /\ CompleteWebhookDelivery(p, w)
    \/ phase[w] = "refused" /\ FailWebhookDelivery(p, w, TRUE)
    \/ phase[w] = "rejected" /\ FailWebhookDelivery(p, w, FALSE)

\* The outcome is recorded, or recording it fails: then the loop goes on and the
\* row waits for its lease to expire.
RecordOutcome(w) ==
    LET p == current[w] IN
    /\ phase[w] \in {"accepted", "refused", "rejected"}
    /\ (NoFault /\ Settle(p, w)) \/ (Fault /\ UNCHANGED rows)
    /\ batch' = [batch EXCEPT ![w] = @ \ {p}]
    /\ current' = [current EXCEPT ![w] = None]
    /\ To(w, "batch")
    /\ UNCHANGED <<outbox, settings, taking, called, received>>

EndTurn(w) ==
    /\ phase[w] = "batch"
    /\ batch[w] = {}
    /\ To(w, "idle")
    /\ UNCHANGED <<outbox, settings, rows, taking, batch, current, history>>

\* The process is killed; an open dispatch transaction rolls back.
Crash(w) ==
    /\ w \in MayCrash
    /\ Live(w)
    /\ To(w, "crashed")
    /\ taking' = [taking EXCEPT ![w] = {}]
    /\ batch' = [batch EXCEPT ![w] = {}]
    /\ current' = [current EXCEPT ![w] = None]
    /\ UNCHANGED <<outbox, settings, rows, history>>

-----------------------------------------------------------------------------

WorkerStep(w) ==
    \/ \E E \in SUBSET Events : BeginDispatch(w, E)
    \/ CommitDispatch(w)
    \/ DispatchFails(w)
    \/ ReadKillSwitch(w)
    \/ \E S \in SUBSET Pairs : ClaimWebhookDeliveries(w, S)
    \/ \E p \in Pairs : TakeDelivery(w, p)
    \/ Post(w)
    \/ RecordOutcome(w)
    \/ EndTurn(w)

Next ==
    \/ \E e \in Events : BeginChange(e) \/ EndChange(e) \/ PruneSelect(e) \/ PruneDelete(e)
    \/ \E s \in Subs : CreateWebhookSubscription(s) \/ UpdateWebhookSubscription(s)
    \/ SetDeliveryPaused
    \/ \E p \in Pairs :
          RedeliverWebhookDelivery(p) \/ CallWebhook(p) \/ NextAttemptArrives(p) \/ LeaseExpires(p)
    \/ \E w \in Workers : WorkerStep(w) \/ Crash(w)

Spec == Init /\ [][Next]_vars

\* A running worker keeps polling and its POSTs return or time out; the clock advances.
Fairness ==
    /\ \A w \in Workers : WF_vars(WorkerStep(w))
    /\ \A p \in Pairs : WF_vars(NextAttemptArrives(p)) /\ WF_vars(LeaseExpires(p))

FairSpec == Spec /\ Fairness

-----------------------------------------------------------------------------

\* Types of the columns and of a worker's memory.
TypeOK ==
    /\ event \in [Events -> EventStatuses]
    /\ older \in [Events -> SUBSET Subs]
    /\ pruning \subseteq Events
    /\ sub \in [Subs -> {"none", "active", "disabled"}]
    /\ paused \in BOOLEAN
    /\ switches \in Nat
    /\ status \in [Pairs -> DeliveryStatuses]
    /\ attempts \in [Pairs -> Nat]
    /\ due \in [Pairs -> BOOLEAN]
    /\ lockedBy \in [Pairs -> Workers \cup {Nobody}]
    /\ lease \in [Pairs -> {"none", "live", "expired"}]
    /\ redeliveries \in [Pairs -> Nat]
    /\ phase \in [Workers -> Phases]
    /\ taking \in [Workers -> SUBSET Events]
    /\ batch \in [Workers -> SUBSET Pairs]
    /\ current \in [Workers -> Pairs \cup {None}]
    /\ faults \in Nat
    /\ called \subseteq Pairs
    /\ received \in [Pairs -> Nat]

\* Only committed events of a registered type leave, and only to subscriptions
\* that existed when the event occurred or that an automation named.
OnlyOwedLeaves ==
    \A p \in Pairs :
        received[p] > 0 => /\ event[p[1]] \in {"dispatched", "pruned"}
                           /\ p[1] \in Registered
                           /\ p[2] \in older[p[1]] \/ p \in called

\* Every committed event is dispatched.
EveryEventDispatched ==
    \A e \in Events : event[e] = "pending" ~> event[e] \in {"dispatched", "pruned"}

\* A delivery owed to a subscription that stays active, with the kill switch off,
\* is settled, through the crash of a worker: retention does not take it first,
\* unless it was redelivered or called for while retention had its event.
EveryDeliverySettled ==
    \A p \in Pairs :
        <>[](sub[p[2]] = "active" /\ ~paused) =>
            (Owed(p) /\ p[1] \notin pruning ~> status[p] \in {"delivered", "dead"})

-----------------------------------------------------------------------------

\* A worker works on the delivery.
Held(p) == \E w \in Workers : p \in batch[w]

\* Retention has selected the event already, or has removed the row under a worker.
Late(p) ==
    \/ Owed(p) /\ p[1] \in pruning
    \/ status[p] = "gone" /\ Held(p)

Seen(p) ==
    IF Late(p) THEN "late"
    ELSE CASE status[p] = "none"      -> "none"
           [] Owed(p)                 -> "open"
           [] status[p] = "delivered" -> "done"
           [] status[p] = "dead"      -> "dead"
           [] OTHER                   -> "gone"

Contract == INSTANCE DeliveryContract WITH
    Ids        <- Pairs,
    Atomic     <- {},
    Reopenable <- Pairs,
    Losable    <- Pairs,
    state      <- [p \in Pairs |-> Seen(p)],
    delivered  <- received

\* The deliveries keep the contract of a durable queue: an endpoint gets a delivery
\* only while it is owed, one that is done stays done, and events are pruned "once
\* none of their webhook deliveries is still to be sent" (migration 0192) but for
\* those that became owed while the statement was at it.
KeepsContract == Contract!Spec
=============================================================================

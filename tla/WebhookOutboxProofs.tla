------------------------- MODULE WebhookOutboxProofs -------------------------
(***************************************************************************)
(* Theorems about WebhookOutbox, for every set of events, subscriptions    *)
(* and workers, every limit and budget, and any crash or statement failure.*)
(***************************************************************************)
EXTENDS WebhookOutbox, TLAPS

USE ConstantsOK

\* A delivery row belongs to one event and to one subscription.
LEMMA PairParts == \A p \in Pairs : p[1] \in Events /\ p[2] \in Subs /\ p = <<p[1], p[2]>>
BY DEF Pairs

RowsOK ==
    /\ status \in [Pairs -> DeliveryStatuses]
    /\ attempts \in [Pairs -> Nat]
    /\ due \in [Pairs -> BOOLEAN]
    /\ lockedBy \in [Pairs -> Workers \cup {Nobody}]
    /\ lease \in [Pairs -> {"none", "live", "expired"}]
    /\ redeliveries \in [Pairs -> Nat]

\* Neither a claim nor the report of a POST leaves the types of a row, and each
\* leaves a worker where it can be.
LEMMA ClaimTyped ==
  ASSUME TypeOK, NEW w \in Workers, NEW S \in SUBSET Pairs, ClaimWebhookDeliveries(w, S)
  PROVE  TypeOK'
<1>1. RowsOK'
  BY DEF ClaimWebhookDeliveries, RowsOK, TypeOK, DeliveryStatuses
<1>2. phase' \in [Workers -> Phases] /\ batch' \in [Workers -> SUBSET Pairs] /\ faults' \in Nat
  BY DEF ClaimWebhookDeliveries, To, NoFault, Fault, TypeOK, Phases
<1> QED
  BY <1>1, <1>2 DEF ClaimWebhookDeliveries, TypeOK, RowsOK, outbox, settings

\* The recording of a sending's outcome keeps the types.
LEMMA OutcomeTyped ==
  ASSUME TypeOK, NEW w \in Workers, RecordOutcome(w)
  PROVE  TypeOK'
<1>1. RowsOK'
  <2>1. CASE UNCHANGED rows
    BY <2>1 DEF rows, RowsOK, TypeOK
  <2>2. CASE CompleteWebhookDelivery(current[w], w)
    BY <2>2 DEF CompleteWebhookDelivery, Unlock, RowsOK, TypeOK, DeliveryStatuses
  <2>3. ASSUME NEW b, FailWebhookDelivery(current[w], w, b) PROVE RowsOK'
    BY <2>3 DEF FailWebhookDelivery, Unlock, RowsOK, TypeOK, DeliveryStatuses
  <2> QED
    BY <2>1, <2>2, <2>3 DEF RecordOutcome, Settle
<1>2. /\ phase' \in [Workers -> Phases] /\ batch' \in [Workers -> SUBSET Pairs]
      /\ current' \in [Workers -> Pairs \cup {None}] /\ faults' \in Nat
  BY DEF RecordOutcome, To, NoFault, Fault, TypeOK, Phases
<1> QED
  BY <1>1, <1>2 DEF RecordOutcome, TypeOK, RowsOK, outbox, settings

\* The commit of a dispatch keeps the types.
LEMMA DispatchTyped ==
  ASSUME TypeOK, NEW w \in Workers, CommitDispatch(w)
  PROVE  TypeOK'
<1>1. event' \in [Events -> EventStatuses]
  BY DEF CommitDispatch, TypeOK, EventStatuses
<1>2. status' \in [Pairs -> DeliveryStatuses] /\ due' \in [Pairs -> BOOLEAN]
  BY DEF CommitDispatch, TypeOK, DeliveryStatuses
<1>3. phase' \in [Workers -> Phases] /\ taking' \in [Workers -> SUBSET Events] /\ faults' \in Nat
  BY DEF CommitDispatch, To, NoFault, Fault, TypeOK, Phases
<1> QED
  BY <1>1, <1>2, <1>3 DEF CommitDispatch, TypeOK, settings

\* One more POST accepted leaves a count for every pair.
LEMMA Counted ==
  ASSUME NEW f \in [Pairs -> Nat], NEW p
  PROVE  [f EXCEPT ![p] = @ + 1] \in [Pairs -> Nat]
<1>1. \A q \in Pairs : f[q] + 1 \in Nat
  OBVIOUS
<1> QED
  BY <1>1

\* Every step keeps the types.
LEMMA TypeStep == TypeOK /\ [Next]_vars => TypeOK'
<1> SUFFICES ASSUME TypeOK, [Next]_vars PROVE TypeOK'
  OBVIOUS
<1> USE DEF TypeOK
<1>1. ASSUME NEW e \in Events, BeginChange(e) \/ EndChange(e) \/ PruneSelect(e) PROVE TypeOK'
  BY <1>1 DEF BeginChange, EndChange, PruneSelect, settings, rows, turns, history, EventStatuses
<1>2. ASSUME NEW e \in Events, PruneDelete(e) PROVE TypeOK'
  BY <1>2 DEF PruneDelete, settings, turns, history, EventStatuses, DeliveryStatuses
<1>3. ASSUME NEW s \in Subs, CreateWebhookSubscription(s) \/ UpdateWebhookSubscription(s) PROVE TypeOK'
  BY <1>3 DEF CreateWebhookSubscription, UpdateWebhookSubscription, outbox, rows, turns, history
<1>4. CASE SetDeliveryPaused
  BY <1>4 DEF SetDeliveryPaused, outbox, rows, turns, history
<1>5. ASSUME NEW p \in Pairs,
             RedeliverWebhookDelivery(p) \/ CallWebhook(p) \/ NextAttemptArrives(p) \/ LeaseExpires(p)
      PROVE TypeOK'
  <2>1. CASE RedeliverWebhookDelivery(p)
    BY <2>1 DEF RedeliverWebhookDelivery, outbox, settings, turns, history, DeliveryStatuses
  <2>2. CASE CallWebhook(p)
    BY <2>2 DEF CallWebhook, outbox, settings, turns, DeliveryStatuses
  <2>3. CASE NextAttemptArrives(p)
    BY <2>3 DEF NextAttemptArrives, outbox, settings, turns, history
  <2>4. CASE LeaseExpires(p)
    BY <2>4 DEF LeaseExpires, outbox, settings, turns, history
  <2> QED
    BY <1>5, <2>1, <2>2, <2>3, <2>4
<1>6. ASSUME NEW w \in Workers, NEW E \in SUBSET Events, BeginDispatch(w, E) PROVE TypeOK'
  BY <1>6 DEF BeginDispatch, To, outbox, settings, rows, history, Phases
<1>7. ASSUME NEW w \in Workers, DispatchFails(w) \/ ReadKillSwitch(w) \/ EndTurn(w) \/ Crash(w) PROVE TypeOK'
  BY <1>7 DEF DispatchFails, ReadKillSwitch, EndTurn, Crash, To, Fault, outbox, settings, rows, history, Phases
<1>8. ASSUME NEW w \in Workers, NEW p \in Pairs, TakeDelivery(w, p) PROVE TypeOK'
  BY <1>8 DEF TakeDelivery, To, outbox, settings, rows, history, Phases
<1>9. ASSUME NEW w \in Workers, Post(w) PROVE TypeOK'
  <2>1. received' \in [Pairs -> Nat]
    BY <1>9, Counted DEF Post
  <2>2. phase' \in [Workers -> Phases]
    BY <1>9 DEF Post, To, Phases
  <2> QED
    BY <1>9, <2>1, <2>2 DEF Post, outbox, settings, rows
<1>10. CASE UNCHANGED vars
  BY <1>10 DEF vars, outbox, settings, rows, turns, history
<1> QED
  BY <1>1, <1>2, <1>3, <1>4, <1>5, <1>6, <1>7, <1>8, <1>9, <1>10,
     ClaimTyped, OutcomeTyped, DispatchTyped DEF Next, WorkerStep

\* The initial state has the types.
LEMMA InitTyped == Init => TypeOK
<1>1. Init => paused \in BOOLEAN
  BY DEF Init
<1> QED
  BY <1>1 DEF Init, TypeOK, EventStatuses, DeliveryStatuses, Phases

\* Every column and every worker's memory stays in its type: the CHECK
\* constraints of platform_events and webhook_deliveries are never hit.
THEOREM TypeCorrect == Spec => []TypeOK
BY InitTyped, TypeStep, PTL DEF Spec

-----------------------------------------------------------------------------
(* What leaves is owed. *)

InHand == {"posting", "accepted", "refused", "rejected"}

\* A worker has a delivery in hand exactly while it posts or reports one, a batch
\* only while it goes through one, and events locked only while it dispatches.
HandsOK ==
    \A w \in Workers :
        /\ phase[w] \in InHand => current[w] \in batch[w]
        /\ phase[w] \notin InHand => current[w] = None
        /\ phase[w] \notin InHand \cup {"batch"} => batch[w] = {}
        /\ phase[w] # "dispatching" => taking[w] = {}

\* SKIP LOCKED: an event a dispatch transaction holds is still pending, and no
\* other one holds it.
TakingPending ==
    \A w \in Workers : \A e \in taking[w] :
        /\ event[e] = "pending"
        /\ \A v \in Workers \ {w} : e \notin taking[v]

\* Retention only ever takes events that were dispatched.
PruningDispatched == \A e \in pruning : event[e] = "dispatched"

\* Why a delivery row may exist.
Caused(p) ==
    /\ event[p[1]] \in {"dispatched", "pruned"}
    /\ p[1] \in Registered
    /\ p[2] \in older[p[1]] \/ p \in called

RowsCaused == \A p \in Pairs : status[p] # "none" => Caused(p)

\* Workers hold and endpoints got only deliveries that have, or had, a row.
OnlyRowsLeave ==
    /\ \A w \in Workers : \A p \in batch[w] : status[p] # "none"
    /\ \A p \in Pairs : received[p] > 0 => status[p] # "none"

\* The inductive invariant behind OnlyOwed.
CauseInv == TypeOK /\ HandsOK /\ TakingPending /\ PruningDispatched /\ RowsCaused /\ OnlyRowsLeave

\* A worker has a delivery in hand exactly while it works on one of its batch.
LEMMA HandsStep == HandsOK /\ TypeOK /\ [Next]_vars => HandsOK'
<1> SUFFICES ASSUME TypeOK, HandsOK, [Next]_vars PROVE HandsOK'
  OBVIOUS
<1> USE DEF TypeOK, HandsOK, InHand
<1>1. ASSUME UNCHANGED turns PROVE HandsOK'
  BY <1>1 DEF turns
<1>2. ASSUME NEW w \in Workers, NEW S \in SUBSET Pairs, ClaimWebhookDeliveries(w, S) PROVE HandsOK'
  BY <1>2 DEF ClaimWebhookDeliveries, To
<1>3. ASSUME NEW w \in Workers, NEW E \in SUBSET Events, BeginDispatch(w, E) PROVE HandsOK'
  BY <1>3 DEF BeginDispatch, To
<1>4. ASSUME NEW w \in Workers, NEW p \in Pairs, TakeDelivery(w, p) PROVE HandsOK'
  BY <1>4 DEF TakeDelivery, To
<1>5. ASSUME NEW w \in Workers, CommitDispatch(w) \/ DispatchFails(w) \/ ReadKillSwitch(w) PROVE HandsOK'
  <2>1. /\ \E ph \in {"checking", "claiming", "idle"} : phase' = [phase EXCEPT ![w] = ph]
        /\ UNCHANGED <<batch, current>>
        /\ taking'[w] = {} /\ \A v \in Workers \ {w} : taking'[v] = taking[v]
    BY <1>5 DEF CommitDispatch, DispatchFails, ReadKillSwitch, To
  <2>2. phase[w] \in {"dispatching", "checking"}
    BY <1>5 DEF CommitDispatch, DispatchFails, ReadKillSwitch
  <2> QED
    BY <2>1, <2>2
<1>6. ASSUME NEW w \in Workers, Post(w) PROVE HandsOK'
  BY <1>6 DEF Post, To
<1>7. ASSUME NEW w \in Workers, RecordOutcome(w) PROVE HandsOK'
  BY <1>7 DEF RecordOutcome, To
<1>8. ASSUME NEW w \in Workers, EndTurn(w) \/ Crash(w) PROVE HandsOK'
  BY <1>8 DEF EndTurn, Crash, Live, To
<1>9. ASSUME NEW e \in Events, BeginChange(e) \/ EndChange(e) \/ PruneSelect(e) \/ PruneDelete(e)
      PROVE HandsOK'
  BY <1>1, <1>9 DEF BeginChange, EndChange, PruneSelect, PruneDelete
<1>10. ASSUME NEW s \in Subs,
              CreateWebhookSubscription(s) \/ UpdateWebhookSubscription(s) \/ SetDeliveryPaused
       PROVE HandsOK'
  BY <1>1, <1>10 DEF CreateWebhookSubscription, UpdateWebhookSubscription, SetDeliveryPaused
<1>11. ASSUME NEW p \in Pairs,
              RedeliverWebhookDelivery(p) \/ CallWebhook(p) \/ NextAttemptArrives(p) \/ LeaseExpires(p)
       PROVE HandsOK'
  BY <1>1, <1>11 DEF RedeliverWebhookDelivery, CallWebhook, NextAttemptArrives, LeaseExpires
<1>12. CASE SetDeliveryPaused
  BY <1>1, <1>12 DEF SetDeliveryPaused
<1> QED
  BY <1>1, <1>2, <1>3, <1>4, <1>5, <1>6, <1>7, <1>8, <1>9, <1>10, <1>11, <1>12 DEF Next, WorkerStep, vars

\* The row of a delivery, once made, is never unmade; a row is made by the fan-out
\* or by an automation, and then has its cause; and a cause does not go away.
LEMMA RowMade ==
  ASSUME TypeOK, HandsOK, TakingPending, OnlyRowsLeave, [Next]_vars, NEW p \in Pairs
  PROVE  /\ status[p] # "none" => status'[p] # "none"
         /\ status[p] = "none" /\ status'[p] # "none" => Caused(p)'
         /\ Caused(p) => Caused(p)'
<1> DEFINE Goal == /\ status[p] # "none" => status'[p] # "none"
                   /\ status[p] = "none" /\ status'[p] # "none" => Caused(p)'
                   /\ Caused(p) => Caused(p)'
<1> USE PairParts DEF TypeOK
<1>1. ASSUME UNCHANGED <<event, older, called>>, status[p] = "none" <=> status'[p] = "none" PROVE Goal
  BY <1>1 DEF Caused
<1>2. ASSUME NEW e \in Events, BeginChange(e) \/ EndChange(e) PROVE Goal
  BY <1>2 DEF BeginChange, EndChange, Caused, rows, history
<1>3. ASSUME NEW e \in Events, PruneSelect(e) PROVE Goal
  BY <1>1, <1>3 DEF PruneSelect, rows, history
<1>4. ASSUME NEW e \in Events, PruneDelete(e) PROVE Goal
  BY <1>4 DEF PruneDelete, Caused, history
<1>5. ASSUME NEW s \in Subs,
             CreateWebhookSubscription(s) \/ UpdateWebhookSubscription(s)
      PROVE Goal
  BY <1>1, <1>5 DEF CreateWebhookSubscription, UpdateWebhookSubscription, outbox, rows, history
<1>6. CASE SetDeliveryPaused
  BY <1>1, <1>6 DEF SetDeliveryPaused, outbox, rows, history
<1>7. ASSUME NEW q \in Pairs, RedeliverWebhookDelivery(q) \/ NextAttemptArrives(q) \/ LeaseExpires(q)
      PROVE Goal
  BY <1>1, <1>7 DEF RedeliverWebhookDelivery, NextAttemptArrives, LeaseExpires, outbox, history
<1>8. ASSUME NEW q \in Pairs, CallWebhook(q) PROVE Goal
  BY <1>8 DEF CallWebhook, Caused, outbox
<1>9. ASSUME NEW w \in Workers, CommitDispatch(w) PROVE Goal
  <2>1. ASSUME p \in FanOut(taking[w]) PROVE Caused(p)'
    BY <1>9, <2>1 DEF CommitDispatch, FanOut, Caused
  <2>2. Caused(p) => Caused(p)'
    BY <1>9 DEF CommitDispatch, Caused
  <2> QED
    BY <1>9, <2>1, <2>2 DEF CommitDispatch
<1>10. ASSUME NEW w \in Workers, NEW S \in SUBSET Pairs, ClaimWebhookDeliveries(w, S) PROVE Goal
  BY <1>1, <1>10 DEF ClaimWebhookDeliveries, Claimable, outbox
<1>11. ASSUME NEW w \in Workers, RecordOutcome(w) PROVE Goal
  <2>1. current[w] \in Pairs /\ status[current[w]] # "none"
    BY <1>11 DEF RecordOutcome, HandsOK, InHand, OnlyRowsLeave
  <2>2. status[p] = "none" <=> status'[p] = "none"
    BY <1>11, <2>1 DEF RecordOutcome, Settle, CompleteWebhookDelivery, FailWebhookDelivery, Unlock, rows
  <2> QED
    BY <1>1, <1>11, <2>2 DEF RecordOutcome, outbox
<1>12. ASSUME NEW w \in Workers,
              \/ \E E \in SUBSET Events : BeginDispatch(w, E)
              \/ \E q \in Pairs : TakeDelivery(w, q)
              \/ DispatchFails(w) \/ ReadKillSwitch(w) \/ Post(w) \/ EndTurn(w) \/ Crash(w)
       PROVE Goal
  BY <1>1, <1>12 DEF BeginDispatch, TakeDelivery, DispatchFails, ReadKillSwitch, Post, EndTurn, Crash,
     outbox, rows, history
<1>13. CASE UNCHANGED vars
  BY <1>1, <1>13 DEF vars, outbox, rows, history
<1> QED
  BY <1>2, <1>3, <1>4, <1>5, <1>6, <1>7, <1>8, <1>9, <1>10, <1>11, <1>12, <1>13 DEF Next, WorkerStep

\* The events that a dispatch has locked stay pending until it ends: only it moves them.
LEMMA TakingStep ==
  ASSUME TypeOK, HandsOK, TakingPending, PruningDispatched, [Next]_vars
  PROVE  TakingPending'
<1> USE DEF TypeOK, TakingPending
<1>1. ASSUME UNCHANGED <<event, taking>> PROVE TakingPending'
  BY <1>1
<1>2. ASSUME NEW w \in Workers, NEW E \in SUBSET Events, BeginDispatch(w, E) PROVE TakingPending'
  BY <1>2 DEF BeginDispatch, outbox
<1>3. ASSUME NEW w \in Workers, CommitDispatch(w) PROVE TakingPending'
  BY <1>3 DEF CommitDispatch
<1>4. ASSUME NEW w \in Workers, DispatchFails(w) \/ Crash(w) PROVE TakingPending'
  BY <1>4 DEF DispatchFails, Crash, outbox
<1>5. ASSUME NEW e \in Events, BeginChange(e) \/ EndChange(e) \/ PruneDelete(e) PROVE TakingPending'
  <2>1. taking' = taking /\ event[e] # "pending" /\ \A d \in Events \ {e} : event'[d] = event[d]
    BY <1>5 DEF BeginChange, EndChange, PruneDelete, PruningDispatched, turns
  <2> QED
    BY <2>1
<1>6. ASSUME NEW e \in Events, PruneSelect(e) PROVE TakingPending'
  BY <1>1, <1>6 DEF PruneSelect, turns
<1>7. ASSUME NEW s \in Subs, CreateWebhookSubscription(s) \/ UpdateWebhookSubscription(s)
      PROVE TakingPending'
  BY <1>1, <1>7 DEF CreateWebhookSubscription, UpdateWebhookSubscription, outbox, turns
<1>8. CASE SetDeliveryPaused
  BY <1>1, <1>8 DEF SetDeliveryPaused, outbox, turns
<1>9. ASSUME NEW p \in Pairs,
             RedeliverWebhookDelivery(p) \/ CallWebhook(p) \/ NextAttemptArrives(p) \/ LeaseExpires(p)
      PROVE TakingPending'
  BY <1>1, <1>9 DEF RedeliverWebhookDelivery, CallWebhook, NextAttemptArrives, LeaseExpires, outbox, turns
<1>10. ASSUME NEW w \in Workers,
              \/ \E S \in SUBSET Pairs : ClaimWebhookDeliveries(w, S)
              \/ \E p \in Pairs : TakeDelivery(w, p)
              \/ ReadKillSwitch(w) \/ Post(w) \/ RecordOutcome(w) \/ EndTurn(w)
       PROVE TakingPending'
  BY <1>1, <1>10 DEF ClaimWebhookDeliveries, TakeDelivery, ReadKillSwitch, Post, RecordOutcome, EndTurn,
     outbox
<1>11. CASE UNCHANGED vars
  BY <1>1, <1>11 DEF vars, outbox, turns
<1> QED
  BY <1>2, <1>3, <1>4, <1>5, <1>6, <1>7, <1>8, <1>9, <1>10, <1>11 DEF Next, WorkerStep

\* What the prune statement selected stays dispatched.
LEMMA PruningStep == PruningDispatched /\ TypeOK /\ [Next]_vars => PruningDispatched'
<1> SUFFICES ASSUME TypeOK, PruningDispatched, [Next]_vars PROVE PruningDispatched'
  OBVIOUS
<1> USE DEF TypeOK, PruningDispatched
<1>1. ASSUME UNCHANGED outbox PROVE PruningDispatched'
  BY <1>1 DEF outbox
<1>2. ASSUME NEW e \in Events, BeginChange(e) \/ EndChange(e) \/ PruneSelect(e) \/ PruneDelete(e)
      PROVE PruningDispatched'
  BY <1>2 DEF BeginChange, EndChange, PruneSelect, PruneDelete
<1>3. ASSUME NEW w \in Workers, CommitDispatch(w) PROVE PruningDispatched'
  BY <1>3 DEF CommitDispatch
<1>4. ASSUME NEW w \in Workers,
             \/ \E E \in SUBSET Events : BeginDispatch(w, E)
             \/ \E S \in SUBSET Pairs : ClaimWebhookDeliveries(w, S)
             \/ \E p \in Pairs : TakeDelivery(w, p)
             \/ DispatchFails(w) \/ ReadKillSwitch(w) \/ Post(w) \/ RecordOutcome(w) \/ EndTurn(w) \/ Crash(w)
      PROVE PruningDispatched'
  BY <1>1, <1>4 DEF BeginDispatch, ClaimWebhookDeliveries, TakeDelivery, DispatchFails, ReadKillSwitch,
     Post, RecordOutcome, EndTurn, Crash
<1>5. ASSUME NEW s \in Subs, CreateWebhookSubscription(s) \/ UpdateWebhookSubscription(s)
      PROVE PruningDispatched'
  BY <1>1, <1>5 DEF CreateWebhookSubscription, UpdateWebhookSubscription
<1>6. ASSUME NEW p \in Pairs,
             RedeliverWebhookDelivery(p) \/ CallWebhook(p) \/ NextAttemptArrives(p) \/ LeaseExpires(p)
      PROVE PruningDispatched'
  BY <1>1, <1>6 DEF RedeliverWebhookDelivery, CallWebhook, NextAttemptArrives, LeaseExpires
<1> QED
  BY <1>1, <1>2, <1>3, <1>4, <1>5, <1>6 DEF Next, WorkerStep, SetDeliveryPaused, vars

\* What has left belongs to a delivery that was made for it.
LEMMA OnlyRowsStep ==
  ASSUME CauseInv, [Next]_vars
  PROVE  OnlyRowsLeave'
<1> USE DEF CauseInv, TypeOK
<1>1. \A p \in Pairs : status[p] # "none" => status'[p] # "none"
  BY RowMade
<1>2. ASSUME UNCHANGED received, \A v \in Workers : batch'[v] \subseteq batch[v] PROVE OnlyRowsLeave'
  BY <1>1, <1>2 DEF OnlyRowsLeave
<1>3. ASSUME NEW w \in Workers, NEW S \in SUBSET Pairs, ClaimWebhookDeliveries(w, S) PROVE OnlyRowsLeave'
  <2>1. \A p \in S : status'[p] # "none"
    BY <1>3 DEF ClaimWebhookDeliveries
  <2>2. received' = received /\ \A v \in Workers : batch'[v] \subseteq batch[v] \cup S
    BY <1>3 DEF ClaimWebhookDeliveries
  <2> QED
    BY <1>1, <2>1, <2>2 DEF OnlyRowsLeave
<1>4. ASSUME NEW w \in Workers, Post(w) PROVE OnlyRowsLeave'
  <2>1. current[w] \in Pairs /\ status[current[w]] # "none"
    BY <1>4 DEF Post, HandsOK, InHand, OnlyRowsLeave
  <2>2. batch' = batch /\ \A p \in Pairs \ {current[w]} : received'[p] = received[p]
    BY <1>4 DEF Post
  <2> QED
    BY <1>1, <2>1, <2>2 DEF OnlyRowsLeave
<1>5. ASSUME NEW w \in Workers,
             \/ \E E \in SUBSET Events : BeginDispatch(w, E)
             \/ \E p \in Pairs : TakeDelivery(w, p)
             \/ CommitDispatch(w) \/ DispatchFails(w) \/ ReadKillSwitch(w) \/ RecordOutcome(w)
             \/ EndTurn(w) \/ Crash(w)
      PROVE OnlyRowsLeave'
  <2>1. batch' = batch \/ batch' = [batch EXCEPT ![w] = @ \ {current[w]}] \/ batch' = [batch EXCEPT ![w] = {}]
    BY <1>5 DEF BeginDispatch, TakeDelivery, CommitDispatch, DispatchFails, ReadKillSwitch,
       RecordOutcome, EndTurn, Crash
  <2>2. UNCHANGED received
    BY <1>5 DEF BeginDispatch, TakeDelivery, CommitDispatch, DispatchFails, ReadKillSwitch,
       RecordOutcome, EndTurn, Crash, history
  <2> QED
    BY <1>2, <2>1, <2>2
<1>6. ASSUME UNCHANGED <<turns, received>> PROVE OnlyRowsLeave'
  BY <1>2, <1>6 DEF turns
<1>7. ASSUME NEW e \in Events, BeginChange(e) \/ EndChange(e) \/ PruneSelect(e) \/ PruneDelete(e)
      PROVE OnlyRowsLeave'
  BY <1>6, <1>7 DEF BeginChange, EndChange, PruneSelect, PruneDelete, history
<1>8. ASSUME NEW s \in Subs, CreateWebhookSubscription(s) \/ UpdateWebhookSubscription(s)
      PROVE OnlyRowsLeave'
  BY <1>6, <1>8 DEF CreateWebhookSubscription, UpdateWebhookSubscription, history
<1>9. ASSUME NEW p \in Pairs,
             RedeliverWebhookDelivery(p) \/ CallWebhook(p) \/ NextAttemptArrives(p) \/ LeaseExpires(p)
      PROVE OnlyRowsLeave'
  BY <1>6, <1>9 DEF RedeliverWebhookDelivery, CallWebhook, NextAttemptArrives, LeaseExpires, history
<1> QED
  BY <1>3, <1>4, <1>5, <1>6, <1>7, <1>8, <1>9 DEF Next, WorkerStep, SetDeliveryPaused, vars, history

\* Every step keeps the causes of what exists.
LEMMA CauseStep == CauseInv /\ [Next]_vars => CauseInv'
<1> SUFFICES ASSUME CauseInv, [Next]_vars PROVE CauseInv'
  OBVIOUS
<1>1. TypeOK' /\ HandsOK' /\ TakingPending' /\ PruningDispatched' /\ OnlyRowsLeave'
  BY TypeStep, HandsStep, TakingStep, PruningStep, OnlyRowsStep DEF CauseInv
<1>2. RowsCaused'
  BY RowMade DEF CauseInv, RowsCaused
<1> QED
  BY <1>1, <1>2 DEF CauseInv

\* With no events there is nothing without a cause.
LEMMA CauseInit == Init => CauseInv
<1> SUFFICES ASSUME Init PROVE CauseInv
  OBVIOUS
<1>1. TypeOK
  BY InitTyped
<1>2. HandsOK /\ TakingPending /\ PruningDispatched
  BY DEF Init, HandsOK, InHand, TakingPending, PruningDispatched
<1>3. RowsCaused /\ OnlyRowsLeave
  BY DEF Init, RowsCaused, OnlyRowsLeave
<1> QED
  BY <1>1, <1>2, <1>3 DEF CauseInv

\* Only committed events of a registered type reach an endpoint, and only one that
\* existed when they occurred or that an automation named: whatever crashes, whatever
\* leases are overrun and however a redelivery and a prune interleave.
THEOREM OnlyOwed == Spec => []OnlyOwedLeaves
<1>1. CauseInv => OnlyOwedLeaves
  BY DEF CauseInv, OnlyOwedLeaves, OnlyRowsLeave, RowsCaused, Caused
<1> QED
  BY <1>1, CauseInit, CauseStep, PTL DEF Spec

-----------------------------------------------------------------------------
(* The contract of a durable queue. *)

\* A delivery in a worker's batch is leased to that worker, so to no other, unless its
\* row was pruned in the meantime; then the row last named that worker.
HolderAgrees ==
    \A w \in Workers : \A p \in batch[w] :
        status[p] \in {"processing", "gone"} /\ lockedBy[p] = w /\ lease[p] = "live"

\* Only what an endpoint accepted is reported as accepted.
AcceptedReceived == \A w \in Workers : phase[w] = "accepted" => received[current[w]] > 0

\* The inductive invariant behind Refines.
Inv == CauseInv /\ HolderAgrees /\ AcceptedReceived

\* While leases outlast batches, what a worker has in its batch is sent under its lease.
LEMMA HolderStep ==
  ASSUME ~Overrun, CauseInv, HolderAgrees, [Next]_vars
  PROVE  HolderAgrees'
<1> USE DEF CauseInv, TypeOK, HolderAgrees
<1>1. ASSUME UNCHANGED rows, \A v \in Workers : batch'[v] \subseteq batch[v] PROVE HolderAgrees'
  BY <1>1 DEF rows
<1>2. ASSUME UNCHANGED rows, UNCHANGED turns PROVE HolderAgrees'
  BY <1>1, <1>2 DEF turns
<1>3. ASSUME NEW e \in Events, BeginChange(e) \/ EndChange(e) \/ PruneSelect(e) PROVE HolderAgrees'
  BY <1>2, <1>3 DEF BeginChange, EndChange, PruneSelect
<1>4. ASSUME NEW e \in Events, PruneDelete(e) PROVE HolderAgrees'
  <2>1. UNCHANGED <<lockedBy, lease, batch>>
    BY <1>4 DEF PruneDelete, turns
  <2>2. \A p \in Pairs : status[p] \in {"processing", "gone"} => status'[p] \in {"processing", "gone"}
    BY <1>4 DEF PruneDelete
  <2> QED
    BY <2>1, <2>2
<1>5. ASSUME NEW s \in Subs, CreateWebhookSubscription(s) \/ UpdateWebhookSubscription(s) PROVE HolderAgrees'
  BY <1>2, <1>5 DEF CreateWebhookSubscription, UpdateWebhookSubscription
<1>6. ASSUME NEW q \in Pairs,
             RedeliverWebhookDelivery(q) \/ CallWebhook(q) \/ NextAttemptArrives(q) \/ LeaseExpires(q)
      PROVE HolderAgrees'
  <2>1. UNCHANGED batch
    BY <1>6 DEF RedeliverWebhookDelivery, CallWebhook, NextAttemptArrives, LeaseExpires, turns
  <2>2. UNCHANGED lockedBy /\ \A p \in Pairs \ {q} : status'[p] = status[p] /\ lease'[p] = lease[p]
    BY <1>6 DEF RedeliverWebhookDelivery, CallWebhook, NextAttemptArrives, LeaseExpires
  <2>3. \A w \in Workers : q \in batch[w] => status'[q] = status[q] /\ lease'[q] = lease[q]
    BY <1>6 DEF RedeliverWebhookDelivery, CallWebhook, NextAttemptArrives, LeaseExpires
  <2> QED
    BY <2>1, <2>2, <2>3
<1>7. ASSUME NEW w \in Workers, CommitDispatch(w) PROVE HolderAgrees'
  BY <1>7 DEF CommitDispatch, FanOut
<1>8. ASSUME NEW w \in Workers, NEW S \in SUBSET Pairs, ClaimWebhookDeliveries(w, S) PROVE HolderAgrees'
  <2>1. \A v \in Workers : \A p \in batch[v] : p \notin S
    BY <1>8 DEF ClaimWebhookDeliveries, Claimable
  <2>2. \A p \in S : status'[p] = "processing" /\ lockedBy'[p] = w /\ lease'[p] = "live"
    BY <1>8 DEF ClaimWebhookDeliveries
  <2>3. \A p \in Pairs \ S : status'[p] = status[p] /\ lockedBy'[p] = lockedBy[p] /\ lease'[p] = lease[p]
    BY <1>8 DEF ClaimWebhookDeliveries
  <2>4. batch'[w] \subseteq S /\ \A v \in Workers \ {w} : batch'[v] = batch[v]
    BY <1>8 DEF ClaimWebhookDeliveries, HandsOK, InHand
  <2> QED
    BY <2>1, <2>2, <2>3, <2>4
<1>9. ASSUME NEW w \in Workers, RecordOutcome(w) PROVE HolderAgrees'
  <2> DEFINE p == current[w]
  <2>1. p \in batch[w] /\ \A v \in Workers \ {w} : p \notin batch[v]
    BY <1>9 DEF RecordOutcome, HandsOK, InHand
  <2>2. \A q \in Pairs \ {p} : status'[q] = status[q] /\ lockedBy'[q] = lockedBy[q] /\ lease'[q] = lease[q]
    BY <1>9, <2>1 DEF RecordOutcome, Settle, CompleteWebhookDelivery, FailWebhookDelivery, Unlock, rows
  <2>3. batch' = [batch EXCEPT ![w] = @ \ {p}]
    BY <1>9 DEF RecordOutcome
  <2> QED
    BY <2>1, <2>2, <2>3
<1>10. ASSUME NEW w \in Workers,
             \/ \E E \in SUBSET Events : BeginDispatch(w, E)
             \/ \E q \in Pairs : TakeDelivery(w, q)
             \/ DispatchFails(w) \/ ReadKillSwitch(w) \/ Post(w) \/ EndTurn(w) \/ Crash(w)
      PROVE HolderAgrees'
  BY <1>1, <1>10 DEF BeginDispatch, TakeDelivery, DispatchFails, ReadKillSwitch, Post, EndTurn, Crash
<1> QED
  BY <1>2, <1>3, <1>4, <1>5, <1>6, <1>7, <1>8, <1>9, <1>10
     DEF Next, WorkerStep, SetDeliveryPaused, vars

\* What a receiver accepted has been received.
LEMMA AcceptedStep ==
  ASSUME TypeOK, HandsOK, AcceptedReceived, [Next]_vars
  PROVE  AcceptedReceived'
<1> USE DEF TypeOK, AcceptedReceived
<1>1. ASSUME NEW w \in Workers, UNCHANGED received, phase'[w] # "accepted",
             \A v \in Workers \ {w} : phase'[v] = phase[v] /\ current'[v] = current[v]
      PROVE AcceptedReceived'
  BY <1>1
<1>2. ASSUME UNCHANGED <<turns, received>> PROVE AcceptedReceived'
  BY <1>2 DEF turns
<1>3. ASSUME NEW w \in Workers, Post(w) PROVE AcceptedReceived'
  <2>1. current[w] \in Pairs /\ UNCHANGED current
    BY <1>3 DEF Post, HandsOK, InHand
  <2>2. \A p \in Pairs : received[p] > 0 => received'[p] > 0
    BY <1>3 DEF Post
  <2>3. phase'[w] = "accepted" => received'[current[w]] > 0
    BY <1>3, <2>1 DEF Post, To
  <2>4. \A v \in Workers \ {w} : phase'[v] = phase[v]
    BY <1>3 DEF Post, To
  <2>5. \A v \in Workers : phase[v] = "accepted" => current[v] \in Pairs
    BY DEF HandsOK, InHand
  <2> QED
    BY <2>1, <2>2, <2>3, <2>4, <2>5
<1>4. ASSUME NEW w \in Workers,
             \/ \E E \in SUBSET Events : BeginDispatch(w, E)
             \/ \E S \in SUBSET Pairs : ClaimWebhookDeliveries(w, S)
             \/ \E q \in Pairs : TakeDelivery(w, q)
             \/ CommitDispatch(w) \/ DispatchFails(w) \/ ReadKillSwitch(w) \/ RecordOutcome(w)
             \/ EndTurn(w) \/ Crash(w)
      PROVE AcceptedReceived'
  <2>1. phase'[w] # "accepted" /\ \A v \in Workers \ {w} : phase'[v] = phase[v]
    BY <1>4 DEF BeginDispatch, ClaimWebhookDeliveries, TakeDelivery, CommitDispatch, DispatchFails,
       ReadKillSwitch, RecordOutcome, EndTurn, Crash, To
  <2>2. UNCHANGED received /\ \A v \in Workers \ {w} : current'[v] = current[v]
    BY <1>4 DEF BeginDispatch, ClaimWebhookDeliveries, TakeDelivery, CommitDispatch, DispatchFails,
       ReadKillSwitch, RecordOutcome, EndTurn, Crash, history
  <2> QED
    BY <1>1, <2>1, <2>2
<1>5. ASSUME NEW e \in Events, BeginChange(e) \/ EndChange(e) \/ PruneSelect(e) \/ PruneDelete(e)
      PROVE AcceptedReceived'
  BY <1>2, <1>5 DEF BeginChange, EndChange, PruneSelect, PruneDelete, history
<1>6. ASSUME NEW s \in Subs, CreateWebhookSubscription(s) \/ UpdateWebhookSubscription(s)
      PROVE AcceptedReceived'
  BY <1>2, <1>6 DEF CreateWebhookSubscription, UpdateWebhookSubscription, history
<1>7. ASSUME NEW q \in Pairs,
             RedeliverWebhookDelivery(q) \/ CallWebhook(q) \/ NextAttemptArrives(q) \/ LeaseExpires(q)
      PROVE AcceptedReceived'
  BY <1>2, <1>7 DEF RedeliverWebhookDelivery, CallWebhook, NextAttemptArrives, LeaseExpires, history
<1> QED
  BY <1>2, <1>3, <1>4, <1>5, <1>6, <1>7 DEF Next, WorkerStep, SetDeliveryPaused, vars, history

\* While leases outlast their batches, a delivery is in the hands of the worker its row
\* names and of no other, even when retention takes the row from under that worker.
THEOREM Invariance == ASSUME ~Overrun PROVE Spec => []Inv
<1>1. Init => Inv
  BY CauseInit DEF Init, Inv, HolderAgrees, AcceptedReceived
<1>2. Inv /\ [Next]_vars => Inv'
  BY CauseStep, HolderStep, AcceptedStep DEF Inv, CauseInv
<1> QED
  BY <1>1, <1>2, PTL DEF Spec

\* A row whose status a step leaves alone looks the same to its publisher, if retention
\* has not come for it, nor a worker let go of it.
LEMMA SeenStays ==
  ASSUME NEW p, status'[p] = status[p],
         Owed(p) => (p[1] \in pruning' <=> p[1] \in pruning),
         status[p] = "gone" => (Held(p)' <=> Held(p))
  PROVE  Seen(p)' = Seen(p)
<1>1. Owed(p)' <=> Owed(p)
  BY DEF Owed
<1>2. CASE Owed(p)
  <2>1. status[p] # "gone" /\ status'[p] # "gone"
    BY <1>2 DEF Owed
  <2> QED
    BY <1>1, <1>2, <2>1 DEF Seen, Late
<1>3. CASE ~Owed(p)
  <2>1. CASE status[p] = "gone" /\ Held(p)
    BY <2>1 DEF Seen, Late
  <2>2. CASE ~(status[p] = "gone" /\ Held(p))
    <3>1. ~Late(p) /\ ~Late(p)'
      BY <1>1, <1>3, <2>2 DEF Late
    <3>2. ~Owed(p) /\ ~Owed(p)'
      BY <1>1, <1>3
    <3> QED
      BY <3>1, <3>2 DEF Seen
  <2> QED
    BY <2>1, <2>2
<1> QED
  BY <1>2, <1>3

\* What a publisher sees, by the status of the row.
LEMMA SeenBy ==
  ASSUME NEW p
  PROVE  /\ status[p] = "none" => Seen(p) = "none"
         /\ Owed(p) => Seen(p) = IF p[1] \in pruning THEN "late" ELSE "open"
         /\ status[p] = "delivered" => Seen(p) = "done"
         /\ status[p] = "dead" => Seen(p) = "dead"
         /\ status[p] = "gone" => Seen(p) = IF Held(p) THEN "late" ELSE "gone"
<1> USE DEF Seen, Late, Owed
<1>1. status[p] = "none" => Seen(p) = "none"
  OBVIOUS
<1>2. Owed(p) => Seen(p) = IF p[1] \in pruning THEN "late" ELSE "open"
  OBVIOUS
<1>3. status[p] = "delivered" => Seen(p) = "done"
  OBVIOUS
<1>4. status[p] = "dead" => Seen(p) = "dead"
  OBVIOUS
<1>5. status[p] = "gone" => Seen(p) = IF Held(p) THEN "late" ELSE "gone"
  OBVIOUS
<1> QED
  BY <1>1, <1>2, <1>3, <1>4, <1>5

\* A dispatch makes only open rows: what retention has selected was dispatched before.
LEMMA DispatchSeen ==
  ASSUME Inv, NEW w \in Workers, CommitDispatch(w)
  PROVE  /\ \A p \in FanOut(taking[w]) : Seen(p) = "none" /\ Seen(p)' = "open"
         /\ \A p \in Pairs \ FanOut(taking[w]) : Seen(p)' = Seen(p)
<1> USE DEF Inv, CauseInv, TypeOK
<1>1. UNCHANGED <<pruning, batch>>
  BY DEF CommitDispatch
<1>2. \A p \in Pairs : status'[p] = IF p \in FanOut(taking[w]) THEN "pending" ELSE status[p]
  BY DEF CommitDispatch
<1>3. \A p \in FanOut(taking[w]) : p \in Pairs /\ status[p] = "none" /\ p[1] \notin pruning
  BY DEF FanOut, TakingPending, PruningDispatched
<1>4. ASSUME NEW p \in FanOut(taking[w]) PROVE Seen(p) = "none" /\ Seen(p)' = "open"
  <2>1. Seen(p) = "none"
    BY <1>3, SeenBy
  <2>2. Owed(p)' /\ p[1] \notin pruning' /\ ~Late(p)' /\ status'[p] = "pending"
    BY <1>1, <1>2, <1>3 DEF Owed, Late
  <2>3. Seen(p)' = "open"
    BY <2>2 DEF Seen
  <2> QED
    BY <2>1, <2>3
<1>5. ASSUME NEW p \in Pairs \ FanOut(taking[w]) PROVE Seen(p)' = Seen(p)
  BY <1>1, <1>2, SeenStays DEF Held
<1> QED
  BY <1>4, <1>5

\* The rows that a prune takes, and no worker holds, are forgotten; the others of the
\* event were late already and stay so until their worker lets go of them.
PrunedNow(e) == {p \in Pairs : p[1] = e /\ status[p] \notin {"none", "gone"} /\ ~Held(p)}

LEMMA PruneSeen ==
  ASSUME Inv, NEW e \in Events, PruneDelete(e)
  PROVE  /\ \A p \in PrunedNow(e) : Seen(p) \in {"late", "done", "dead"} /\ Seen(p)' = "gone"
         /\ \A p \in Pairs \ PrunedNow(e) : Seen(p)' = Seen(p)
<1> USE DEF Inv, CauseInv, TypeOK
<1>1. e \in pruning /\ UNCHANGED batch /\ pruning' = pruning \ {e}
  BY DEF PruneDelete, turns
<1>2. \A p \in Pairs : status'[p] = IF p[1] = e /\ status[p] # "none" THEN "gone" ELSE status[p]
  BY DEF PruneDelete
<1>3. \A p \in Pairs : Held(p)' <=> Held(p)
  BY <1>1 DEF Held
<1>4. ASSUME NEW p \in PrunedNow(e) PROVE Seen(p) \in {"late", "done", "dead"} /\ Seen(p)' = "gone"
  <2>1. p \in Pairs /\ p[1] = e /\ ~Held(p) /\ (Owed(p) \/ status[p] \in {"delivered", "dead"})
    BY DEF PrunedNow, Owed, DeliveryStatuses
  <2>2. Seen(p) \in {"late", "done", "dead"}
    BY <1>1, <2>1, SeenBy
  <2>3. status'[p] = "gone" /\ ~Held(p)' /\ ~Owed(p)'
    BY <1>2, <1>3, <2>1 DEF PrunedNow, Owed
  <2>4. Seen(p)' = "gone"
    BY <2>3 DEF Seen, Late
  <2> QED
    BY <2>2, <2>4
<1>5. ASSUME NEW p \in Pairs \ PrunedNow(e) PROVE Seen(p)' = Seen(p)
  <2>1. CASE p[1] # e \/ status[p] \in {"none", "gone"}
    <3>1. status'[p] = status[p] /\ (Owed(p) => p[1] # e)
      BY <1>2, <2>1 DEF Owed
    <3> QED
      BY <1>1, <1>3, <3>1, SeenStays
  <2>2. CASE p[1] = e /\ status[p] \notin {"none", "gone"} /\ Held(p)
    <3>1. Owed(p)
      BY <2>2 DEF HolderAgrees, Held, Owed
    <3>2. Seen(p) = "late"
      BY <1>1, <2>2, <3>1, SeenBy
    <3>3. status'[p] = "gone" /\ Held(p)'
      BY <1>2, <1>3, <2>2
    <3>4. Seen(p)' = "late"
      BY <3>3 DEF Seen, Late
    <3> QED
      BY <3>2, <3>4
  <2> QED
    BY <2>1, <2>2 DEF PrunedNow
<1> QED
  BY <1>4, <1>5

\* What a worker lets go of is forgotten if its row was pruned in the meantime.
LEMMA LetGoSeen ==
  ASSUME Inv, NEW w \in Workers, NEW S \in SUBSET batch[w], UNCHANGED <<status, pruning>>,
         batch' = [batch EXCEPT ![w] = @ \ S]
  PROVE  /\ \A p \in {q \in S : status[q] = "gone"} : Seen(p) = "late" /\ Seen(p)' = "gone"
         /\ \A p \in Pairs \ {q \in S : status[q] = "gone"} : Seen(p)' = Seen(p)
<1> USE DEF Inv, CauseInv, TypeOK
<1>1. ASSUME NEW p \in S, status[p] = "gone" PROVE Seen(p) = "late" /\ Seen(p)' = "gone"
  <2>1. p \in Pairs /\ Held(p)
    BY <1>1 DEF Held
  <2>2. ~Held(p)'
    BY <1>1 DEF Held, HolderAgrees
  <2>3. Seen(p) = "late"
    BY <1>1, <2>1, SeenBy
  <2>4. status'[p] = "gone" /\ ~Owed(p)'
    BY <1>1 DEF Owed
  <2>5. Seen(p)' = "gone"
    BY <2>2, <2>4 DEF Seen, Late
  <2> QED
    BY <2>3, <2>5
<1>2. ASSUME NEW p \in Pairs, p \notin S \/ status[p] # "gone" PROVE Seen(p)' = Seen(p)
  <2>1. status[p] = "gone" => (Held(p)' <=> Held(p))
    BY <1>2 DEF Held
  <2> QED
    BY <2>1, SeenStays
<1> QED
  BY <1>1, <1>2

\* What the publisher of an event and its endpoint see is a behaviour of
\* DeliveryContract: a delivery is posted only while it is owed, is done only after a
\* POST was accepted, a done one is never posted again, and retention takes what is
\* owed only when it became so after the prune statement had selected its event.
THEOREM Refines == ASSUME ~Overrun PROVE Spec => KeepsContract
<1> DEFINE seen == [p \in Pairs |-> Seen(p)]
<1>1. Init => Contract!Init
  <2> SUFFICES ASSUME Init PROVE Contract!Init
    OBVIOUS
  <2>1. \A p \in Pairs : status[p] = "none"
    BY DEF Init
  <2>2. \A p \in Pairs : Seen(p) = "none"
    BY <2>1, SeenBy
  <2> QED
    BY <2>2 DEF Init, Contract!Init
<1>2. ASSUME Inv, [Next]_vars PROVE [Contract!Next]_(Contract!vars)
  <2> USE <1>2 DEF Inv, CauseInv, TypeOK
  <2>0. ASSUME UNCHANGED received, \A p \in Pairs : Seen(p)' = Seen(p) PROVE UNCHANGED Contract!vars
    BY <2>0 DEF Contract!vars
  <2>1. ASSUME NEW I \in SUBSET Pairs, NEW c, \A p \in I : Seen(p)' = c, \A p \in Pairs \ I : Seen(p)' = Seen(p)
        PROVE  seen' = [p \in Pairs |-> IF p \in I THEN c ELSE seen[p]]
    BY <2>1
  <2>2. ASSUME UNCHANGED <<status, pruning, batch, received>> PROVE UNCHANGED Contract!vars
    <3>1. \A p \in Pairs : Seen(p)' = Seen(p)
      BY <2>2, SeenStays DEF Held
    <3> QED
      BY <2>0, <2>2, <3>1
  <2>3. ASSUME NEW p \in Pairs, UNCHANGED <<pruning, batch>>, \A q \in Pairs \ {p} : status'[q] = status[q]
        PROVE  \A q \in Pairs \ {p} : Seen(q)' = Seen(q)
    BY <2>3, SeenStays DEF Held
  <2>4. ASSUME NEW e \in Events, PruneSelect(e) PROVE UNCHANGED Contract!vars
    <3>1. UNCHANGED <<status, batch, received>> /\ pruning' = pruning \cup {e}
      BY <2>4 DEF PruneSelect, rows, turns, history
    <3>2. \A p \in Pairs : Owed(p) => p[1] # e
      BY <2>4, PairParts DEF PruneSelect
    <3>3. \A p \in Pairs : Seen(p)' = Seen(p)
      BY <3>1, <3>2, SeenStays DEF Held
    <3> QED
      BY <2>0, <3>1, <3>3
  <2>5. ASSUME NEW I \in SUBSET Pairs, UNCHANGED received,
               \A p \in I : Seen(p) \in {"late", "done", "dead"} /\ Seen(p)' = "gone",
               \A p \in Pairs \ I : Seen(p)' = Seen(p)
        PROVE  Contract!Next
    <3>1. \A p \in I : seen[p] \in {"late", "done", "dead"}
      BY <2>5
    <3>2. Contract!Forget(I)
      BY <2>1, <2>5, <3>1 DEF Contract!Forget, Contract!To
    <3> QED
      BY <3>2 DEF Contract!Next
  <2>6. ASSUME NEW e \in Events, PruneDelete(e) PROVE Contract!Next
    <3>1. PrunedNow(e) \in SUBSET Pairs /\ UNCHANGED received
      BY <2>6 DEF PrunedNow, PruneDelete, history
    <3> QED
      BY <2>5, <2>6, <3>1, PruneSeen
  <2>7. ASSUME NEW w \in Workers, CommitDispatch(w) PROVE Contract!Next
    <3> DEFINE I == FanOut(taking[w])
    <3>1. I \in SUBSET Pairs /\ UNCHANGED received
      BY <2>7 DEF FanOut, CommitDispatch
    <3>2. \A p \in I : seen[p] = "none" /\ Seen(p)' = "open"
      BY <2>7, <3>1, DispatchSeen
    <3>3. \A p \in Pairs \ I : Seen(p)' = Seen(p)
      BY <2>7, DispatchSeen
    <3>4. Contract!Accept(I)
      BY <2>1, <3>1, <3>2, <3>3 DEF Contract!Accept, Contract!Enter, Contract!To
    <3> QED
      BY <3>1, <3>4 DEF Contract!Next
  <2>8. ASSUME NEW p \in Pairs, Seen(p)' \in {"open", "late"}, UNCHANGED received,
               \A q \in Pairs \ {p} : Seen(q)' = Seen(q), Seen(p) \in {"none", "dead"}
        PROVE  Contract!Next
    <3>1. Contract!Enter({p})
      BY <2>1, <2>8 DEF Contract!Enter, Contract!To
    <3>2. CASE Seen(p) = "none"
      <4>1. Contract!Accept({p})
        BY <2>8, <3>1, <3>2 DEF Contract!Accept
      <4> QED
        BY <4>1 DEF Contract!Next
    <3>3. CASE Seen(p) = "dead"
      <4>1. Contract!Reopen(p)
        BY <2>8, <3>1, <3>3 DEF Contract!Reopen
      <4> QED
        BY <4>1 DEF Contract!Next
    <3> QED
      BY <2>8, <3>2, <3>3
  <2>9. ASSUME NEW p \in Pairs, CallWebhook(p) \/ RedeliverWebhookDelivery(p)
        PROVE  [Contract!Next]_(Contract!vars)
    <3>1. /\ status' = [status EXCEPT ![p] = "pending"]
          /\ UNCHANGED <<pruning, batch, received>>
          /\ status[p] \in {"none", "retry", "dead"}
      BY <2>9 DEF CallWebhook, RedeliverWebhookDelivery, outbox, turns, history
    <3>2. \A q \in Pairs \ {p} : Seen(q)' = Seen(q)
      BY <2>3, <3>1
    <3>3. Owed(p)' /\ status'[p] = "pending"
      BY <3>1 DEF Owed
    <3>4. Seen(p)' = IF p[1] \in pruning THEN "late" ELSE "open"
      BY <3>1, <3>3 DEF Seen, Late
    <3>5. CASE status[p] = "retry"
      <4>1. Seen(p) = IF p[1] \in pruning THEN "late" ELSE "open"
        BY <3>5, SeenBy DEF Owed
      <4> QED
        BY <2>0, <3>1, <3>2, <3>4, <4>1
    <3>6. CASE status[p] \in {"none", "dead"}
      <4>1. Seen(p) \in {"none", "dead"}
        BY <3>6, SeenBy
      <4> QED
        BY <2>8, <3>1, <3>2, <3>4, <4>1
    <3> QED
      BY <3>1, <3>5, <3>6
  <2>10. ASSUME NEW w \in Workers, NEW S \in SUBSET Pairs, ClaimWebhookDeliveries(w, S)
         PROVE  UNCHANGED Contract!vars
    <3>1. UNCHANGED <<pruning, received>> /\ \A p \in Pairs : status'[p] = IF p \in S THEN "processing" ELSE status[p]
      BY <2>10 DEF ClaimWebhookDeliveries, outbox
    <3>2. \A p \in S : Owed(p)
      BY <2>10 DEF ClaimWebhookDeliveries, Claimable, Owed
    <3>3. \A p \in S : Seen(p)' = Seen(p)
      <4> SUFFICES ASSUME NEW p \in S PROVE Seen(p)' = Seen(p)
        OBVIOUS
      <4>1. Owed(p)' /\ status'[p] = "processing"
        BY <3>1 DEF Owed
      <4>2. Seen(p)' = IF p[1] \in pruning THEN "late" ELSE "open"
        BY <3>1, <4>1 DEF Seen, Late
      <4> QED
        BY <3>2, <4>2, SeenBy
    <3>4. batch'[w] \subseteq batch[w] \cup S /\ batch[w] = {} /\ \A v \in Workers \ {w} : batch'[v] = batch[v]
      BY <2>10 DEF ClaimWebhookDeliveries, HandsOK, InHand
    <3>5. \A p \in Pairs \ S : Held(p)' <=> Held(p)
      BY <3>4 DEF Held
    <3>6. \A p \in Pairs \ S : Seen(p)' = Seen(p)
      BY <3>1, <3>5, SeenStays
    <3> QED
      BY <2>0, <3>1, <3>3, <3>6
  <2>11. ASSUME NEW w \in Workers, Post(w) PROVE [Contract!Next]_(Contract!vars)
    <3>1. PICK p \in Pairs : p = current[w] /\ p \in batch[w]
      BY <2>11 DEF Post, HandsOK, InHand
    <3>2. UNCHANGED <<status, pruning, batch>>
      BY <2>11 DEF Post, outbox, rows
    <3>3. \A q \in Pairs : Seen(q)' = Seen(q)
      BY <3>2, SeenStays DEF Held
    <3>4. Seen(p) \in {"open", "late"}
      BY <3>1, SeenBy DEF HolderAgrees, Held, Owed
    <3>5. CASE received' = [received EXCEPT ![p] = @ + 1]
      <4>1. Contract!Deliver(p)
        BY <3>3, <3>4, <3>5 DEF Contract!Deliver, Contract!Owed
      <4> QED
        BY <4>1 DEF Contract!Next
    <3> QED
      BY <2>2, <2>11, <3>1, <3>2, <3>5 DEF Post
  <2>12. ASSUME NEW w \in Workers, RecordOutcome(w) PROVE [Contract!Next]_(Contract!vars)
    <3>1. PICK p \in Pairs : p = current[w] /\ p \in batch[w]
      BY <2>12 DEF RecordOutcome, HandsOK, InHand
    <3>2. /\ UNCHANGED <<pruning, received>>
          /\ batch' = [batch EXCEPT ![w] = @ \ {p}]
          /\ UNCHANGED rows \/ Settle(p, w)
      BY <2>12, <3>1 DEF RecordOutcome, outbox
    <3>3. lockedBy[p] = w /\ status[p] \in {"processing", "gone"}
      BY <3>1 DEF HolderAgrees
    <3>4. CASE status[p] = "gone"
      <4>1. UNCHANGED status
        BY <3>2, <3>4 DEF rows, Settle, CompleteWebhookDelivery, FailWebhookDelivery, Holds
      <4> DEFINE I == {q \in {p} : status[q] = "gone"}
      <4>2. {p} \in SUBSET batch[w] /\ I = {p} /\ I \in SUBSET Pairs
        BY <3>1, <3>4
      <4>3. /\ \A q \in I : Seen(q) = "late" /\ Seen(q)' = "gone"
            /\ \A q \in Pairs \ I : Seen(q)' = Seen(q)
        BY <3>2, <4>1, <4>2, LetGoSeen
      <4> HIDE DEF I
      <4> QED
        BY <2>5, <3>2, <4>2, <4>3
    <3>5. CASE status[p] = "processing"
      <4>1. Seen(p) = IF p[1] \in pruning THEN "late" ELSE "open"
        BY <3>5, SeenBy DEF Owed
      <4>2. Contract!Owed(p)
        BY <4>1 DEF Contract!Owed
      <4>3. ASSUME \A q \in Pairs \ {p} : status'[q] = status[q] PROVE \A q \in Pairs \ {p} : Seen(q)' = Seen(q)
        <5>1. \A q \in Pairs \ {p} : Held(q)' <=> Held(q)
          BY <3>2 DEF Held
        <5> QED
          BY <3>2, <4>3, <5>1, SeenStays
      <4>4. ASSUME status'[p] \in {"processing", "retry"}, \A q \in Pairs \ {p} : status'[q] = status[q]
            PROVE  UNCHANGED Contract!vars
        <5>1. Owed(p)'
          BY <4>4 DEF Owed
        <5>2. Seen(p)' = Seen(p)
          BY <3>2, <4>1, <4>4, <5>1 DEF Seen, Late
        <5> QED
          BY <2>0, <3>2, <4>3, <4>4, <5>2
      <4>5. CASE UNCHANGED rows
        BY <3>5, <4>4, <4>5 DEF rows
      <4>6. CASE phase[w] = "accepted" /\ CompleteWebhookDelivery(p, w)
        <5>1. status' = [status EXCEPT ![p] = "delivered"] /\ received[p] > 0
          BY <3>1, <3>3, <3>5, <4>6 DEF CompleteWebhookDelivery, Holds, Unlock, AcceptedReceived
        <5>2. ~Owed(p)' /\ status'[p] = "delivered"
          BY <5>1 DEF Owed
        <5>3. Seen(p)' = "done"
          BY <5>2 DEF Seen, Late
        <5>4. Contract!Close(p)
          BY <2>1, <3>2, <4>2, <4>3, <5>1, <5>3 DEF Contract!Close, Contract!To
        <5> QED
          BY <5>4 DEF Contract!Next
      <4>7. ASSUME NEW b, FailWebhookDelivery(p, w, b) PROVE [Contract!Next]_(Contract!vars)
        <5>1. \E s \in {"dead", "retry"} : status' = [status EXCEPT ![p] = s]
          BY <3>3, <3>5, <4>7 DEF FailWebhookDelivery, Holds, Unlock
        <5>2. CASE status' = [status EXCEPT ![p] = "dead"]
          <6>1. ~Owed(p)' /\ status'[p] = "dead"
            BY <5>2 DEF Owed
          <6>2. Seen(p)' = "dead"
            BY <6>1 DEF Seen, Late
          <6>3. Contract!GiveUp(p)
            BY <2>1, <3>2, <4>2, <4>3, <5>2, <6>2 DEF Contract!GiveUp, Contract!To
          <6> QED
            BY <6>3 DEF Contract!Next
        <5>3. CASE status' = [status EXCEPT ![p] = "retry"]
          BY <4>4, <5>3
        <5> QED
          BY <5>1, <5>2, <5>3
      <4> QED
        BY <3>2, <4>5, <4>6, <4>7 DEF Settle
    <3> QED
      BY <3>3, <3>4, <3>5
  <2>13. ASSUME NEW w \in Workers, Crash(w) PROVE [Contract!Next]_(Contract!vars)
    <3> DEFINE I == {p \in batch[w] : status[p] = "gone"}
    <3>1. UNCHANGED <<status, pruning, received>> /\ batch' = [batch EXCEPT ![w] = @ \ batch[w]]
      BY <2>13 DEF Crash, outbox, rows, history
    <3>2. I \in SUBSET Pairs /\ batch[w] \in SUBSET batch[w]
      OBVIOUS
    <3>3. /\ \A p \in I : Seen(p) = "late" /\ Seen(p)' = "gone"
          /\ \A p \in Pairs \ I : Seen(p)' = Seen(p)
      BY <3>1, <3>2, LetGoSeen
    <3> QED
      BY <2>5, <3>1, <3>2, <3>3
  <2>14. ASSUME NEW e \in Events, BeginChange(e) \/ EndChange(e) PROVE UNCHANGED Contract!vars
    BY <2>2, <2>14 DEF BeginChange, EndChange, rows, turns, history
  <2>15. ASSUME NEW s \in Subs, CreateWebhookSubscription(s) \/ UpdateWebhookSubscription(s)
         PROVE  UNCHANGED Contract!vars
    BY <2>2, <2>15 DEF CreateWebhookSubscription, UpdateWebhookSubscription, outbox, rows, turns, history
  <2>16. ASSUME NEW q \in Pairs, NextAttemptArrives(q) \/ LeaseExpires(q)
         PROVE  UNCHANGED Contract!vars
    BY <2>2, <2>16 DEF NextAttemptArrives, LeaseExpires, outbox, turns, history
  <2>17. ASSUME NEW w \in Workers,
                \/ \E E \in SUBSET Events : BeginDispatch(w, E)
                \/ \E q \in Pairs : TakeDelivery(w, q)
                \/ DispatchFails(w) \/ ReadKillSwitch(w) \/ EndTurn(w)
         PROVE  UNCHANGED Contract!vars
    BY <2>2, <2>17 DEF BeginDispatch, TakeDelivery, DispatchFails, ReadKillSwitch, EndTurn, outbox, rows, history
  <2>18. ASSUME SetDeliveryPaused \/ UNCHANGED vars PROVE UNCHANGED Contract!vars
    BY <2>2, <2>18 DEF SetDeliveryPaused, vars, outbox, rows, turns, history
  <2> QED
    BY <2>4, <2>6, <2>7, <2>9, <2>10, <2>11, <2>12, <2>13, <2>14, <2>15, <2>16, <2>17, <2>18 DEF Next, WorkerStep
<1> QED
  BY <1>1, <1>2, Invariance, PTL DEF Spec, KeepsContract, Contract!Spec
=============================================================================

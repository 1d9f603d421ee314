------------------------ MODULE SubscriptionCheckout ------------------------
(***************************************************************************)
(* The checkout of a paid plan and its cancellation: core/billing          *)
(* (checkout.js, webhooks.js, subscriptions.js, reconciliation.js,         *)
(* maintenance.js) and the payment provider it talks to, for one company   *)
(* on the free plan.                                                       *)
(*                                                                         *)
(* Nothing is atomic across the two: the company's own rows move in short  *)
(* transactions, the provider's subscription by calls whose answer may be  *)
(* lost, and word of it comes back by calls made for a checkout or for the *)
(* current subscription, and by events that arrive late and in any order.  *)
(* A job is the worker, or the request of a user, at one of these or at a  *)
(* cancellation; what it has read or been told is old when it acts on it.  *)
(* Leases last longer than a request to the provider, and so does all it   *)
(* takes to subscribe again.  `authenticated' counts as active here,       *)
(* `halted' as pending, which is past_due with the company.                *)
(***************************************************************************)
EXTENDS Integers, FiniteSets, FiniteSetsExt

CONSTANTS
    MaxCheckouts,    \* bound of the model: checkouts a company starts
    MaxJobs,         \* bound of the model: the jobs that run at a time
    MaxFailures,     \* bound of the model: requests, jobs and charges that fail, ends of a subscription
    MaxEvents        \* bound of the model: MaxEvents[n], the reports that can be on their way
                     \* once n checkouts were started

Checkouts == 1 .. MaxCheckouts
None == 0
Jobs == {"recover", "event", "refresh", "cancel"} \X Checkouts

ASSUME BoundsOK ==
    /\ MaxCheckouts \in Nat \ {0} /\ MaxJobs \in Nat \ {0} /\ MaxFailures \in Nat
    /\ MaxEvents \in [Checkouts -> Nat \ {0}]

VARIABLES
    st,          \* billing_checkout_sessions.status
    linked,      \* its provider_subscription_id is known
    open,        \* the checkouts that have not expired, and still can
    shown,       \* the checkouts a customer has before him in the browser
    call,        \* where the request that creates the provider's subscription is
    plan,        \* the checkout whose subscription is the company's, None on the free plan
    local,       \* organization_subscriptions.status
    watermark,   \* organization_subscriptions.last_provider_event_at
    cancelling,  \* organization_subscriptions.cancellation_state (`failed' is as good as none)
    remote,      \* the provider's subscription of a checkout
    ending,      \* the subscriptions the provider will end with the period that is paid
    events,      \* billing_webhook_events that are still to be processed
    task,        \* what a job does, and what it knows
    failures,
    overtaken    \* history: checkouts paid while a job was closing them as unpaid

company == <<plan, local, watermark, cancelling>>
provider == <<remote, ending, events, overtaken>>
browser == <<open, shown, call>>
jobs == <<task, failures>>
vars == <<st, linked, company, provider, browser, jobs>>

Idle == [does |-> "nothing", saw |-> "none", at |-> 0, read |-> FALSE]

Init ==
    /\ st = [c \in Checkouts |-> "none"]
    /\ linked = [c \in Checkouts |-> FALSE]
    /\ open = {} /\ shown = {}
    /\ call = [c \in Checkouts |-> "none"]
    /\ plan = None /\ local = "free" /\ watermark = 0 /\ cancelling = "none"
    /\ remote = [c \in Checkouts |-> "absent"]
    /\ ending = {} /\ events = {}
    /\ task = [j \in Jobs |-> Idle]
    /\ failures = 0
    /\ overtaken = {}

Creating == {"provider_creating", "provider_link_pending"}
LiveStatuses == Creating \cup {"created", "verifying"}
Paying == {"active", "pending"}
Ended == {"cancelled", "expired"}
Mapped(status) == IF status = "pending" THEN "past_due" ELSE status
Fails == failures < MaxFailures /\ failures' = failures + 1
At(j, does) == task[j].does = does
Becomes(c, status) == st' = [st EXCEPT ![c] = status]

-----------------------------------------------------------------------------
(* The customer. *)

\* A checkout that was left may be superseded: one being prepared only when its
\* request is over (two minutes against one at the most), never one being verified.
Supersedable(d) == st[d] = "created" \/ (st[d] \in Creating /\ call[d] = "none")

StartSeatCheckout(c) ==
    /\ st[c] = "none" /\ \A d \in Checkouts : d < c => st[d] # "none"
    /\ plan = None
    /\ \A d \in Checkouts : st[d] \in LiveStatuses => Supersedable(d)
    /\ st' = [d \in Checkouts |-> IF d = c THEN "provider_creating"
                                  ELSE IF st[d] \in LiveStatuses THEN "cancel_pending" ELSE st[d]]
    /\ open' = open \cup {c}
    /\ call' = [call EXCEPT ![c] = "create"]
    /\ UNCHANGED <<linked, shown, company, provider, jobs>>

\* The same order again: the checkout that is open is shown once more.
ReuseCheckout(c) ==
    /\ st[c] = "created" /\ c \in open /\ plan = None
    /\ shown' = shown \cup {c}
    /\ UNCHANGED <<st, linked, open, call, company, provider, jobs>>

CreateSubscription(c) ==
    /\ call[c] = "create"
    /\ remote' = [remote EXCEPT ![c] = "created"]
    /\ call' = [call EXCEPT ![c] = "link"]
    /\ UNCHANGED <<st, linked, open, shown, company, ending, events, overtaken, jobs>>

CreateRejected(c) ==
    /\ call[c] = "create"
    /\ Fails
    /\ call' = [call EXCEPT ![c] = "none"]
    /\ Becomes(c, "failed_before_provider")
    /\ UNCHANGED <<linked, open, shown, company, provider, task>>

\* No answer, whether the provider was reached or not: the intent is kept.
CreateUnanswered(c) ==
    /\ call[c] # "none"
    /\ Fails
    /\ call' = [call EXCEPT ![c] = "none"]
    /\ Becomes(c, IF st[c] = "provider_creating" THEN "provider_link_pending" ELSE st[c])
    /\ UNCHANGED <<linked, open, shown, company, provider, task>>

WebProcessDies(c) ==
    /\ call[c] # "none"
    /\ Fails
    /\ call' = [call EXCEPT ![c] = "none"]
    /\ UNCHANGED <<st, linked, open, shown, company, provider, task>>

\* The provider's answer: linked, and shown to the customer.
LinkProviderSubscription(c) ==
    /\ call[c] = "link"
    /\ call' = [call EXCEPT ![c] = "none"]
    /\ IF st[c] = "provider_creating"
       THEN Becomes(c, "created") /\ linked' = [linked EXCEPT ![c] = TRUE] /\ shown' = shown \cup {c}
       ELSE UNCHANGED <<st, linked, shown>>
    /\ UNCHANGED <<open, company, provider, jobs>>

\* The browser comes back from the provider with a signature.
ConfirmSeatCheckout(c) ==
    /\ st[c] = "created" /\ c \in shown /\ remote[c] \in Paying \cup {"cancelled"}
    /\ Becomes(c, "verifying")
    /\ UNCHANGED <<linked, company, provider, browser, jobs>>

-----------------------------------------------------------------------------
(* The provider: each change of a subscription is reported, at its time. *)

Quiet == Cardinality(events) < MaxEvents[Cardinality({c \in Checkouts : st[c] # "none"})]

\* Times are only compared: a report comes after those anybody still knows of.
Latest == Max({watermark} \cup {e.at : e \in events})

Report(c, status) ==
    /\ remote' = [remote EXCEPT ![c] = status]
    /\ ending' = IF status = "cancelled" THEN ending \ {c} ELSE ending
    /\ events' = events \cup {[c |-> c, is |-> status, at |-> Latest + 1]}
    /\ overtaken' = IF remote[c] = "created" /\ status = "active" /\ At(<<"recover", c>>, "cancel")
                    THEN overtaken \cup {c} ELSE overtaken

\* A checkout once shown can be paid until it expires, whatever became of its session.
Pay(c) ==
    /\ c \in shown \cap open /\ remote[c] = "created" /\ Quiet
    /\ Report(c, "active")
    /\ UNCHANGED <<st, linked, company, browser, jobs>>

ChargeFails(c) ==
    /\ remote[c] = "active" /\ Quiet
    /\ Fails
    /\ Report(c, "pending")
    /\ UNCHANGED <<st, linked, company, browser, task>>

ChargeSettles(c) ==
    /\ remote[c] = "pending" /\ Quiet
    /\ \E status \in {"active", "cancelled"} : Report(c, status)
    /\ UNCHANGED <<st, linked, company, browser, jobs>>

SubscriptionEnds(c) ==
    /\ remote[c] = "active" /\ Quiet
    /\ Fails
    /\ Report(c, "cancelled")
    /\ UNCHANGED <<st, linked, company, browser, task>>

\* The period that was paid for is over, and another was not wanted.
PeriodEnds(c) ==
    /\ remote[c] = "active" /\ c \in ending /\ Quiet
    /\ Report(c, "cancelled")
    /\ UNCHANGED <<st, linked, company, browser, jobs>>

\* Somebody looks after the subscription: it is the company's own, or its checkout
\* is due for something, or a report of it is on its way.
Watched(c) ==
    \/ plan = c \/ st[c] \in LiveStatuses \cup {"cancel_pending"}
    \/ \E e \in events : e.c = c
    \/ \E j \in Jobs : j[2] = c /\ ~At(j, "nothing")

\* A subscription that runs is charged, and reported, again and again: here when
\* nothing else would bring it up.
Renew(c) ==
    /\ remote[c] = "active" /\ c \notin ending /\ ~Watched(c)
    /\ events' = events \cup {[c |-> c, is |-> "active", at |-> Latest]}
    /\ UNCHANGED <<st, linked, company, remote, ending, overtaken, browser, jobs>>

\* The session and the provider's offer expire at the same instant (expire_by).
Expire(c) ==
    /\ c \in open /\ call[c] = "none" /\ (remote[c] = "created" \/ st[c] \in Creating \cup {"created"})
    /\ open' = open \ {c}
    /\ IF remote[c] = "created" THEN Report(c, "expired") ELSE UNCHANGED provider
    /\ UNCHANGED <<st, linked, shown, call, company, jobs>>

-----------------------------------------------------------------------------
(* What the company's rows become by what the provider said. *)

\* Mutant: a checkout is adopted whatever the company already pays for.
AdoptAnyway(c, status, at) ==
    IF st[c] = "authorised" \/ status = "created" THEN UNCHANGED <<st, company>>
    ELSE IF status \in Ended THEN Becomes(c, "failed") /\ UNCHANGED company
    ELSE /\ Becomes(c, "authorised")
         /\ plan' = c /\ local' = Mapped(status) /\ cancelling' = "none"
         /\ watermark' = IF at > watermark THEN at ELSE watermark

\* Mutant: a second paid subscription is only noted as a failure.
FailDuplicate(c, status, at) ==
    IF st[c] = "authorised" \/ status = "created" THEN UNCHANGED <<st, company>>
    ELSE IF status \in Ended \/ plan \notin {None, c} THEN Becomes(c, "failed") /\ UNCHANGED company
    ELSE /\ Becomes(c, "authorised")
         /\ plan' = c /\ local' = Mapped(status) /\ cancelling' = "none"
         /\ watermark' = IF at > watermark THEN at ELSE watermark

\* A locked session meets what the provider said of its subscription.  A second
\* paid subscription is to be cancelled; a fetch moves no watermark (at = 0).
ApplyCheckoutEntity(c, status, at) ==
    IF st[c] = "authorised" \/ status = "created" THEN UNCHANGED <<st, company>>
    ELSE IF status \in Ended THEN Becomes(c, "failed") /\ UNCHANGED company
    ELSE IF plan \notin {None, c} THEN Becomes(c, "cancel_pending") /\ UNCHANGED company
    ELSE /\ Becomes(c, "authorised")
         /\ plan' = c /\ local' = Mapped(status) /\ cancelling' = "none"
         /\ watermark' = IF at > watermark THEN at ELSE watermark

\* Mutant: the company keeps the status of the subscription that ended.
RevertPlanOnly == plan' = None /\ cancelling' = "none" /\ UNCHANGED <<local, watermark>>

RevertToFree == plan' = None /\ local' = "free" /\ cancelling' = "none" /\ UNCHANGED watermark

\* The current subscription: an event older than the last one applied is ignored.
ApplySubscriptionEntity(c, status, at) ==
    IF plan # c \/ (at # 0 /\ at < watermark) THEN UNCHANGED company
    ELSE IF status \in Ended THEN RevertToFree
    ELSE /\ local' = Mapped(status)
         /\ watermark' = IF at > watermark THEN at ELSE watermark
         /\ UNCHANGED <<plan, cancelling>>

-----------------------------------------------------------------------------
(* Jobs. *)

\* Nobody asks whether an authorised session has expired.
NoMoreExpiry(c) == open' = IF st'[c] = "authorised" THEN open \ {c} ELSE open

Begin(j, t) == task' = [task EXCEPT ![j] = t]
Ends(j) == Begin(j, Idle)
Free(j) == At(j, "nothing") /\ Cardinality({k \in Jobs : ~At(k, "nothing")}) < MaxJobs

\* What is due for a session.
Due(c) ==
    CASE st[c] \in Creating /\ call[c] = "none" -> "search"
      [] st[c] = "verifying" -> "verify"
      [] st[c] = "created" /\ c \notin open -> "expiry"
      [] st[c] = "cancel_pending" -> IF linked[c] THEN "cancel" ELSE "trace"
      [] OTHER -> "nothing"

\* The session is read and the provider asked; the lease keeps other workers off
\* meanwhile.  What changes after the answer makes it old.
RecoverCheckoutSession(c) ==
    /\ Free(<<"recover", c>>) /\ Due(c) # "nothing"
    /\ Begin(<<"recover", c>>, [does |-> Due(c), saw |-> remote[c], at |-> 0,
                                read |-> Due(c) = "search" /\ c \in open])
    /\ UNCHANGED <<st, linked, company, provider, browser, failures>>

\* The event is locked, and its target looked up.
ResolveTarget(c) ==
    /\ Free(<<"event", c>>)
    /\ \E e \in events :
           /\ e.c = c
           /\ Begin(<<"event", c>>, [does |-> "apply", saw |-> e.is, at |-> e.at, read |-> plan = c])
    /\ UNCHANGED <<st, linked, company, provider, browser, failures>>

\* Mutant: only a company in good standing is refreshed.
RefreshWhileActive(c) ==
    /\ Free(<<"refresh", c>>) /\ plan = c /\ local = "active"
    /\ Begin(<<"refresh", c>>, [Idle EXCEPT !.does = "refresh", !.saw = remote[c]])
    /\ UNCHANGED <<st, linked, company, provider, browser, failures>>

ReconcileSubscription(c) ==
    /\ Free(<<"refresh", c>>) /\ plan = c
    /\ Begin(<<"refresh", c>>, [Idle EXCEPT !.does = "refresh", !.saw = remote[c]])
    /\ UNCHANGED <<st, linked, company, provider, browser, failures>>

\* Nothing was created: tried again, or given up after some attempts.
NotFound(c) ==
    LET j == <<"recover", c>> IN
    /\ task[j].does \in {"search", "trace"} /\ task[j].saw = "absent"
    /\ \/ UNCHANGED st
       \/ Becomes(c, IF At(j, "search") THEN "failed_before_provider" ELSE "cancelled")
    /\ Ends(j)
    /\ UNCHANGED <<linked, company, provider, browser, failures>>

\* Found: it can still be paid, or is to be cancelled.
LinkFound(c) ==
    LET j == <<"recover", c>> IN
    /\ At(j, "search") /\ task[j].saw # "absent"
    /\ IF task[j].read
       THEN IF st[c] \in Creating
            THEN Becomes(c, "created") /\ linked' = [linked EXCEPT ![c] = TRUE]
            ELSE UNCHANGED <<st, linked>>
       ELSE Becomes(c, "cancel_pending") /\ linked' = [linked EXCEPT ![c] = TRUE]
    /\ Ends(j)
    /\ UNCHANGED <<company, provider, browser, failures>>

TraceFound(c) ==
    LET j == <<"recover", c>> IN
    /\ At(j, "trace") /\ task[j].saw # "absent"
    /\ linked' = [linked EXCEPT ![c] = TRUE]
    /\ Begin(j, [task[j] EXCEPT !.does = "cancel", !.saw = remote[c]])
    /\ UNCHANGED <<st, company, provider, browser, failures>>

VerifyCheckout(c) ==
    LET j == <<"recover", c>> IN
    /\ At(j, "verify")
    /\ ApplyCheckoutEntity(c, task[j].saw, 0)
    /\ Ends(j)
    /\ NoMoreExpiry(c)
    /\ UNCHANGED <<linked, provider, shown, call, failures>>

\* Expired without a callback: the customer may still have paid.
ExpireCheckout(c) ==
    LET j == <<"recover", c>> IN
    /\ At(j, "expiry")
    /\ IF task[j].saw \in Paying
       THEN ApplyCheckoutEntity(c, task[j].saw, 0)
       ELSE Becomes(c, IF st[c] = "created" THEN "expired" ELSE st[c]) /\ UNCHANGED company
    /\ Ends(j)
    /\ NoMoreExpiry(c)
    /\ UNCHANGED <<linked, provider, shown, call, failures>>

\* To be cancelled: not if it is what the company pays for by now.
DecideCancellation(c) ==
    LET j == <<"recover", c>> IN
    /\ At(j, "cancel")
    /\ IF task[j].saw \in Paying
       THEN IF plan = c
            THEN Becomes(c, "authorised") /\ Ends(j)
            ELSE Begin(j, [Idle EXCEPT !.does = "stop"]) /\ UNCHANGED st
       ELSE Becomes(c, "cancelled") /\ Ends(j)
    /\ NoMoreExpiry(c)
    /\ UNCHANGED <<linked, company, provider, shown, call, failures>>

\* The provider cancels what runs, and rejects the request for anything else.
CancelSubscription(c) ==
    LET j == <<"recover", c>> IN
    /\ At(j, "stop")
    /\ IF remote[c] = "active"
       THEN Report(c, "cancelled") /\ Begin(j, [Idle EXCEPT !.does = "close"])
       ELSE Ends(j) /\ UNCHANGED provider
    /\ UNCHANGED <<st, linked, company, browser, failures>>

\* The session is closed, whatever became of it since it was read.
CloseCancelled(c) ==
    LET j == <<"recover", c>> IN
    /\ At(j, "close")
    /\ Becomes(c, "cancelled")
    /\ Ends(j)
    /\ UNCHANGED <<linked, company, provider, browser, failures>>

\* An event of a subscription that was not the company's when it was looked up.
\* One nobody has linked is recognised by the notes the session put on it.
ApplyToSession(c, status, at) ==
    LET known == linked[c] \/ st[c] \in Creating \cup {"cancel_pending"} IN
    /\ linked' = [linked EXCEPT ![c] = known]
    /\ IF ~known THEN UNCHANGED <<st, company>>
       ELSE IF status \in Ended
            THEN Becomes(c, IF st[c] = "authorised" THEN st[c] ELSE "cancelled") /\ UNCHANGED company
       ELSE IF st[c] \in {"cancelled", "cancel_pending"}
            THEN Becomes(c, "cancel_pending") /\ UNCHANGED company
       ELSE ApplyCheckoutEntity(c, status, at)

ApplyWebhookEvent(c) ==
    LET j == <<"event", c>>  t == task[j] IN
    /\ At(j, "apply")
    /\ IF t.read
       THEN ApplySubscriptionEntity(c, t.saw, t.at) /\ UNCHANGED <<st, linked>>
       ELSE ApplyToSession(c, t.saw, t.at)
    /\ events' = events \ {[c |-> c, is |-> t.saw, at |-> t.at]}
    /\ Ends(j)
    /\ NoMoreExpiry(c)
    /\ UNCHANGED <<remote, ending, overtaken, shown, call, failures>>

ApplyReconciliation(c) ==
    LET j == <<"refresh", c>> IN
    /\ At(j, "refresh")
    /\ ApplySubscriptionEntity(c, task[j].saw, 0)
    /\ Ends(j)
    /\ UNCHANGED <<st, linked, provider, browser, failures>>

-----------------------------------------------------------------------------
(* The cancellation at the end of the period.                              *)

Reads(state) == cancelling' = state /\ UNCHANGED <<plan, local, watermark>>
GivesUp == IF cancelling = "pending" THEN Reads("none") ELSE UNCHANGED company

\* The provider accepts a cancellation of what runs, and rejects any other.  The
\* worker then asks whether it is over, as an earlier request may have been heard.
Ask(c, byWorker) ==
    LET heard == remote[c] = "active" \/ (byWorker /\ remote[c] \in Ended) IN
    /\ ending' = IF remote[c] = "active" THEN ending \cup {c} ELSE ending
    /\ IF heard
       THEN Begin(<<"cancel", c>>, [Idle EXCEPT !.does = "schedule", !.saw = remote[c], !.read = byWorker])
       ELSE UNCHANGED task
    /\ Reads(IF heard THEN "pending" ELSE "none")

\* The user's request: noted, and sent at once if the process lives that long.
CancelPaidSubscription(c) ==
    /\ plan = c /\ local = "active" /\ cancelling = "none"
    /\ \A d \in Checkouts : Free(<<"cancel", d>>)
    /\ \/ Ask(c, FALSE) /\ UNCHANGED failures
       \/ Fails /\ Reads("pending") /\ UNCHANGED <<ending, task>>
    /\ UNCHANGED <<st, linked, remote, events, overtaken, browser>>

\* The worker sends it again.
RecoverCancellation(c) ==
    /\ plan = c /\ cancelling = "pending"
    /\ \A d \in Checkouts : Free(<<"cancel", d>>)
    /\ Ask(c, TRUE)
    /\ UNCHANGED <<st, linked, remote, events, overtaken, browser, failures>>

\* Mutant: the answer is written down whatever became of the plan meanwhile.
ScheduleAnyway(c) ==
    LET j == <<"cancel", c>> IN
    /\ At(j, "schedule")
    /\ IF task[j].saw \in Ended THEN RevertToFree ELSE Reads("scheduled")
    /\ Ends(j)
    /\ UNCHANGED <<st, linked, provider, browser, failures>>

FinalizeCancellation(c) ==
    LET j == <<"cancel", c>> IN
    /\ At(j, "schedule")
    /\ IF cancelling # "pending" THEN UNCHANGED company
       ELSE IF task[j].saw \in Ended THEN RevertToFree ELSE Reads("scheduled")
    /\ Ends(j)
    /\ UNCHANGED <<st, linked, provider, browser, failures>>

\* No answer to the last attempt of the worker, whether the provider was reached or
\* not.  All it tried in vain is one failure with the one that left it to the worker.
FailCancellation(c) ==
    LET j == <<"cancel", c>> IN
    /\ plan = c /\ cancelling = "pending"
    /\ \/ At(j, "schedule") /\ task[j].read
       \/ \A d \in Checkouts : Free(<<"cancel", d>>)
    /\ GivesUp
    /\ Ends(j)
    /\ UNCHANGED <<st, linked, provider, browser, failures>>

-----------------------------------------------------------------------------
\* The provider cannot be reached, an answer is lost or the worker dies: what is
\* due stays due, and an event is claimed again.
JobFails(j) ==
    /\ ~At(j, "nothing") /\ Fails
    /\ Ends(j)
    /\ UNCHANGED <<st, linked, company, provider, browser>>

-----------------------------------------------------------------------------
CallStep(c) ==
    \/ CreateSubscription(c) \/ CreateRejected(c) \/ CreateUnanswered(c) \/ WebProcessDies(c)
    \/ LinkProviderSubscription(c)

Customer(c) ==
    \/ StartSeatCheckout(c) \/ ReuseCheckout(c) \/ ConfirmSeatCheckout(c) \/ Pay(c)
    \/ CancelPaidSubscription(c)

Provider(c) ==
    \/ ChargeFails(c) \/ ChargeSettles(c) \/ SubscriptionEnds(c) \/ PeriodEnds(c)
    \/ Renew(c) \/ Expire(c)

Recover(c) ==
    \/ RecoverCheckoutSession(c) \/ NotFound(c) \/ LinkFound(c)
    \/ TraceFound(c) \/ VerifyCheckout(c) \/ ExpireCheckout(c) \/ DecideCancellation(c)
    \/ CancelSubscription(c) \/ CloseCancelled(c)

Process(c) == ResolveTarget(c) \/ ApplyWebhookEvent(c)

Refresh(c) ==
    ReconcileSubscription(c) \/ ApplyReconciliation(c)

Cancel(c) ==
    RecoverCancellation(c) \/ FinalizeCancellation(c)

Next ==
    \/ \E c \in Checkouts :
           \/ CallStep(c) \/ Customer(c) \/ Provider(c)
           \/ Recover(c) \/ Process(c) \/ Refresh(c) \/ Cancel(c)
    \/ \E c \in Checkouts : FailCancellation(c)
    \/ \E j \in Jobs : JobFails(j)

Spec == Init /\ [][Next]_vars

\* Maintenance comes round to whatever is due, checkouts expire, and a charge in
\* trouble is settled.  Nobody has to report a subscription again.
FairSpec ==
    /\ Spec
    /\ \A c \in Checkouts : SF_vars(Recover(c))
    /\ SF_vars(\E c \in Checkouts : Process(c))
    /\ SF_vars(\E c \in Checkouts : Refresh(c))
    /\ SF_vars(\E c \in Checkouts : Cancel(c))
    /\ SF_vars(\E c \in Checkouts : ChargeSettles(c) \/ PeriodEnds(c))
    /\ WF_vars(\E c \in Checkouts : CallStep(c))
    /\ WF_vars(\E c \in Checkouts : Expire(c))

-----------------------------------------------------------------------------
(* Properties. *)

Statuses == {"none", "provider_creating", "provider_link_pending", "created", "verifying",
             "authorised", "cancel_pending", "failed_before_provider", "failed", "expired", "cancelled"}
RemoteStatuses == {"absent", "created"} \cup Paying \cup Ended

\* Every variable keeps its type, and a paid status goes with a paid plan.
TypeOK ==
    /\ st \in [Checkouts -> Statuses]
    /\ linked \in [Checkouts -> BOOLEAN]
    /\ open \subseteq Checkouts /\ shown \subseteq Checkouts
    /\ call \in [Checkouts -> {"none", "create", "link"}]
    /\ plan \in Checkouts \cup {None}
    /\ local \in {"free", "active", "past_due"} /\ (local = "free" <=> plan = None)
    /\ watermark \in Nat
    /\ cancelling \in {"none", "pending", "scheduled"} /\ (plan = None => cancelling = "none")
    /\ remote \in [Checkouts -> RemoteStatuses]
    /\ ending \subseteq Checkouts
    /\ events \subseteq [c : Checkouts, is : RemoteStatuses, at : Nat]
    /\ task \in [Jobs -> [does : {"nothing", "search", "trace", "verify", "expiry", "cancel", "stop",
                                  "close", "apply", "refresh", "schedule"},
                          saw : RemoteStatuses \cup {"none"}, at : Nat, read : BOOLEAN]]
    /\ failures \in 0 .. MaxFailures
    /\ overtaken \subseteq Checkouts

\* No customer is left paying for what he did not get: a subscription that runs
\* becomes the company's, or is cancelled, however its checkout was interrupted,
\* unless it was paid after the job that was to cancel it had seen it unpaid.  That
\* one is closed as cancelled, and runs on.
EveryMandateResolved ==
    \A c \in Checkouts :
        remote[c] \in Paying ~> (remote[c] \notin Paying \/ plan = c \/ c \in overtaken)

\* What the company is granted follows the provider in the end, as the daily fetch
\* corrects what stale answers and reports that changed places left, its own stale
\* answers included, and no cancellation is left without an outcome.
Follows ==
    /\ IF plan = None THEN local = "free" ELSE local = Mapped(remote[plan])
    /\ cancelling # "pending"
FollowsProvider == <>[]Follows

Plan == INSTANCE PlanContract WITH
    mandate <- [c \in Checkouts |-> IF remote[c] \in Paying
                                    THEN IF c \in ending THEN "last period" ELSE "given"
                                    ELSE IF remote[c] = "cancelled" THEN "ended" ELSE "none"],
    told <- cancelling = "scheduled"

\* The company is on a paid plan by one mandate at a time, and until that is over;
\* it is told that the plan ends only when the provider will not charge it again.
KeepsPlan == Plan!Spec
=============================================================================

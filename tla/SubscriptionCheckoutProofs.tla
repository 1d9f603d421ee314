--------------------- MODULE SubscriptionCheckoutProofs ---------------------
(***************************************************************************)
(* Theorems about SubscriptionCheckout, for any number of checkouts, jobs, *)
(* failures and reports on their way.                                      *)
(***************************************************************************)
EXTENDS SubscriptionCheckout, WellFoundedInduction, TLAPS

Kinds == {"recover", "event", "refresh", "cancel"}
Works == {"nothing", "search", "trace", "verify", "expiry", "cancel", "stop", "close",
          "apply", "refresh", "schedule"}
Tasks == [does : Works, saw : RemoteStatuses \cup {"none"}, at : Nat, read : BOOLEAN]

\* The subscription has been paid for, once at least.
Paid == Paying \cup {"cancelled"}

-----------------------------------------------------------------------------
(* The latest time: a maximum, which a bounded set of numbers has.         *)

\* The least-number principle, for sets.
LEMMA LeastNatural ==
  ASSUME NEW T \in SUBSET Nat, T # {}
  PROVE  \E x \in T : \A y \in T : x <= y
<1> DEFINE R == OpToRel(<, Nat)
<1>1. IsWellFoundedOn(R, Nat)
  BY NatLessThanWellFounded
<1>2. \A x, y \in Nat : <<y, x>> \in R <=> y < x
  BY DEF OpToRel
<1> HIDE DEF R
<1>3. PICK x \in T : \A y \in T : ~(<<y, x>> \in R)
  BY <1>1, WFMin
<1>4. \A y \in T : x \in Nat /\ y \in Nat /\ ~(y < x)
  BY <1>2, <1>3
<1> QED
  BY <1>4

\* Max is what its name says for a set that is bounded: the least upper bound is in it.
LEMMA MaxOfBounded ==
  ASSUME NEW S \in SUBSET Nat, S # {}, NEW b \in Nat, \A x \in S : x <= b
  PROVE  Max(S) \in S /\ \A x \in S : Max(S) >= x
<1> DEFINE U == {n \in Nat : \A x \in S : x <= n}
<1>1. PICK m \in U : \A n \in U : m <= n
  <2> U \in SUBSET Nat /\ b \in U
    OBVIOUS
  <2> HIDE DEF U
  <2> QED
    BY LeastNatural
<1>2. m \in S
  <2> SUFFICES ASSUME m \notin S PROVE FALSE
    OBVIOUS
  <2>1. \A x \in S : x <= m - 1 /\ x < m
    BY <1>1
  <2>2. PICK x \in S : x < m
    BY <2>1
  <2>3. m \in Nat /\ x \in Nat
    OBVIOUS
  <2>4. m - 1 \in Nat
    BY <2>2, <2>3
  <2>5. m - 1 \in U
    BY <2>1, <2>4
  <2> QED
    BY <1>1, <2>5
<1>3. \E x \in S : \A y \in S : x >= y
  BY <1>1, <1>2
<1> QED
  BY <1>3 DEF Max

\* There is a last report, though any number may be on their way.
ReportsBounded == \E b \in Nat : \A e \in events : e.at <= b

\* A report is made at a time, which is a number.
LEMMA LatestIsTime ==
  ASSUME TypeOK, ReportsBounded
  PROVE  Latest \in Nat
<1> DEFINE Times == {watermark} \cup {e.at : e \in events}
<1>1. PICK b \in Nat : \A e \in events : e.at <= b
  BY DEF ReportsBounded
<1>2. \A e \in events : e.at \in Nat
  BY DEF TypeOK
<1>3. watermark \in Nat
  BY DEF TypeOK
<1>4. Times \in SUBSET Nat /\ Times # {}
  BY <1>2, <1>3
<1>5. PICK B \in Nat : b <= B /\ watermark <= B
  <2>1. CASE b <= watermark
    BY <1>3, <2>1
  <2>2. CASE watermark <= b
    BY <2>2
  <2> QED
    BY <1>3, <2>1, <2>2
<1>6. \A x \in Times : x <= B
  BY <1>1, <1>2, <1>3, <1>5
<1> HIDE DEF Times
<1>7. Max(Times) \in Nat
  BY <1>4, <1>6, MaxOfBounded
<1> QED
  BY <1>7 DEF Latest, Times

-----------------------------------------------------------------------------
(* The inductive invariant. *)

\* What anybody was told of a subscription was so, and bears on what it is now: once
\* paid it is never unpaid again, what has ended stays as it ended.
Told(c, status) ==
    /\ status \in Paying => remote[c] \in Paid
    /\ status \in Ended => remote[c] = status
    /\ status = "created" => remote[c] # "absent"

ReportsTold == \A e \in events : e.is \in Paying \cup Ended /\ Told(e.c, e.is)
AnswersTold == \A k \in Kinds, c \in Checkouts : Told(c, task[<<k, c>>].saw)

\* Each kind of job does its own work, and what is applied is an answer that can be.
WorkOfJobs ==
    \A c \in Checkouts :
        /\ task[<<"event", c>>].does \in {"nothing", "apply"}
        /\ task[<<"refresh", c>>].does \in {"nothing", "refresh"}
        /\ task[<<"cancel", c>>].does \in {"nothing", "schedule"}
        /\ task[<<"recover", c>>].does \notin {"apply", "refresh", "schedule"}
        /\ task[<<"recover", c>>].does = "verify" => task[<<"recover", c>>].saw \in Paid
        /\ task[<<"event", c>>].does = "apply" => task[<<"event", c>>].saw \in Paying \cup Ended
        /\ task[<<"refresh", c>>].does = "refresh" => task[<<"refresh", c>>].saw \in Paid

\* How far a checkout has come: what its session, the request for its subscription,
\* the browser, the provider and the worker that looks after it have in common.
SessionOK(c) ==
    /\ st[c] = "none" =>
          /\ remote[c] = "absent" /\ call[c] = "none" /\ c \notin shown
          /\ task[<<"recover", c>>].does = "nothing"
    /\ call[c] # "none" => st[c] = "provider_creating"
    /\ call[c] = "create" => remote[c] = "absent"
    /\ call[c] = "link" => remote[c] = "created"
    /\ st[c] \in Creating => c \notin shown
    /\ c \notin shown => remote[c] \notin Paid
    /\ st[c] = "verifying" => remote[c] \in Paid
    /\ task[<<"recover", c>>].does = "search" =>
          st[c] \in Creating \cup {"cancel_pending", "cancelled"} /\ call[c] = "none"
    /\ task[<<"recover", c>>].does \in {"verify", "expiry"} => st[c] \notin Creating
    /\ task[<<"recover", c>>].does \in {"trace", "cancel", "stop", "close"} =>
          st[c] \in {"cancel_pending", "cancelled"}

SessionsOK == \A c \in Checkouts : SessionOK(c)

\* The plan rests on a checkout that was authorised, and paid.
PlanAuthorised == plan # None => st[plan] = "authorised" /\ remote[plan] \in Paid

\* Only what runs is going to end.
EndingRuns == \A c \in ending : remote[c] \in Paying

\* The answer to a cancellation that is still wanted is about the company's own
\* subscription, which will not be charged again.
ScheduleOK ==
    \A c \in Checkouts : task[<<"cancel", c>>].does = "schedule" =>
        /\ cancelling = "pending" => plan = c
        /\ c \in ending \/ remote[c] = "cancelled"

\* The company is told that its plan ends when the provider knows it, too.
ToldEnds ==
    cancelling = "scheduled" => plan # None /\ (plan \in ending \/ remote[plan] = "cancelled")

Inv ==
    /\ TypeOK
    /\ ReportsBounded
    /\ ReportsTold
    /\ AnswersTold
    /\ WorkOfJobs
    /\ SessionsOK
    /\ PlanAuthorised
    /\ EndingRuns
    /\ ScheduleOK
    /\ ToldEnds

\* The absent checkout is none of the checkouts.
LEMMA NoneIsNone == None \notin Checkouts
BY BoundsOK DEF None, Checkouts

\* A job is a kind of work and the checkout it is about.
LEMMA JobsAre ==
  /\ \A k \in Kinds, c \in Checkouts : <<k, c>> \in Jobs
  /\ \A j \in Jobs : \E k \in Kinds, c \in Checkouts : j = <<k, c>>
BY DEF Jobs, Kinds

\* A company that never checked out satisfies the invariant.
LEMMA InvInit == Init => Inv
<1> SUFFICES ASSUME Init PROVE Inv
  OBVIOUS
<1> USE NoneIsNone, JobsAre DEF Init, Idle
<1>1. TypeOK
  <2>1. Idle \in Tasks
    BY DEF Tasks, Works
  <2>2. task \in [Jobs -> Tasks]
    BY <2>1
  <2>3. failures \in 0 .. MaxFailures
    BY BoundsOK
  <2> QED
    BY <2>2, <2>3 DEF TypeOK, Statuses, RemoteStatuses, Tasks, Works
<1>2. task \in [Jobs -> {Idle}]
  OBVIOUS
<1>3. \A k \in Kinds, c \in Checkouts : task[<<k, c>>].does = "nothing" /\ task[<<k, c>>].saw = "none"
  BY <1>2
<1>4. ReportsBounded /\ ReportsTold
  BY DEF ReportsBounded, ReportsTold
<1>5. AnswersTold
  BY <1>3 DEF AnswersTold, Told, Paying, Ended
<1>6. WorkOfJobs /\ ScheduleOK
  BY <1>3 DEF WorkOfJobs, ScheduleOK, Kinds
<1>7. SessionsOK
  BY <1>3 DEF SessionsOK, SessionOK, Creating, Paid, Paying, Kinds
<1>8. PlanAuthorised /\ EndingRuns /\ ToldEnds
  BY DEF PlanAuthorised, EndingRuns, ToldEnds
<1> QED
  BY <1>1, <1>4, <1>5, <1>6, <1>7, <1>8 DEF Inv

-----------------------------------------------------------------------------
(* What a step does to the company's rows, and to a subscription. *)

PaidLocals == {"active", "past_due"}

\* The company is put on the plan it paid for ...
Subscribes(c) ==
    /\ plan = None /\ remote[c] \in Paid
    /\ plan' = c /\ local' \in PaidLocals /\ watermark' \in Nat
    /\ cancelling = "none" /\ cancelling' = "none"
    /\ st' = [st EXCEPT ![c] = "authorised"]

\* ... or back on the free one ...
Reverts ==
    /\ plan # None /\ remote[plan] = "cancelled"
    /\ plan' = None /\ local' = "free" /\ cancelling' = "none" /\ UNCHANGED watermark

\* ... or the status of its plan is brought up to date ...
Refreshes ==
    /\ plan # None
    /\ local' \in PaidLocals /\ watermark' \in Nat /\ UNCHANGED <<plan, cancelling>>

\* ... or its cancellation comes a step further.
Cancels ==
    /\ plan # None /\ cancelling \in {"none", "pending"}
    /\ cancelling' \in {"none", "pending", "scheduled"}
    /\ cancelling' = "scheduled" => plan \in ending \/ remote[plan] = "cancelled"
    /\ UNCHANGED <<plan, local, watermark>>

Shelved == {"failed", "cancel_pending"}

\* A locked session that meets a paid subscription: the company is subscribed to it
\* if it is on the free plan, and the session is shelved if it is not.
LEMMA Adopting ==
  ASSUME Inv, NEW c \in Checkouts, NEW status \in Paying \cup Ended, NEW at \in Nat,
         Told(c, status), ApplyCheckoutEntity(c, status, at)
  PROVE  \/ UNCHANGED <<st, company>>
         \/ /\ UNCHANGED company /\ st[c] # "authorised"
            /\ \E s \in Shelved : st' = [st EXCEPT ![c] = s]
         \/ Subscribes(c)
<1> USE DEF Inv
<1>1. CASE st[c] = "authorised" \/ status = "created"
  BY <1>1 DEF ApplyCheckoutEntity
<1>2. CASE st[c] # "authorised" /\ status \in Ended
  BY <1>2 DEF ApplyCheckoutEntity, Becomes, Shelved, Ended
<1>3. CASE st[c] # "authorised" /\ status \notin Ended /\ plan \notin {None, c}
  BY <1>3 DEF ApplyCheckoutEntity, Becomes, Shelved, Paying
<1>4. CASE st[c] # "authorised" /\ status \notin Ended /\ plan \in {None, c}
  <2>1. plan = None
    BY <1>4, NoneIsNone DEF PlanAuthorised
  <2>2. cancelling = "none" /\ remote[c] \in Paid
    BY <1>4, <2>1 DEF TypeOK, Told
  <2>3. /\ Becomes(c, "authorised")
        /\ plan' = c /\ local' = Mapped(status) /\ cancelling' = "none"
        /\ watermark' = IF at > watermark THEN at ELSE watermark
    BY <1>4 DEF ApplyCheckoutEntity, Paying
  <2>4. watermark' \in Nat /\ local' \in PaidLocals
    BY <1>4, <2>3 DEF TypeOK, Mapped, Paying, PaidLocals
  <2> QED
    BY <2>1, <2>2, <2>3, <2>4 DEF Subscribes, Becomes
<1> QED
  BY <1>1, <1>2, <1>3, <1>4

\* What is told of the current subscription refreshes it, or ends it.
LEMMA Applying ==
  ASSUME Inv, NEW c \in Checkouts, NEW status \in Paying \cup Ended, NEW at \in Nat,
         Told(c, status), ApplySubscriptionEntity(c, status, at)
  PROVE  UNCHANGED company \/ Reverts \/ Refreshes
<1> USE DEF Inv
<1>1. CASE plan # c \/ (at # 0 /\ at < watermark)
  BY <1>1 DEF ApplySubscriptionEntity
<1>2. CASE plan = c /\ ~(at # 0 /\ at < watermark) /\ status \in Ended
  <2>1. plan # None
    BY <1>2, NoneIsNone
  <2>2. remote[plan] = "cancelled"
    BY <1>2, <2>1 DEF PlanAuthorised, Told, Paid, Paying, Ended
  <2>3. RevertToFree
    BY <1>2 DEF ApplySubscriptionEntity
  <2> QED
    BY <2>1, <2>2, <2>3 DEF RevertToFree, Reverts
<1>3. CASE plan = c /\ ~(at # 0 /\ at < watermark) /\ status \notin Ended
  <2>1. plan # None
    BY <1>3, NoneIsNone
  <2>2. /\ local' = Mapped(status)
        /\ watermark' = IF at > watermark THEN at ELSE watermark
        /\ UNCHANGED <<plan, cancelling>>
    BY <1>3 DEF ApplySubscriptionEntity
  <2>3. watermark' \in Nat /\ local' \in PaidLocals
    BY <1>3, <2>2 DEF TypeOK, Mapped, Paying, PaidLocals
  <2> QED
    BY <2>1, <2>2, <2>3 DEF Refreshes
<1> QED
  BY <1>1, <1>2, <1>3

\* A webhook event that meets the session of its subscription.
LEMMA Resolving ==
  ASSUME Inv, NEW c \in Checkouts, NEW status \in Paying \cup Ended, NEW at \in Nat,
         Told(c, status), ApplyToSession(c, status, at)
  PROVE  /\ linked' \in [Checkouts -> BOOLEAN]
         /\ \/ UNCHANGED <<st, company>>
            \/ /\ UNCHANGED company /\ st[c] # "authorised" /\ st[c] # "none"
               /\ \E s \in Shelved \cup {"cancelled"} : st' = [st EXCEPT ![c] = s]
               /\ st[c] \in Creating \cup {"cancel_pending", "cancelled"} =>
                     st'[c] \in {"cancel_pending", "cancelled"}
            \/ Subscribes(c) /\ st[c] \notin Creating \cup {"none", "cancel_pending", "cancelled"}
<1> USE DEF Inv
<1> DEFINE known == linked[c] \/ st[c] \in Creating \cup {"cancel_pending"}
<1>0. linked' \in [Checkouts -> BOOLEAN]
  <2>1. known \in BOOLEAN
    OBVIOUS
  <2>2. linked' = [linked EXCEPT ![c] = known]
    BY DEF ApplyToSession
  <2> HIDE DEF known
  <2> QED
    BY <2>1, <2>2 DEF TypeOK
<1>s. st[c] # "none" /\ (st[c] \in Creating => status \in Ended)
  BY DEF SessionsOK, SessionOK, Told, Paid, Paying, Ended
<1>1. CASE ~known
  BY <1>0, <1>1 DEF ApplyToSession
<1>2. CASE known /\ status \in Ended
  <2>1. /\ Becomes(c, IF st[c] = "authorised" THEN st[c] ELSE "cancelled")
        /\ UNCHANGED company
    BY <1>2 DEF ApplyToSession
  <2>2. st' = st \/ (st[c] # "authorised" /\ st' = [st EXCEPT ![c] = "cancelled"])
    BY <2>1 DEF Becomes, TypeOK
  <2> QED
    BY <1>0, <1>s, <2>1, <2>2 DEF TypeOK
<1>3. CASE known /\ status \notin Ended /\ st[c] \in {"cancelled", "cancel_pending"}
  <2>1. Becomes(c, "cancel_pending") /\ UNCHANGED company
    BY <1>3 DEF ApplyToSession
  <2> QED
    BY <1>0, <1>3, <2>1 DEF Becomes, TypeOK, Shelved
<1>4. CASE known /\ status \notin Ended /\ st[c] \notin {"cancelled", "cancel_pending"}
  <2>1. ApplyCheckoutEntity(c, status, at)
    BY <1>4 DEF ApplyToSession
  <2> QED
    BY <1>0, <1>s, <1>4, <2>1, Adopting DEF TypeOK, Shelved
<1> QED
  BY <1>1, <1>2, <1>3, <1>4


\* What a job was told, when it comes to act on it.
LEMMA Answers ==
  ASSUME Inv, NEW c \in Checkouts
  PROVE  /\ \A k \in Kinds : /\ <<k, c>> \in Jobs
                             /\ task[<<k, c>>] \in Tasks
                             /\ Told(c, task[<<k, c>>].saw)
         /\ At(<<"recover", c>>, "verify") => task[<<"recover", c>>].saw \in Paying \cup Ended
         /\ At(<<"event", c>>, "apply") => task[<<"event", c>>].saw \in Paying \cup Ended
         /\ At(<<"refresh", c>>, "refresh") => task[<<"refresh", c>>].saw \in Paying \cup Ended
<1>1. task \in [Jobs -> Tasks]
  BY DEF Inv, TypeOK, Tasks, Works
<1> QED
  BY <1>1, JobsAre DEF Inv, AnswersTold, WorkOfJobs, At, Paid, Ended, Paying

\* The cancellation's request: the provider knows it when the company notes it.
LEMMA Asking ==
  ASSUME Inv, NEW c \in Checkouts, NEW byWorker \in BOOLEAN, Ask(c, byWorker),
         plan = c, cancelling \in {"none", "pending"}
  PROVE  Cancels
<1>1. plan # None
  BY NoneIsNone
<1>2. cancelling' \in {"none", "pending"} /\ UNCHANGED <<plan, local, watermark>>
  BY DEF Ask, Reads
<1> QED
  BY <1>1, <1>2 DEF Cancels

\* Every step leaves the company's rows, or moves them in one of four ways.
LEMMA CompanyStep ==
  ASSUME Inv, [Next]_vars
  PROVE  \/ UNCHANGED company
         \/ (\E c \in Checkouts : Subscribes(c)) \/ Reverts \/ Refreshes
         \/ Cancels
<1> DEFINE Goal == \/ UNCHANGED company
                   \/ (\E c \in Checkouts : Subscribes(c)) \/ Reverts \/ Refreshes
                   \/ Cancels
<1>1. ASSUME NEW c \in Checkouts, VerifyCheckout(c) \/ ExpireCheckout(c) PROVE Goal
  <2>1. CASE ApplyCheckoutEntity(c, task[<<"recover", c>>].saw, 0)
             /\ task[<<"recover", c>>].saw \in Paying \cup Ended
    BY <2>1, Answers, Adopting DEF Kinds
  <2>2. CASE UNCHANGED company
    BY <2>2
  <2> QED
    BY <1>1, <2>1, <2>2, Answers DEF VerifyCheckout, ExpireCheckout
<1>2. ASSUME NEW c \in Checkouts, ApplyWebhookEvent(c) PROVE Goal
  <2> DEFINE t == task[<<"event", c>>]
  <2>1. t \in Tasks /\ t.at \in Nat /\ t.saw \in Paying \cup Ended /\ Told(c, t.saw)
    BY <1>2, Answers DEF ApplyWebhookEvent, Kinds, Tasks
  <2>2. ApplySubscriptionEntity(c, t.saw, t.at) \/ ApplyToSession(c, t.saw, t.at)
    BY <1>2 DEF ApplyWebhookEvent
  <2> HIDE DEF t
  <2> QED
    BY <2>1, <2>2, Applying, Resolving
<1>3. ASSUME NEW c \in Checkouts, ApplyReconciliation(c) PROVE Goal
  <2>1. /\ ApplySubscriptionEntity(c, task[<<"refresh", c>>].saw, 0)
        /\ task[<<"refresh", c>>].saw \in Paying \cup Ended
        /\ Told(c, task[<<"refresh", c>>].saw)
    BY <1>3, Answers DEF ApplyReconciliation, Kinds
  <2> QED
    BY <2>1, Applying
<1>4. ASSUME NEW c \in Checkouts, CancelPaidSubscription(c) \/ RecoverCancellation(c) PROVE Goal
  <2>1. plan = c /\ cancelling \in {"none", "pending"}
    BY <1>4 DEF CancelPaidSubscription, RecoverCancellation
  <2>2. Ask(c, FALSE) \/ Ask(c, TRUE) \/ Reads("pending")
    BY <1>4 DEF CancelPaidSubscription, RecoverCancellation
  <2>3. CASE Reads("pending")
    BY <2>1, <2>3, NoneIsNone DEF Reads, Cancels
  <2> QED
    BY <2>1, <2>2, <2>3, Asking
<1>5. ASSUME NEW c \in Checkouts, FinalizeCancellation(c) PROVE Goal
  <2>1. CASE cancelling # "pending"
    BY <1>5, <2>1 DEF FinalizeCancellation
  <2>2. CASE cancelling = "pending"
    <3>1. plan = c /\ plan # None /\ (c \in ending \/ remote[c] = "cancelled")
      BY <1>5, <2>2, NoneIsNone DEF Inv, ScheduleOK, FinalizeCancellation, At
    <3>2. CASE task[<<"cancel", c>>].saw \in Ended
      <4>1. remote[c] = "cancelled"
        BY <3>1, <3>2, Answers DEF Told, Kinds, Inv, PlanAuthorised, Ended, Paid, Paying
      <4>2. RevertToFree
        BY <1>5, <2>2, <3>2 DEF FinalizeCancellation
      <4> QED
        BY <3>1, <4>1, <4>2 DEF RevertToFree, Reverts
    <3>3. CASE task[<<"cancel", c>>].saw \notin Ended
      <4>1. Reads("scheduled")
        BY <1>5, <2>2, <3>3 DEF FinalizeCancellation
      <4> QED
        BY <2>2, <3>1, <4>1 DEF Reads, Cancels
    <3> QED
      BY <3>2, <3>3
  <2> QED
    BY <2>1, <2>2
<1>6. ASSUME NEW c \in Checkouts, FailCancellation(c) PROVE Goal
  BY <1>6, NoneIsNone DEF FailCancellation, GivesUp, Reads, Cancels
<1>7. ASSUME NEW c \in Checkouts, CallStep(c) \/ Provider(c) PROVE Goal
  BY <1>7 DEF CallStep, Provider, CreateSubscription, CreateRejected, CreateUnanswered,
     WebProcessDies, LinkProviderSubscription, ChargeFails, ChargeSettles, SubscriptionEnds,
     PeriodEnds, Renew, Expire
<1>8. ASSUME NEW c \in Checkouts, Customer(c) PROVE Goal
  BY <1>4, <1>8 DEF Customer, StartSeatCheckout, ReuseCheckout, ConfirmSeatCheckout, Pay
<1>9. ASSUME NEW c \in Checkouts, Recover(c) PROVE Goal
  BY <1>1, <1>9 DEF Recover, RecoverCheckoutSession, NotFound, LinkFound, TraceFound,
     DecideCancellation, CancelSubscription, CloseCancelled
<1>10. ASSUME NEW c \in Checkouts, Process(c) \/ Refresh(c) \/ Cancel(c) PROVE Goal
  BY <1>2, <1>3, <1>4, <1>5, <1>10 DEF Process, Refresh, Cancel, ResolveTarget, ReconcileSubscription
<1>11. ASSUME NEW j \in Jobs, JobFails(j) PROVE Goal
  BY <1>11 DEF JobFails
<1>12. CASE UNCHANGED vars
  BY <1>12 DEF vars
<1> QED
  BY <1>6, <1>7, <1>8, <1>9, <1>10, <1>11, <1>12 DEF Next


\* The provider's subscription of a checkout goes from one status to another ...
Moves(c, s) ==
    /\ remote' = [remote EXCEPT ![c] = s]
    /\ ending' = IF s = "cancelled" THEN ending \ {c} ELSE ending
    /\ \/ remote[c] = "absent" /\ s = "created" /\ call' = [call EXCEPT ![c] = "link"]
       \/ remote[c] = "created" /\ s = "active" /\ c \in shown
       \/ remote[c] = "created" /\ s = "expired" /\ call[c] = "none"
       \/ remote[c] \in Paying /\ s \in Paid
    /\ UNCHANGED <<company, st, linked, shown>>

\* ... or the company's is to end with its period ...
Withdraws(c) ==
    /\ remote[c] = "active" /\ UNCHANGED remote
    /\ ending' = ending \cup {c}
    /\ UNCHANGED <<st, plan>>
    /\ cancelling \in {"none", "pending"} /\ cancelling' = "pending"

\* ... and a change is reported.
Reported(c, s) ==
    \E t \in Nat : events' = events \cup {[c |-> c, is |-> s, at |-> t]}

\* What the provider's move does to its subscription and to the reports on their way.
LEMMA Reports ==
  ASSUME Inv, NEW c \in Checkouts, NEW s \in Paying \cup Ended, Report(c, s)
  PROVE  /\ remote' = [remote EXCEPT ![c] = s]
         /\ ending' = IF s = "cancelled" THEN ending \ {c} ELSE ending
         /\ Reported(c, s)
<1>1. Latest + 1 \in Nat
  BY LatestIsTime DEF Inv
<1> QED
  BY <1>1 DEF Report, Reported

\* Every step leaves what the provider knows, or changes it so.
LEMMA ProviderStep ==
  ASSUME Inv, [Next]_vars
  PROVE  \/ UNCHANGED <<remote, ending>> /\ events' \subseteq events
         \/ \E c \in Checkouts : /\ UNCHANGED <<remote, ending>>
                                 /\ remote[c] = "active" /\ Reported(c, "active")
         \/ \E c \in Checkouts, s \in RemoteStatuses :
               Moves(c, s) /\ (UNCHANGED events \/ (s \in Paying \cup Ended /\ Reported(c, s)))
         \/ \E c \in Checkouts : Withdraws(c) /\ UNCHANGED events
<1> DEFINE Goal == \/ UNCHANGED <<remote, ending>> /\ events' \subseteq events
                   \/ \E c \in Checkouts : /\ UNCHANGED <<remote, ending>>
                                           /\ remote[c] = "active" /\ Reported(c, "active")
                   \/ \E c \in Checkouts, s \in RemoteStatuses :
                         Moves(c, s) /\ (UNCHANGED events \/ (s \in Paying \cup Ended /\ Reported(c, s)))
                   \/ \E c \in Checkouts : Withdraws(c) /\ UNCHANGED events
<1>1. ASSUME NEW c \in Checkouts, NEW s \in Paying \cup Ended, Report(c, s),
             UNCHANGED <<company, st, linked, shown>>,
             \/ remote[c] = "created" /\ s = "active" /\ c \in shown
             \/ remote[c] = "created" /\ s = "expired" /\ call[c] = "none"
             \/ remote[c] \in Paying /\ s \in Paid
      PROVE  Goal
  <2>1. Moves(c, s)
    BY <1>1, Reports DEF Moves
  <2>2. s \in RemoteStatuses
    BY DEF RemoteStatuses
  <2> QED
    BY <1>1, <2>1, <2>2, Reports
<1>2. ASSUME NEW c \in Checkouts, CreateSubscription(c) PROVE Goal
  <2>1. remote[c] = "absent" /\ call[c] = "create" /\ "created" \in RemoteStatuses
    BY <1>2 DEF Inv, SessionsOK, SessionOK, CreateSubscription, RemoteStatuses
  <2>2. Moves(c, "created") /\ UNCHANGED events
    BY <1>2, <2>1 DEF CreateSubscription, Moves, company
  <2> QED
    BY <2>1, <2>2
<1>3. ASSUME NEW c \in Checkouts, Pay(c) PROVE Goal
  <2>1. /\ Report(c, "active") /\ remote[c] = "created" /\ c \in shown
        /\ UNCHANGED <<company, st, linked, shown>>
    BY <1>3 DEF Pay, browser
  <2> QED
    BY <1>1, <2>1 DEF Paying
<1>4. ASSUME NEW c \in Checkouts, ChargeFails(c) \/ ChargeSettles(c) PROVE Goal
  <2>1. /\ remote[c] \in Paying
        /\ Report(c, "pending") \/ Report(c, "active") \/ Report(c, "cancelled")
        /\ UNCHANGED <<company, st, linked, shown>>
    BY <1>4 DEF ChargeFails, ChargeSettles, Paying, browser
  <2> QED
    BY <1>1, <2>1 DEF Paying, Ended, Paid
<1>5. ASSUME NEW c \in Checkouts, SubscriptionEnds(c) \/ PeriodEnds(c) PROVE Goal
  <2>1. /\ remote[c] \in Paying /\ Report(c, "cancelled")
        /\ UNCHANGED <<company, st, linked, shown>>
    BY <1>5 DEF SubscriptionEnds, PeriodEnds, Paying, browser
  <2> QED
    BY <1>1, <2>1 DEF Ended, Paid
<1>6. ASSUME NEW c \in Checkouts, Renew(c) PROVE Goal
  <2>1. Latest \in Nat
    BY LatestIsTime DEF Inv
  <2>2. Reported(c, "active")
    BY <1>6, <2>1 DEF Renew, Reported
  <2> QED
    BY <1>6, <2>2 DEF Renew
<1>7. ASSUME NEW c \in Checkouts, Expire(c) PROVE Goal
  <2>1. CASE remote[c] = "created"
    BY <1>1, <1>7, <2>1 DEF Expire, Ended
  <2>2. CASE remote[c] # "created"
    BY <1>7, <2>2 DEF Expire, provider
  <2> QED
    BY <2>1, <2>2
<1>8. ASSUME NEW c \in Checkouts, CancelSubscription(c) PROVE Goal
  <2>1. CASE remote[c] = "active"
    BY <1>1, <1>8, <2>1 DEF CancelSubscription, Paying, Ended, Paid, browser
  <2>2. CASE remote[c] # "active"
    BY <1>8, <2>2 DEF CancelSubscription, provider
  <2> QED
    BY <2>1, <2>2
<1>9. ASSUME NEW c \in Checkouts, CancelPaidSubscription(c) \/ RecoverCancellation(c) PROVE Goal
  <2>1. cancelling \in {"none", "pending"}
    BY <1>9 DEF CancelPaidSubscription, RecoverCancellation
  <2>2. UNCHANGED <<remote, events, st>>
    BY <1>9 DEF CancelPaidSubscription, RecoverCancellation
  <2>3. UNCHANGED ending \/ Ask(c, FALSE) \/ Ask(c, TRUE)
    BY <1>9 DEF CancelPaidSubscription, RecoverCancellation
  <2>4. ASSUME NEW byWorker, Ask(c, byWorker) PROVE Goal
    <3>1. CASE remote[c] = "active"
      BY <2>1, <2>2, <2>4, <3>1 DEF Ask, Reads, Withdraws
    <3>2. CASE remote[c] # "active"
      BY <2>2, <2>4, <3>2 DEF Ask
    <3> QED
      BY <3>1, <3>2
  <2> QED
    BY <2>2, <2>3, <2>4
<1>10. ASSUME UNCHANGED <<remote, ending>>, events' \subseteq events PROVE Goal
  BY <1>10
<1>11. ASSUME NEW c \in Checkouts, ApplyWebhookEvent(c) PROVE Goal
  BY <1>10, <1>11 DEF ApplyWebhookEvent
<1>12. ASSUME NEW c \in Checkouts, CallStep(c) \/ Provider(c) PROVE Goal
  BY <1>2, <1>4, <1>5, <1>6, <1>7, <1>10, <1>12 DEF CallStep, Provider, CreateRejected,
     CreateUnanswered, WebProcessDies, LinkProviderSubscription, provider
<1>13. ASSUME NEW c \in Checkouts, Customer(c) PROVE Goal
  BY <1>3, <1>9, <1>10, <1>13 DEF Customer, StartSeatCheckout, ReuseCheckout, ConfirmSeatCheckout, provider
<1>14. ASSUME NEW c \in Checkouts, Recover(c) PROVE Goal
  BY <1>8, <1>10, <1>14 DEF Recover, RecoverCheckoutSession, NotFound, LinkFound, TraceFound,
     VerifyCheckout, ExpireCheckout, DecideCancellation, CloseCancelled, provider
<1>15. ASSUME NEW c \in Checkouts, Process(c) \/ Refresh(c) \/ Cancel(c) \/ FailCancellation(c) PROVE Goal
  BY <1>9, <1>10, <1>11, <1>15 DEF Process, Refresh, Cancel, ResolveTarget, ReconcileSubscription,
     ApplyReconciliation, FinalizeCancellation, FailCancellation, provider
<1>16. ASSUME NEW j \in Jobs, JobFails(j) PROVE Goal
  BY <1>10, <1>16 DEF JobFails, provider
<1>17. CASE UNCHANGED vars
  BY <1>10, <1>17 DEF vars, provider
<1> QED
  BY <1>12, <1>13, <1>14, <1>15, <1>16, <1>17 DEF Next


-----------------------------------------------------------------------------
(* Types. *)

SessionsTyped ==
    /\ st \in [Checkouts -> Statuses]
    /\ linked \in [Checkouts -> BOOLEAN]
    /\ open \subseteq Checkouts /\ shown \subseteq Checkouts
    /\ call \in [Checkouts -> {"none", "create", "link"}]

CompanyTyped ==
    /\ plan \in Checkouts \cup {None}
    /\ local \in {"free", "active", "past_due"} /\ (local = "free" <=> plan = None)
    /\ watermark \in Nat
    /\ cancelling \in {"none", "pending", "scheduled"} /\ (plan = None => cancelling = "none")

ProviderTyped ==
    /\ remote \in [Checkouts -> RemoteStatuses]
    /\ ending \subseteq Checkouts
    /\ events \subseteq [c : Checkouts, is : RemoteStatuses, at : Nat]

JobsTyped == task \in [Jobs -> Tasks] /\ failures \in 0 .. MaxFailures

HistoryTyped == overtaken \subseteq Checkouts

\* The type invariant, by who owns the variables.
LEMMA TypeParts ==
  TypeOK <=> SessionsTyped /\ CompanyTyped /\ ProviderTyped /\ JobsTyped /\ HistoryTyped
BY DEF TypeOK, SessionsTyped, CompanyTyped, ProviderTyped, JobsTyped, HistoryTyped, Tasks, Works

\* Every step keeps the types of the company's row.
LEMMA CompanyTypeStep ==
  ASSUME Inv, [Next]_vars
  PROVE  CompanyTyped'
<1>0. CompanyTyped
  BY TypeParts DEF Inv
<1> USE NoneIsNone DEF CompanyTyped
<1>1. CASE UNCHANGED company
  BY <1>0, <1>1 DEF company
<1>2. CASE \E c \in Checkouts : Subscribes(c)
  BY <1>0, <1>2 DEF Subscribes, PaidLocals
<1>3. CASE Reverts
  BY <1>0, <1>3 DEF Reverts
<1>4. CASE Refreshes
  BY <1>0, <1>4 DEF Refreshes, PaidLocals
<1>5. CASE Cancels
  BY <1>0, <1>5 DEF Cancels
<1> QED
  BY <1>1, <1>2, <1>3, <1>4, <1>5, CompanyStep

\* Every step keeps the types of what the provider holds.
LEMMA ProviderTypeStep ==
  ASSUME Inv, [Next]_vars
  PROVE  ProviderTyped'
<1>0. ProviderTyped
  BY TypeParts DEF Inv
<1> USE DEF ProviderTyped
<1>1. ASSUME NEW c \in Checkouts, NEW s \in RemoteStatuses, Reported(c, s)
      PROVE  events' \subseteq [c : Checkouts, is : RemoteStatuses, at : Nat]
  BY <1>0, <1>1 DEF Reported
<1>2. CASE UNCHANGED <<remote, ending>> /\ events' \subseteq events
  BY <1>0, <1>2
<1>3. ASSUME NEW c \in Checkouts, UNCHANGED <<remote, ending>>, Reported(c, "active") PROVE ProviderTyped'
  <2>1. "active" \in RemoteStatuses
    BY DEF RemoteStatuses, Paying
  <2> QED
    BY <1>0, <1>1, <1>3, <2>1
<1>4. ASSUME NEW c \in Checkouts, NEW s \in RemoteStatuses, Moves(c, s), UNCHANGED events \/ Reported(c, s)
      PROVE ProviderTyped'
  <2>1. remote' \in [Checkouts -> RemoteStatuses] /\ ending' \subseteq Checkouts
    BY <1>0, <1>4 DEF Moves
  <2>2. events' \subseteq [c : Checkouts, is : RemoteStatuses, at : Nat]
    BY <1>0, <1>1, <1>4
  <2> QED
    BY <2>1, <2>2
<1>5. ASSUME NEW c \in Checkouts, Withdraws(c), UNCHANGED events PROVE ProviderTyped'
  BY <1>0, <1>5 DEF Withdraws
<1> QED
  BY <1>2, <1>3, <1>4, <1>5, ProviderStep

\* What is remembered of the checkouts paid too late is a set of checkouts.
LEMMA HistoryTypeStep ==
  ASSUME Inv, [Next]_vars
  PROVE  HistoryTyped'
<1>0. HistoryTyped
  BY TypeParts DEF Inv
<1> USE DEF HistoryTyped
<1>1. ASSUME NEW c \in Checkouts, NEW s, Report(c, s) PROVE HistoryTyped'
  BY <1>0, <1>1 DEF Report
<1>2. ASSUME UNCHANGED overtaken PROVE HistoryTyped'
  BY <1>0, <1>2
<1>3. ASSUME NEW c \in Checkouts, Provider(c) PROVE HistoryTyped'
  BY <1>1, <1>2, <1>3 DEF Provider, ChargeFails, ChargeSettles, SubscriptionEnds, PeriodEnds,
     Renew, Expire, provider
<1>4. ASSUME NEW c \in Checkouts, CallStep(c) \/ Customer(c) PROVE HistoryTyped'
  BY <1>1, <1>2, <1>4 DEF CallStep, CreateSubscription, CreateRejected, CreateUnanswered,
     WebProcessDies, LinkProviderSubscription, Customer, StartSeatCheckout, ReuseCheckout,
     ConfirmSeatCheckout, Pay, CancelPaidSubscription, provider
<1>5. ASSUME NEW c \in Checkouts, Recover(c) PROVE HistoryTyped'
  BY <1>1, <1>2, <1>5 DEF Recover, RecoverCheckoutSession, NotFound, LinkFound, TraceFound,
     VerifyCheckout, ExpireCheckout, DecideCancellation, CancelSubscription, CloseCancelled, provider
<1>6. ASSUME NEW c \in Checkouts, Process(c) \/ Refresh(c) \/ Cancel(c) \/ FailCancellation(c)
      PROVE  HistoryTyped'
  BY <1>2, <1>6 DEF Process, ResolveTarget, ApplyWebhookEvent, Refresh, ReconcileSubscription,
     ApplyReconciliation, Cancel, RecoverCancellation, FinalizeCancellation, FailCancellation, provider
<1>7. ASSUME NEW j \in Jobs, JobFails(j) PROVE HistoryTyped'
  BY <1>2, <1>7 DEF JobFails, provider
<1>8. CASE UNCHANGED vars
  BY <1>2, <1>8 DEF vars, provider
<1> QED
  BY <1>3, <1>4, <1>5, <1>6, <1>7, <1>8 DEF Next

\* Every step keeps the types of the checkout sessions.
LEMMA SessionsTypeStep ==
  ASSUME Inv, [Next]_vars
  PROVE  SessionsTyped'
<1>0. SessionsTyped
  BY TypeParts DEF Inv
<1> USE DEF SessionsTyped
<1>1. ASSUME NEW c \in Checkouts, NEW s \in Statuses, Becomes(c, s) PROVE st' \in [Checkouts -> Statuses]
  BY <1>0, <1>1 DEF Becomes
<1>2. ASSUME NEW c \in Checkouts, NoMoreExpiry(c) PROVE open' \subseteq Checkouts
  BY <1>0, <1>2 DEF NoMoreExpiry
<1>3. ASSUME UNCHANGED <<st, linked, open, shown, call>> PROVE SessionsTyped'
  BY <1>0, <1>3
<1>4. ASSUME NEW c \in Checkouts, StartSeatCheckout(c) PROVE SessionsTyped'
  BY <1>0, <1>4 DEF StartSeatCheckout, Statuses
<1>5. ASSUME NEW c \in Checkouts, ReuseCheckout(c) \/ ConfirmSeatCheckout(c) PROVE SessionsTyped'
  BY <1>0, <1>5 DEF ReuseCheckout, ConfirmSeatCheckout, Becomes, Statuses, browser
<1>6. ASSUME NEW c \in Checkouts, CreateSubscription(c) \/ CreateRejected(c) \/ WebProcessDies(c)
      PROVE  SessionsTyped'
  BY <1>0, <1>6 DEF CreateSubscription, CreateRejected, WebProcessDies, Becomes, Statuses
<1>7. ASSUME NEW c \in Checkouts, CreateUnanswered(c) PROVE SessionsTyped'
  BY <1>0, <1>7 DEF CreateUnanswered, Becomes, Statuses
<1>8. ASSUME NEW c \in Checkouts, LinkProviderSubscription(c) PROVE SessionsTyped'
  <2>1. UNCHANGED <<st, linked, shown>> \/ (/\ st' = [st EXCEPT ![c] = "created"]
                                            /\ linked' = [linked EXCEPT ![c] = TRUE]
                                            /\ shown' = shown \cup {c})
    BY <1>8 DEF LinkProviderSubscription, Becomes
  <2>2. st' \in [Checkouts -> Statuses]
    BY <1>0, <2>1 DEF Statuses
  <2>3. linked' \in [Checkouts -> BOOLEAN]
    BY <1>0, <2>1
  <2>4. shown' \subseteq Checkouts
    BY <1>0, <2>1
  <2>5. UNCHANGED open /\ call' \in [Checkouts -> {"none", "create", "link"}]
    BY <1>0, <1>8 DEF LinkProviderSubscription
  <2> QED
    BY <1>0, <2>2, <2>3, <2>4, <2>5
<1>9. ASSUME NEW c \in Checkouts, Expire(c) PROVE SessionsTyped'
  BY <1>0, <1>9 DEF Expire
<1>10. ASSUME NEW c \in Checkouts, NotFound(c) \/ CloseCancelled(c) PROVE SessionsTyped'
  BY <1>0, <1>10 DEF NotFound, CloseCancelled, Becomes, Statuses, browser
<1>11. ASSUME NEW c \in Checkouts, LinkFound(c) PROVE SessionsTyped'
  <2>1. UNCHANGED linked \/ linked' = [linked EXCEPT ![c] = TRUE]
    BY <1>11 DEF LinkFound
  <2>2. linked' \in [Checkouts -> BOOLEAN]
    BY <1>0, <2>1
  <2>3. UNCHANGED st \/ Becomes(c, "created") \/ Becomes(c, "cancel_pending")
    BY <1>11 DEF LinkFound
  <2>4. st' \in [Checkouts -> Statuses]
    BY <1>0, <2>3 DEF Becomes, Statuses
  <2> QED
    BY <1>0, <1>11, <2>2, <2>4 DEF LinkFound, browser
<1>12. ASSUME NEW c \in Checkouts, TraceFound(c) PROVE SessionsTyped'
  <2>1. linked' = [linked EXCEPT ![c] = TRUE] /\ UNCHANGED <<st, open, shown, call>>
    BY <1>12 DEF TraceFound, browser
  <2>2. linked' \in [Checkouts -> BOOLEAN]
    BY <1>0, <2>1
  <2> QED
    BY <1>0, <2>1, <2>2
<1>13. ASSUME NEW c \in Checkouts,
              \/ UNCHANGED <<st, company>>
              \/ \E s \in Shelved \cup {"cancelled"} : st' = [st EXCEPT ![c] = s]
              \/ Subscribes(c)
       PROVE  st' \in [Checkouts -> Statuses]
  BY <1>0, <1>13 DEF Subscribes, Shelved, Statuses
<1>14. ASSUME NEW c \in Checkouts, VerifyCheckout(c) \/ ExpireCheckout(c) PROVE SessionsTyped'
  <2>1. \/ ApplyCheckoutEntity(c, task[<<"recover", c>>].saw, 0)
           /\ task[<<"recover", c>>].saw \in Paying \cup Ended
        \/ Becomes(c, "expired") \/ UNCHANGED st \/ Becomes(c, st[c])
    BY <1>14, Answers DEF VerifyCheckout, ExpireCheckout
  <2>2. st' \in [Checkouts -> Statuses]
    <3>1. CASE /\ ApplyCheckoutEntity(c, task[<<"recover", c>>].saw, 0)
               /\ task[<<"recover", c>>].saw \in Paying \cup Ended
      BY <1>13, <3>1, Answers, Adopting DEF Kinds
    <3>2. CASE Becomes(c, "expired") \/ UNCHANGED st \/ Becomes(c, st[c])
      BY <1>0, <3>2 DEF Becomes, Statuses
    <3> QED
      BY <2>1, <3>1, <3>2
  <2>3. NoMoreExpiry(c) /\ UNCHANGED <<linked, shown, call>>
    BY <1>14 DEF VerifyCheckout, ExpireCheckout
  <2> QED
    BY <1>0, <1>2, <2>2, <2>3
<1>15. ASSUME NEW c \in Checkouts, DecideCancellation(c) PROVE SessionsTyped'
  <2>1. NoMoreExpiry(c) /\ UNCHANGED <<linked, shown, call>>
    BY <1>15 DEF DecideCancellation
  <2>2. st' \in [Checkouts -> Statuses]
    BY <1>0, <1>15 DEF DecideCancellation, Becomes, Statuses
  <2> QED
    BY <1>0, <1>2, <2>1, <2>2
<1>16. ASSUME NEW c \in Checkouts, ApplyWebhookEvent(c) PROVE SessionsTyped'
  <2> DEFINE t == task[<<"event", c>>]
  <2>1. t \in Tasks /\ t.at \in Nat /\ t.saw \in Paying \cup Ended /\ Told(c, t.saw)
    BY <1>16, Answers DEF ApplyWebhookEvent, Kinds, Tasks
  <2>2. UNCHANGED <<st, linked>> \/ ApplyToSession(c, t.saw, t.at)
    BY <1>16 DEF ApplyWebhookEvent
  <2>3. NoMoreExpiry(c) /\ UNCHANGED <<shown, call>>
    BY <1>16 DEF ApplyWebhookEvent
  <2> HIDE DEF t
  <2>4. st' \in [Checkouts -> Statuses] /\ linked' \in [Checkouts -> BOOLEAN]
    BY <1>0, <1>13, <2>1, <2>2, Resolving
  <2> QED
    BY <1>0, <1>2, <2>3, <2>4
<1>17. ASSUME NEW c \in Checkouts, CallStep(c) \/ Customer(c) PROVE SessionsTyped'
  BY <1>3, <1>4, <1>5, <1>6, <1>7, <1>8, <1>17 DEF CallStep, Customer, Pay, CancelPaidSubscription, browser
<1>18. ASSUME NEW c \in Checkouts, Provider(c) PROVE SessionsTyped'
  BY <1>3, <1>9, <1>18 DEF Provider, ChargeFails, ChargeSettles, SubscriptionEnds, PeriodEnds, Renew, browser
<1>19. ASSUME NEW c \in Checkouts, Recover(c) PROVE SessionsTyped'
  BY <1>3, <1>10, <1>11, <1>12, <1>14, <1>15, <1>19 DEF Recover, RecoverCheckoutSession, CancelSubscription, browser
<1>20. ASSUME NEW c \in Checkouts, Process(c) \/ Refresh(c) \/ Cancel(c) \/ FailCancellation(c)
       PROVE  SessionsTyped'
  BY <1>3, <1>16, <1>20 DEF Process, Refresh, Cancel, ResolveTarget, ReconcileSubscription,
     ApplyReconciliation, RecoverCancellation, FinalizeCancellation, FailCancellation, browser
<1>21. ASSUME NEW j \in Jobs, JobFails(j) PROVE SessionsTyped'
  BY <1>3, <1>21 DEF JobFails, browser
<1>22. CASE UNCHANGED vars
  BY <1>3, <1>22 DEF vars, browser
<1> QED
  BY <1>17, <1>18, <1>19, <1>20, <1>21, <1>22 DEF Next


-----------------------------------------------------------------------------
(* What jobs know. *)

\* A job of one kind, for one checkout, that the invariant allows.
TaskOK(k, c, t) ==
    /\ t \in Tasks
    /\ Told(c, t.saw)
    /\ k = "event" => t.does \in {"nothing", "apply"}
    /\ k = "refresh" => t.does \in {"nothing", "refresh"}
    /\ k = "cancel" => t.does \in {"nothing", "schedule"}
    /\ k = "recover" => t.does \notin {"apply", "refresh", "schedule"}
    /\ t.does = "verify" => t.saw \in Paid
    /\ t.does = "apply" => t.saw \in Paying \cup Ended
    /\ t.does = "refresh" => t.saw \in Paid

\* What the invariant says of the jobs, job by job.
LEMMA TasksOK ==
  (task \in [Jobs -> Tasks]) =>
     ((AnswersTold /\ WorkOfJobs) <=> \A k \in Kinds, c \in Checkouts : TaskOK(k, c, task[<<k, c>>]))
<1> SUFFICES ASSUME task \in [Jobs -> Tasks]
             PROVE  (AnswersTold /\ WorkOfJobs) <=>
                       \A k \in Kinds, c \in Checkouts : TaskOK(k, c, task[<<k, c>>])
  OBVIOUS
<1>1. \A k \in Kinds, c \in Checkouts : task[<<k, c>>] \in Tasks
  BY JobsAre
<1>2. ASSUME AnswersTold, WorkOfJobs, NEW k \in Kinds, NEW c \in Checkouts
      PROVE  TaskOK(k, c, task[<<k, c>>])
  BY <1>1, <1>2 DEF AnswersTold, WorkOfJobs, TaskOK, Kinds
<1>3. ASSUME \A k \in Kinds, c \in Checkouts : TaskOK(k, c, task[<<k, c>>])
      PROVE  AnswersTold /\ WorkOfJobs
  BY <1>3 DEF AnswersTold, WorkOfJobs, TaskOK, Kinds
<1> QED
  BY <1>2, <1>3

\* What was told stays so.
LEMMA ToldStays ==
  ASSUME Inv, [Next]_vars, NEW c \in Checkouts, NEW status, Told(c, status)
  PROVE  Told(c, status)'
<1>1. \/ remote'[c] = remote[c]
      \/ remote[c] = "absent"
      \/ remote[c] = "created" /\ remote'[c] # "absent"
      \/ remote[c] \in Paying /\ remote'[c] \in Paid
  BY ProviderStep DEF Moves, Withdraws, Inv, TypeOK
<1> QED
  BY <1>1 DEF Told, Paid, Paying, Ended

\* An idle job satisfies it.
LEMMA IdleOK ==
  ASSUME NEW k \in Kinds, NEW c \in Checkouts
  PROVE  TaskOK(k, c, Idle)
BY DEF TaskOK, Idle, Tasks, Works, Told, Paying, Ended

\* Each step leaves the jobs, or gives one of them something to do that it may do.
LEMMA JobMoves ==
  ASSUME Inv, [Next]_vars
  PROVE  \/ UNCHANGED task
         \/ \E k \in Kinds, c \in Checkouts, t \in Tasks :
               TaskOK(k, c, t) /\ task' = [task EXCEPT ![<<k, c>>] = t]
<1> DEFINE Goal == \/ UNCHANGED task
                   \/ \E k \in Kinds, c \in Checkouts, t \in Tasks :
                         TaskOK(k, c, t) /\ task' = [task EXCEPT ![<<k, c>>] = t]
<1>i. ASSUME NEW k \in Kinds, NEW c \in Checkouts, Ends(<<k, c>>) PROVE Goal
  BY <1>i, IdleOK DEF Ends, Begin, TaskOK
<1>t. ASSUME NEW k \in Kinds, NEW c \in Checkouts, NEW t, TaskOK(k, c, t), Begin(<<k, c>>, t) PROVE Goal
  BY <1>t DEF Begin, TaskOK
<1>r. \A c \in Checkouts : remote[c] \in RemoteStatuses /\ Told(c, remote[c])
  BY DEF Inv, TypeOK, Told, Paid
<1>k. "recover" \in Kinds /\ "event" \in Kinds /\ "refresh" \in Kinds /\ "cancel" \in Kinds
  BY DEF Kinds
<1>1. ASSUME NEW c \in Checkouts, RecoverCheckoutSession(c) PROVE Goal
  <2>1. PICK b \in BOOLEAN :
           Begin(<<"recover", c>>, [does |-> Due(c), saw |-> remote[c], at |-> 0, read |-> b])
    <3>1. (Due(c) = "search" /\ c \in open) \in BOOLEAN
      OBVIOUS
    <3> QED
      BY <1>1, <3>1 DEF RecoverCheckoutSession
  <2>2. Due(c) \in {"search", "verify", "expiry", "cancel", "trace"}
    BY <1>1 DEF RecoverCheckoutSession, Due
  <2>3. Due(c) = "verify" => remote[c] \in Paid
    BY DEF Due, Inv, SessionsOK, SessionOK, Creating
  <2>4. TaskOK("recover", c, [does |-> Due(c), saw |-> remote[c], at |-> 0, read |-> b])
    BY <1>r, <2>2, <2>3 DEF TaskOK, Tasks, Works
  <2> QED
    BY <1>k, <1>t, <2>1, <2>4
<1>2. ASSUME NEW c \in Checkouts, ResolveTarget(c) PROVE Goal
  <2>1. PICK e \in events : /\ e.c = c
                            /\ Begin(<<"event", c>>, [does |-> "apply", saw |-> e.is, at |-> e.at, read |-> plan = c])
    BY <1>2 DEF ResolveTarget
  <2>2. PICK b \in BOOLEAN : b = (plan = c)
    <3>1. (plan = c) \in BOOLEAN
      OBVIOUS
    <3> QED
      BY <3>1
  <2>3. e.is \in Paying \cup Ended /\ Told(c, e.is) /\ e.at \in Nat
    BY <2>1 DEF Inv, ReportsTold, TypeOK
  <2>4. TaskOK("event", c, [does |-> "apply", saw |-> e.is, at |-> e.at, read |-> b])
    BY <2>3 DEF TaskOK, Tasks, Works, RemoteStatuses
  <2>5. Begin(<<"event", c>>, [does |-> "apply", saw |-> e.is, at |-> e.at, read |-> b])
    BY <2>1, <2>2
  <2> QED
    BY <1>k, <1>t, <2>4, <2>5
<1>3. ASSUME NEW c \in Checkouts, ReconcileSubscription(c) PROVE Goal
  <2>1. Begin(<<"refresh", c>>, [Idle EXCEPT !.does = "refresh", !.saw = remote[c]])
    BY <1>3 DEF ReconcileSubscription
  <2>2. remote[c] \in Paid
    BY <1>3, NoneIsNone DEF ReconcileSubscription, Inv, PlanAuthorised
  <2>3. TaskOK("refresh", c, [Idle EXCEPT !.does = "refresh", !.saw = remote[c]])
    BY <1>r, <2>2 DEF TaskOK, Tasks, Works, Idle
  <2> QED
    BY <1>k, <1>t, <2>1, <2>3
<1>4. ASSUME NEW c \in Checkouts, TraceFound(c) PROVE Goal
  <2> DEFINE t == task[<<"recover", c>>]
  <2>1. Begin(<<"recover", c>>, [t EXCEPT !.does = "cancel", !.saw = remote[c]])
    BY <1>4 DEF TraceFound
  <2>2. t \in Tasks
    BY <1>k, Answers
  <2> HIDE DEF t
  <2>3. TaskOK("recover", c, [t EXCEPT !.does = "cancel", !.saw = remote[c]])
    BY <1>r, <2>2 DEF TaskOK, Tasks, Works
  <2> QED
    BY <1>k, <1>t, <2>1, <2>3
<1>5. ASSUME NEW c \in Checkouts, DecideCancellation(c) \/ CancelSubscription(c) PROVE Goal
  <2>1. \/ Ends(<<"recover", c>>)
        \/ Begin(<<"recover", c>>, [Idle EXCEPT !.does = "stop"])
        \/ Begin(<<"recover", c>>, [Idle EXCEPT !.does = "close"])
    BY <1>5 DEF DecideCancellation, CancelSubscription
  <2>2. \A w \in {"stop", "close"} : TaskOK("recover", c, [Idle EXCEPT !.does = w])
    BY DEF TaskOK, Idle, Tasks, Works, Told, Paying, Ended
  <2> QED
    BY <1>i, <1>k, <1>t, <2>1, <2>2
<1>6. ASSUME NEW c \in Checkouts, NEW byWorker \in BOOLEAN, Ask(c, byWorker) PROVE Goal
  <2>1. CASE UNCHANGED task
    BY <2>1
  <2>2. CASE Begin(<<"cancel", c>>, [Idle EXCEPT !.does = "schedule", !.saw = remote[c], !.read = byWorker])
    <3>1. TaskOK("cancel", c, [Idle EXCEPT !.does = "schedule", !.saw = remote[c], !.read = byWorker])
      BY <1>r DEF TaskOK, Tasks, Works, Idle
    <3> QED
      BY <1>k, <1>t, <2>2, <3>1
  <2> QED
    BY <1>6, <2>1, <2>2 DEF Ask
<1>7. ASSUME NEW c \in Checkouts, CallStep(c) \/ Customer(c) \/ Provider(c) PROVE Goal
  BY <1>6, <1>7 DEF CallStep, Customer, Provider, CreateSubscription, CreateRejected, CreateUnanswered,
     WebProcessDies, LinkProviderSubscription, StartSeatCheckout, ReuseCheckout, ConfirmSeatCheckout,
     Pay, CancelPaidSubscription, ChargeFails, ChargeSettles, SubscriptionEnds, PeriodEnds, Renew,
     Expire, jobs
<1>8. ASSUME NEW c \in Checkouts, Recover(c) PROVE Goal
  BY <1>i, <1>k, <1>1, <1>4, <1>5, <1>8 DEF Recover, NotFound, LinkFound, VerifyCheckout,
     ExpireCheckout, CloseCancelled
<1>9. ASSUME NEW c \in Checkouts, Process(c) \/ Refresh(c) \/ Cancel(c) \/ FailCancellation(c)
      PROVE  Goal
  BY <1>i, <1>k, <1>2, <1>3, <1>6, <1>9 DEF Process, Refresh, Cancel, ApplyWebhookEvent,
     ApplyReconciliation, RecoverCancellation, FinalizeCancellation, FailCancellation
<1>10. ASSUME NEW j \in Jobs, JobFails(j) PROVE Goal
  BY <1>i, <1>10, JobsAre DEF JobFails
<1>11. CASE UNCHANGED vars
  BY <1>11 DEF vars, jobs
<1> QED
  BY <1>7, <1>8, <1>9, <1>10, <1>11 DEF Next

\* Failures are counted up to their bound.
LEMMA FailuresStep ==
  ASSUME Inv, [Next]_vars
  PROVE  failures' \in 0 .. MaxFailures
<1>0. failures \in 0 .. MaxFailures
  BY DEF Inv, TypeOK
<1>1. ASSUME Fails PROVE failures' \in 0 .. MaxFailures
  BY <1>0, <1>1, BoundsOK DEF Fails
<1>2. ASSUME UNCHANGED failures PROVE failures' \in 0 .. MaxFailures
  BY <1>0, <1>2
<1>3. Fails \/ UNCHANGED failures
  <2>1. ASSUME NEW c \in Checkouts, CallStep(c) \/ Customer(c) \/ Provider(c)
        PROVE  Fails \/ UNCHANGED failures
    BY <2>1 DEF CallStep, Customer, Provider, CreateSubscription, CreateRejected, CreateUnanswered,
       WebProcessDies, LinkProviderSubscription, StartSeatCheckout, ReuseCheckout, ConfirmSeatCheckout,
       Pay, CancelPaidSubscription, ChargeFails, ChargeSettles, SubscriptionEnds, PeriodEnds, Renew,
       Expire, jobs
  <2>2. ASSUME NEW c \in Checkouts, Recover(c) PROVE UNCHANGED failures
    BY <2>2 DEF Recover, RecoverCheckoutSession, NotFound, LinkFound, TraceFound, VerifyCheckout,
       ExpireCheckout, DecideCancellation, CancelSubscription, CloseCancelled
  <2>3. ASSUME NEW c \in Checkouts, Process(c) \/ Refresh(c) \/ Cancel(c) \/ FailCancellation(c)
        PROVE  UNCHANGED failures
    BY <2>3 DEF Process, Refresh, Cancel, ResolveTarget, ApplyWebhookEvent, ReconcileSubscription,
       ApplyReconciliation, RecoverCancellation, FinalizeCancellation, FailCancellation
  <2> QED
    BY <2>1, <2>2, <2>3 DEF Next, vars, jobs, JobFails
<1> QED
  BY <1>1, <1>2, <1>3

\* Every job has work that its kind may have, and answers the provider has given.
LEMMA JobsStep ==
  ASSUME Inv, [Next]_vars
  PROVE  JobsTyped' /\ AnswersTold' /\ WorkOfJobs'
<1>1. task \in [Jobs -> Tasks]
  BY TypeParts DEF Inv, JobsTyped
<1>2. \A k \in Kinds, c \in Checkouts : TaskOK(k, c, task[<<k, c>>])
  BY <1>1, TasksOK DEF Inv
<1>3. ASSUME NEW k \in Kinds, NEW c \in Checkouts, NEW t, TaskOK(k, c, t) PROVE TaskOK(k, c, t)'
  BY <1>3, ToldStays DEF TaskOK
<1>4. task' \in [Jobs -> Tasks]
  BY <1>1, JobMoves
<1>5. \A k \in Kinds, c \in Checkouts : TaskOK(k, c, task[<<k, c>>])'
  <2> SUFFICES ASSUME NEW k \in Kinds, NEW c \in Checkouts PROVE TaskOK(k, c, task[<<k, c>>])'
    OBVIOUS
  <2>1. PICK t \in Tasks : t = task'[<<k, c>>]
    BY <1>4, JobsAre
  <2>2. TaskOK(k, c, t)
    <3>1. CASE UNCHANGED task
      BY <1>2, <2>1, <3>1
    <3>2. ASSUME NEW k1 \in Kinds, NEW c1 \in Checkouts, NEW t1 \in Tasks, TaskOK(k1, c1, t1),
                 task' = [task EXCEPT ![<<k1, c1>>] = t1]
          PROVE  TaskOK(k, c, t)
      <4>1. CASE k = k1 /\ c = c1
        BY <1>1, <2>1, <3>2, <4>1, JobsAre
      <4>2. CASE ~(k = k1 /\ c = c1)
        <5>1. <<k, c>> # <<k1, c1>>
          BY <4>2
        <5> QED
          BY <1>1, <1>2, <2>1, <3>2, <5>1, JobsAre
      <4> QED
        BY <4>1, <4>2
    <3> QED
      BY <3>1, <3>2, JobMoves
  <2>3. TaskOK(k, c, t)'
    BY <1>3, <2>2
  <2> QED
    BY <2>1, <2>3
<1>6. AnswersTold' /\ WorkOfJobs'
  BY <1>5 DEF AnswersTold, WorkOfJobs, TaskOK, Kinds
<1> QED
  BY <1>4, <1>6, FailuresStep DEF JobsTyped

-----------------------------------------------------------------------------
(* Reports, and subscriptions that end. *)

\* Every report on its way is one that the provider made of a subscription.
LEMMA ReportsStep ==
  ASSUME Inv, [Next]_vars
  PROVE  ReportsBounded' /\ ReportsTold'
<1>0. ReportsBounded /\ ReportsTold /\ \A e \in events : e.at \in Nat /\ e.c \in Checkouts
  BY DEF Inv, TypeOK
<1>1. \A e \in events : e.is \in Paying \cup Ended /\ Told(e.c, e.is)'
  BY <1>0, ToldStays DEF ReportsTold
<1>2. CASE events' \subseteq events
  BY <1>0, <1>1, <1>2 DEF ReportsBounded, ReportsTold
<1>3. ASSUME NEW c \in Checkouts, NEW s \in Paying \cup Ended, Reported(c, s), remote'[c] = s
      PROVE  ReportsBounded' /\ ReportsTold'
  <2>1. PICK t \in Nat : events' = events \cup {[c |-> c, is |-> s, at |-> t]}
    BY <1>3 DEF Reported
  <2>2. PICK b \in Nat : \A e \in events : e.at <= b
    BY <1>0 DEF ReportsBounded
  <2>3. b + t \in Nat /\ \A e \in events' : e.at <= b + t
    BY <1>0, <2>1, <2>2
  <2>4. Told(c, s)'
    BY <1>3 DEF Told, Paid, Ended
  <2>5. \A e \in events' : e.is \in Paying \cup Ended /\ Told(e.c, e.is)'
    BY <1>1, <2>1, <2>4
  <2> QED
    BY <2>3, <2>5 DEF ReportsBounded, ReportsTold
<1>4. ASSUME NEW c \in Checkouts, NEW s \in RemoteStatuses, Moves(c, s),
             UNCHANGED events \/ (s \in Paying \cup Ended /\ Reported(c, s))
      PROVE  ReportsBounded' /\ ReportsTold'
  BY <1>2, <1>3, <1>4 DEF Moves, Inv, TypeOK
<1>5. ASSUME NEW c \in Checkouts, UNCHANGED remote, remote[c] = "active", Reported(c, "active")
      PROVE  ReportsBounded' /\ ReportsTold'
  BY <1>3, <1>5 DEF Paying
<1> QED
  BY <1>2, <1>4, <1>5, ProviderStep

\* What is to end goes on to be so until it has ended.
LEMMA EndingStep ==
  ASSUME Inv, [Next]_vars
  PROVE  /\ EndingRuns'
         /\ \A c \in Checkouts : c \in ending \/ remote[c] = "cancelled"
                                    => c \in ending' \/ remote'[c] = "cancelled"
<1> USE DEF Inv, TypeOK, EndingRuns
<1>1. ASSUME UNCHANGED <<remote, ending>>
      PROVE  /\ EndingRuns'
             /\ \A c \in Checkouts : c \in ending \/ remote[c] = "cancelled"
                                        => c \in ending' \/ remote'[c] = "cancelled"
  BY <1>1
<1>2. ASSUME NEW d \in Checkouts, NEW s \in RemoteStatuses, Moves(d, s)
      PROVE  /\ EndingRuns'
             /\ \A c \in Checkouts : c \in ending \/ remote[c] = "cancelled"
                                        => c \in ending' \/ remote'[c] = "cancelled"
  BY <1>2 DEF Moves, Paying, Paid
<1>3. ASSUME NEW d \in Checkouts, Withdraws(d)
      PROVE  /\ EndingRuns'
             /\ \A c \in Checkouts : c \in ending \/ remote[c] = "cancelled"
                                        => c \in ending' \/ remote'[c] = "cancelled"
  BY <1>3 DEF Withdraws, Paying
<1> QED
  BY <1>1, <1>2, <1>3, ProviderStep

-----------------------------------------------------------------------------
(* Sessions. *)

\* A step for one checkout leaves the others alone.
Elsewhere(c) ==
    \A d \in Checkouts \ {c} :
        /\ st'[d] = st[d] /\ remote'[d] = remote[d] /\ call'[d] = call[d]
        /\ d \in shown' <=> d \in shown
        /\ task'[<<"recover", d>>] = task[<<"recover", d>>]

\* A checkout that a step leaves alone stays in order.
LEMMA SessionFrame ==
  ASSUME NEW d, SessionOK(d),
         st'[d] = st[d], remote'[d] = remote[d], call'[d] = call[d], d \in shown' <=> d \in shown,
         task'[<<"recover", d>>] = task[<<"recover", d>>] \/ task'[<<"recover", d>>].does = "nothing"
  PROVE  SessionOK(d)'
BY DEF SessionOK

\* What the worker is at for a checkout, after a job was given something to do.
LEMMA Recovers ==
  ASSUME Inv, NEW c \in Checkouts, NEW t
  PROVE  /\ \A k \in {"event", "refresh", "cancel"} : task' = [task EXCEPT ![<<k, c>>] = t] =>
               \A d \in Checkouts : task'[<<"recover", d>>] = task[<<"recover", d>>]
         /\ task' = [task EXCEPT ![<<"recover", c>>] = t] =>
               /\ task'[<<"recover", c>>] = t
               /\ \A d \in Checkouts \ {c} : task'[<<"recover", d>>] = task[<<"recover", d>>]
<1>1. task \in [Jobs -> Tasks] /\ \A k \in Kinds, d \in Checkouts : <<k, d>> \in Jobs
  BY TypeParts, JobsAre DEF Inv, JobsTyped
<1>2. \A k \in {"event", "refresh", "cancel"}, d \in Checkouts :
         k \in Kinds /\ "recover" \in Kinds /\ <<k, c>> # <<"recover", d>>
  BY DEF Kinds
<1>3. \A d \in Checkouts \ {c} : <<"recover", d>> # <<"recover", c>>
  OBVIOUS
<1> QED
  BY <1>1, <1>2, <1>3

Cancelling == {"trace", "cancel", "stop", "close"}

\* The worker's job for a checkout goes on, or ends.
WorkGoesOn(d) ==
    \/ task'[<<"recover", d>>] = task[<<"recover", d>>]
    \/ task'[<<"recover", d>>].does = "nothing"
    \/ task[<<"recover", d>>].does \in Cancelling /\ task'[<<"recover", d>>].does \in Cancelling

\* The provider's own moves fit the sessions as they are.
LEMMA SessionsOfProvider ==
  ASSUME Inv, [Next]_vars, UNCHANGED <<st, call, shown>>, \A d \in Checkouts : WorkGoesOn(d)
  PROVE  SessionsOK'
<1> USE DEF Inv, TypeOK, SessionsOK
<1>0. ASSUME NEW d \in Checkouts, remote'[d] = remote[d] PROVE SessionOK(d)'
  <2>1. SessionOK(d) /\ WorkGoesOn(d)
    OBVIOUS
  <2> QED
    BY <1>0, <2>1 DEF SessionOK, WorkGoesOn, Cancelling
<1>1. ASSUME UNCHANGED remote PROVE SessionsOK'
  BY <1>0, <1>1
<1>2. ASSUME NEW c \in Checkouts, NEW s \in RemoteStatuses, Moves(c, s) PROVE SessionsOK'
  <2>2. SessionOK(c)
    OBVIOUS
  <2>1. remote[c] # "absent"
    <3>1. CASE call' = [call EXCEPT ![c] = "link"]
      <4>1. call[c] = "link"
        BY <3>1
      <4> QED
        BY <2>2, <4>1 DEF SessionOK
    <3> QED
      BY <1>2, <3>1 DEF Moves, Paying
  <2>3. call[c] = "none"
    BY <1>2, <2>1, <2>2 DEF Moves, SessionOK, Creating, Paid, Paying
  <2>4. remote'[c] = s /\ (remote[c] \in Paid => s \in Paid) /\ (c \notin shown => s \notin Paid)
    BY <1>2, <2>1, <2>2 DEF Moves, SessionOK, Paid, Paying
  <2>5. SessionOK(c)'
    BY <2>1, <2>2, <2>3, <2>4 DEF SessionOK, WorkGoesOn, Cancelling
  <2>6. ASSUME NEW d \in Checkouts \ {c} PROVE SessionOK(d)'
    <3>1. remote'[d] = remote[d]
      BY <1>2 DEF Moves
    <3> QED
      BY <1>0, <3>1
  <2> QED
    BY <2>5, <2>6
<1>3. ASSUME NEW c \in Checkouts, Withdraws(c) PROVE SessionsOK'
  BY <1>1, <1>3 DEF Withdraws
<1> QED
  BY <1>1, <1>2, <1>3, ProviderStep

\* Every step leaves every checkout session in order.
LEMMA SessionsStep ==
  ASSUME Inv, [Next]_vars
  PROVE  SessionsOK'
<1> USE DEF Inv, TypeOK, SessionsOK
<1>0. ASSUME NEW c \in Checkouts, Elsewhere(c), SessionOK(c)' PROVE SessionsOK'
  BY <1>0, SessionFrame DEF Elsewhere
<1>2. ASSUME NEW c \in Checkouts, StartSeatCheckout(c) PROVE SessionsOK'
  <2>1. UNCHANGED <<remote, shown, task>>
    BY <1>2 DEF StartSeatCheckout, provider, jobs
  <2>2. SessionOK(c)'
    BY <1>2, <2>1 DEF StartSeatCheckout, SessionOK, Creating, Paid, Paying
  <2>3. ASSUME NEW d \in Checkouts \ {c} PROVE SessionOK(d)'
    <3>1. call'[d] = call[d]
      BY <1>2 DEF StartSeatCheckout
    <3>2. CASE st[d] \notin LiveStatuses
      <4>1. st'[d] = st[d]
        BY <1>2, <3>2 DEF StartSeatCheckout
      <4> QED
        BY <2>1, <3>1, <4>1, SessionFrame
    <3>3. CASE st[d] \in LiveStatuses
      <4>1. st'[d] = "cancel_pending" /\ Supersedable(d)
        BY <1>2, <3>3 DEF StartSeatCheckout
      <4>2. call[d] = "none"
        BY <4>1 DEF SessionOK, Supersedable, Creating
      <4> QED
        BY <2>1, <3>1, <4>1, <4>2 DEF SessionOK, Creating
    <3> QED
      BY <3>2, <3>3
  <2> QED
    BY <2>2, <2>3
<1>3. ASSUME NEW c \in Checkouts, ReuseCheckout(c) \/ ConfirmSeatCheckout(c) PROVE SessionsOK'
  <2>1. Elsewhere(c)
    BY <1>3 DEF ReuseCheckout, ConfirmSeatCheckout, Elsewhere, Becomes, provider, browser, jobs
  <2>2. SessionOK(c)'
    BY <1>3 DEF ReuseCheckout, ConfirmSeatCheckout, SessionOK, Becomes, provider, browser, jobs,
       Creating, Paid
  <2> QED
    BY <1>0, <2>1, <2>2
<1>4. ASSUME NEW c \in Checkouts, CreateSubscription(c) PROVE SessionsOK'
  <2>1. Elsewhere(c)
    BY <1>4 DEF CreateSubscription, Elsewhere, jobs
  <2>2. SessionOK(c)'
    BY <1>4 DEF CreateSubscription, SessionOK, jobs, Paid, Paying
  <2> QED
    BY <1>0, <2>1, <2>2
<1>5. ASSUME NEW c \in Checkouts, CreateRejected(c) \/ CreateUnanswered(c) \/ WebProcessDies(c)
      PROVE  SessionsOK'
  <2>1. Elsewhere(c)
    BY <1>5 DEF CreateRejected, CreateUnanswered, WebProcessDies, Elsewhere, Becomes, provider
  <2>2. st[c] = "provider_creating" /\ task[<<"recover", c>>].does # "search"
    BY <1>5 DEF CreateRejected, CreateUnanswered, WebProcessDies, SessionOK
  <2>3. SessionOK(c)'
    BY <1>5, <2>2 DEF CreateRejected, CreateUnanswered, WebProcessDies, SessionOK, Becomes, provider,
       Creating
  <2> QED
    BY <1>0, <2>1, <2>3
<1>6. ASSUME NEW c \in Checkouts, LinkProviderSubscription(c) PROVE SessionsOK'
  <2>1. Elsewhere(c)
    BY <1>6 DEF LinkProviderSubscription, Elsewhere, Becomes, provider, jobs
  <2>2. st[c] = "provider_creating" /\ remote[c] = "created"
    BY <1>6 DEF LinkProviderSubscription, SessionOK
  <2>3. SessionOK(c)'
    BY <1>6, <2>2 DEF LinkProviderSubscription, SessionOK, Becomes, provider, jobs, Creating
  <2> QED
    BY <1>0, <2>1, <2>3
<1>7. ASSUME NEW c \in Checkouts, RecoverCheckoutSession(c) PROVE SessionsOK'
  <2>1. UNCHANGED <<st, remote, call, shown>>
    BY <1>7 DEF RecoverCheckoutSession, provider, browser
  <2>2. PICK t : task' = [task EXCEPT ![<<"recover", c>>] = t] /\ t.does = Due(c)
    <3>1. PICK b : Begin(<<"recover", c>>, [does |-> Due(c), saw |-> remote[c], at |-> 0, read |-> b])
      BY <1>7 DEF RecoverCheckoutSession
    <3> DEFINE u == [does |-> Due(c), saw |-> remote[c], at |-> 0, read |-> b]
    <3>2. u.does = Due(c)
      OBVIOUS
    <3>3. task' = [task EXCEPT ![<<"recover", c>>] = u]
      BY <3>1 DEF Begin
    <3> HIDE DEF u
    <3> QED
      BY <3>2, <3>3
  <2>3. task'[<<"recover", c>>] = t
    BY <2>2, Recovers
  <2>4. \A d \in Checkouts \ {c} : task'[<<"recover", d>>] = task[<<"recover", d>>]
    BY <2>2, Recovers
  <2>5. Elsewhere(c)
    BY <2>1, <2>4 DEF Elsewhere
  <2>6. /\ Due(c) = "search" => st[c] \in Creating /\ call[c] = "none"
        /\ Due(c) \in {"trace", "cancel", "stop", "close"} => st[c] = "cancel_pending"
        /\ Due(c) # "nothing" => st[c] # "none"
        /\ Due(c) \in {"verify", "expiry"} => st[c] \notin Creating
    BY DEF Due, Creating
  <2>7. Due(c) # "nothing"
    BY <1>7 DEF RecoverCheckoutSession
  <2>8. SessionOK(c)'
    BY <2>1, <2>2, <2>3, <2>6, <2>7 DEF SessionOK
  <2> QED
    BY <1>0, <2>5, <2>8
<1>8. ASSUME NEW c \in Checkouts, NEW s \in Statuses, st' = [st EXCEPT ![c] = s],
             UNCHANGED <<remote, call, shown>>, Ends(<<"recover", c>>),
             s \in Creating \cup {"none", "verifying"} => st[c] = s,
             call[c] # "none" => st[c] = s
      PROVE  SessionsOK'
  <2>1. task' = [task EXCEPT ![<<"recover", c>>] = Idle]
    BY <1>8 DEF Ends, Begin
  <2>2. task'[<<"recover", c>>] = Idle
    BY <2>1, Recovers
  <2>3. \A d \in Checkouts \ {c} : task'[<<"recover", d>>] = task[<<"recover", d>>]
    BY <2>1, Recovers
  <2>4. Elsewhere(c)
    BY <1>8, <2>3 DEF Elsewhere
  <2>5. SessionOK(c)'
    BY <1>8, <2>2 DEF SessionOK, Idle
  <2> QED
    BY <1>0, <2>4, <2>5
<1>9. ASSUME NEW c \in Checkouts, UNCHANGED <<st, remote, call, shown>>, Ends(<<"recover", c>>)
      PROVE  SessionsOK'
  <2>1. st' = [st EXCEPT ![c] = st[c]] /\ st[c] \in Statuses
    BY <1>9
  <2> QED
    BY <1>8, <1>9, <2>1
<1>10. ASSUME NEW c \in Checkouts, At(<<"recover", c>>, "search") \/ At(<<"recover", c>>, "trace")
                                   \/ At(<<"recover", c>>, "cancel") \/ At(<<"recover", c>>, "close")
       PROVE  st[c] \in Creating \cup {"cancel_pending", "cancelled"} /\ call[c] = "none"
  BY <1>10 DEF SessionOK, At, Creating
<1>11. ASSUME NEW c \in Checkouts, NotFound(c) \/ CloseCancelled(c) PROVE SessionsOK'
  <2>1. UNCHANGED <<remote, call, shown>> /\ Ends(<<"recover", c>>)
    BY <1>11 DEF NotFound, CloseCancelled, provider, browser
  <2>2. call[c] = "none"
    BY <1>10, <1>11 DEF NotFound, CloseCancelled, At
  <2>3. UNCHANGED st \/ \E s \in {"failed_before_provider", "cancelled"} : st' = [st EXCEPT ![c] = s]
    BY <1>11 DEF NotFound, CloseCancelled, Becomes
  <2>4. {"failed_before_provider", "cancelled"} \subseteq Statuses
    BY DEF Statuses
  <2> QED
    BY <1>8, <1>9, <2>1, <2>2, <2>3, <2>4 DEF Creating
<1>12. ASSUME NEW c \in Checkouts, LinkFound(c) PROVE SessionsOK'
  <2>1. UNCHANGED <<remote, call, shown>> /\ Ends(<<"recover", c>>)
    BY <1>12 DEF LinkFound, provider, browser
  <2>2. call[c] = "none"
    BY <1>10, <1>12 DEF LinkFound
  <2>3. UNCHANGED st \/ \E s \in {"created", "cancel_pending"} : st' = [st EXCEPT ![c] = s]
    BY <1>12 DEF LinkFound, Becomes
  <2>4. {"created", "cancel_pending"} \subseteq Statuses
    BY DEF Statuses
  <2> QED
    BY <1>8, <1>9, <2>1, <2>2, <2>3, <2>4 DEF Creating
<1>13. ASSUME NEW c \in Checkouts, VerifyCheckout(c) \/ ExpireCheckout(c) PROVE SessionsOK'
  <2>1. UNCHANGED <<remote, call, shown>> /\ Ends(<<"recover", c>>)
    BY <1>13 DEF VerifyCheckout, ExpireCheckout, provider
  <2>2. \/ ApplyCheckoutEntity(c, task[<<"recover", c>>].saw, 0)
           /\ task[<<"recover", c>>].saw \in Paying \cup Ended
        \/ UNCHANGED st
        \/ st[c] = "created" /\ st' = [st EXCEPT ![c] = "expired"]
    BY <1>13, Answers DEF VerifyCheckout, ExpireCheckout, Becomes
  <2>3. UNCHANGED st \/ \E s \in Shelved \cup {"authorised", "expired"} : st' = [st EXCEPT ![c] = s]
    BY <2>2, Answers, Adopting DEF Kinds, Subscribes
  <2>4. Shelved \cup {"authorised", "expired"} \subseteq Statuses
    BY DEF Statuses, Shelved
  <2>5. call[c] = "none"
    BY <1>13 DEF SessionOK, VerifyCheckout, ExpireCheckout, At, Creating
  <2> QED
    BY <1>8, <1>9, <2>1, <2>3, <2>4, <2>5 DEF Creating, Shelved
<1>14. ASSUME NEW c \in Checkouts, DecideCancellation(c) PROVE SessionsOK'
  <2>1. UNCHANGED <<remote, call, shown>> /\ At(<<"recover", c>>, "cancel")
    BY <1>14 DEF DecideCancellation, provider
  <2>2. CASE Ends(<<"recover", c>>) /\ \E s \in {"authorised", "cancelled"} : st' = [st EXCEPT ![c] = s]
    <3>1. {"authorised", "cancelled"} \subseteq Statuses
      BY DEF Statuses
    <3> QED
      BY <1>8, <1>10, <2>1, <2>2, <3>1 DEF Creating
  <2>3. CASE Begin(<<"recover", c>>, [Idle EXCEPT !.does = "stop"]) /\ UNCHANGED st
    <3>0. task' = [task EXCEPT ![<<"recover", c>>] = [Idle EXCEPT !.does = "stop"]]
      BY <2>3 DEF Begin
    <3>4. task'[<<"recover", c>>] = [Idle EXCEPT !.does = "stop"]
      BY <3>0, Recovers
    <3>1. task'[<<"recover", c>>].does = "stop"
      BY <3>4 DEF Idle
    <3>2. \A d \in Checkouts \ {c} : task'[<<"recover", d>>] = task[<<"recover", d>>]
      BY <2>3, Recovers DEF Begin
    <3>3. \A d \in Checkouts : WorkGoesOn(d)
      BY <2>1, <3>1, <3>2 DEF WorkGoesOn, At, Cancelling
    <3> QED
      BY <2>1, <2>3, <3>3, SessionsOfProvider
  <2> QED
    BY <1>14, <2>2, <2>3 DEF DecideCancellation, Becomes
<1>15. ASSUME UNCHANGED <<st, call, shown>>, UNCHANGED task \/
              \E k \in {"event", "refresh", "cancel"}, c \in Checkouts : \E u : task' = [task EXCEPT ![<<k, c>>] = u]
       PROVE  SessionsOK'
  <2>1. \A d \in Checkouts : task'[<<"recover", d>>] = task[<<"recover", d>>]
    BY <1>15, Recovers
  <2> QED
    BY <1>15, <2>1, SessionsOfProvider DEF WorkGoesOn
<1>16. ASSUME NEW c \in Checkouts, ApplyWebhookEvent(c) PROVE SessionsOK'
  <2> DEFINE t == task[<<"event", c>>]
  <2>1. t \in Tasks /\ t.at \in Nat /\ t.saw \in Paying \cup Ended /\ Told(c, t.saw)
    BY <1>16, Answers DEF ApplyWebhookEvent, Kinds, Tasks
  <2>2. UNCHANGED <<st, linked>> \/ ApplyToSession(c, t.saw, t.at)
    BY <1>16 DEF ApplyWebhookEvent
  <2>3. UNCHANGED <<remote, call, shown>> /\ task' = [task EXCEPT ![<<"event", c>>] = Idle]
    BY <1>16 DEF ApplyWebhookEvent, Ends, Begin
  <2>4. \A d \in Checkouts : task'[<<"recover", d>>] = task[<<"recover", d>>]
    BY <2>3, Recovers
  <2>5. remote[c] \notin {"absent", "created"}
    BY <2>1 DEF Told, Paid, Paying, Ended
  <2>6. call[c] = "none" /\ st[c] # "none"
    BY <2>5 DEF SessionOK
  <2> HIDE DEF t
  <2>7. \/ UNCHANGED st
        \/ \E s \in Shelved \cup {"cancelled", "authorised"} :
              /\ st' = [st EXCEPT ![c] = s]
              /\ st[c] \in Creating \cup {"cancel_pending", "cancelled"} => s \in {"cancel_pending", "cancelled"}
    BY <2>1, <2>2, Resolving DEF Subscribes
  <2>8. CASE UNCHANGED st
    BY <1>15, <2>3, <2>4, <2>8
  <2>9. ASSUME NEW s \in Shelved \cup {"cancelled", "authorised"}, st' = [st EXCEPT ![c] = s],
               st[c] \in Creating \cup {"cancel_pending", "cancelled"} => s \in {"cancel_pending", "cancelled"}
        PROVE  SessionsOK'
    <3>1. Elsewhere(c)
      BY <2>3, <2>4, <2>9 DEF Elsewhere
    <3>2. st'[c] = s /\ s \notin Creating \cup {"none", "verifying"}
      BY <2>9 DEF Shelved, Creating
    <3>3. SessionOK(c) /\ task'[<<"recover", c>>] = task[<<"recover", c>>]
      BY <2>4
    <3>4. SessionOK(c)'
      BY <2>3, <2>6, <2>9, <3>2, <3>3 DEF SessionOK
    <3> QED
      BY <1>0, <3>1, <3>4
  <2> QED
    BY <2>7, <2>8, <2>9
<1>17. ASSUME NEW c \in Checkouts, TraceFound(c) \/ CancelSubscription(c) PROVE SessionsOK'
  <2>1. UNCHANGED <<st, call, shown>> /\ task[<<"recover", c>>].does \in Cancelling
    BY <1>17 DEF TraceFound, CancelSubscription, browser, At, Cancelling
  <2>2. PICK u : /\ task' = [task EXCEPT ![<<"recover", c>>] = u]
                 /\ u.does \in Cancelling \cup {"nothing"}
    <3>1. task[<<"recover", c>>] \in Tasks
      BY Answers DEF Kinds
    <3>2. CASE TraceFound(c)
      <4>1. PICK t \in Tasks : t = task[<<"recover", c>>]
        BY <3>1
      <4>2. task' = [task EXCEPT ![<<"recover", c>>] = [t EXCEPT !.does = "cancel", !.saw = remote[c]]]
        BY <3>2, <4>1 DEF TraceFound, Begin
      <4>3. [t EXCEPT !.does = "cancel", !.saw = remote[c]].does = "cancel"
        BY DEF Tasks
      <4> QED
        BY <4>2, <4>3 DEF Cancelling
    <3>3. CASE CancelSubscription(c)
      BY <3>3 DEF CancelSubscription, Ends, Begin, Cancelling, Idle
    <3> QED
      BY <1>17, <3>2, <3>3
  <2>3. task'[<<"recover", c>>] = u
    BY <2>2, Recovers
  <2>4. \A d \in Checkouts \ {c} : task'[<<"recover", d>>] = task[<<"recover", d>>]
    BY <2>2, Recovers
  <2>5. \A d \in Checkouts : WorkGoesOn(d)
    BY <2>1, <2>2, <2>3, <2>4 DEF WorkGoesOn
  <2> QED
    BY <2>1, <2>5, SessionsOfProvider
<1>18. ASSUME NEW c \in Checkouts, CallStep(c) \/ Customer(c) PROVE SessionsOK'
  <2>1. CASE CallStep(c)
    BY <1>4, <1>5, <1>6, <2>1 DEF CallStep
  <2>2. CASE StartSeatCheckout(c) \/ ReuseCheckout(c) \/ ConfirmSeatCheckout(c)
    BY <1>2, <1>3, <2>2
  <2>3. CASE Pay(c)
    BY <1>15, <2>3 DEF Pay, browser, jobs
  <2>4. CASE CancelPaidSubscription(c)
    <3>1. UNCHANGED task \/ \E u : task' = [task EXCEPT ![<<"cancel", c>>] = u]
      BY <2>4 DEF CancelPaidSubscription, Ask, Begin
    <3> QED
      BY <1>15, <2>4, <3>1 DEF CancelPaidSubscription, browser
  <2> QED
    BY <1>18, <2>1, <2>2, <2>3, <2>4 DEF Customer
<1>19. ASSUME NEW c \in Checkouts, Provider(c) PROVE SessionsOK'
  <2>1. UNCHANGED <<st, call, shown, task>>
    BY <1>19 DEF Provider, ChargeFails, ChargeSettles, SubscriptionEnds, PeriodEnds, Renew, Expire, browser, jobs
  <2> QED
    BY <1>15, <2>1
<1>20. ASSUME NEW c \in Checkouts, Recover(c) PROVE SessionsOK'
  BY <1>7, <1>11, <1>12, <1>13, <1>14, <1>17, <1>20 DEF Recover
<1>21. ASSUME NEW c \in Checkouts, Process(c) \/ Refresh(c) \/ Cancel(c) \/ FailCancellation(c)
       PROVE  SessionsOK'
  <2>1. CASE ApplyWebhookEvent(c)
    BY <1>16, <2>1
  <2>2. CASE ~ApplyWebhookEvent(c)
    <3>1. UNCHANGED <<st, call, shown>>
      BY <1>21, <2>2 DEF Process, Refresh, Cancel, ResolveTarget, ReconcileSubscription,
         ApplyReconciliation, RecoverCancellation, FinalizeCancellation, FailCancellation, browser
    <3>2. UNCHANGED task \/ \E k \in {"event", "refresh", "cancel"} : \E u : task' = [task EXCEPT ![<<k, c>>] = u]
      BY <1>21, <2>2 DEF Process, Refresh, Cancel, ResolveTarget, ReconcileSubscription,
         ApplyReconciliation, RecoverCancellation, FinalizeCancellation, FailCancellation, Ask, Begin, Ends
    <3> QED
      BY <1>15, <3>1, <3>2
  <2> QED
    BY <2>1, <2>2
<1>22. ASSUME NEW j \in Jobs, JobFails(j) PROVE SessionsOK'
  <2>1. PICK k \in Kinds, c \in Checkouts : j = <<k, c>>
    BY JobsAre
  <2>2. UNCHANGED <<st, remote, call, shown>> /\ Ends(<<k, c>>)
    BY <1>22, <2>1 DEF JobFails, browser, provider
  <2>3. CASE k = "recover"
    BY <1>9, <2>2, <2>3
  <2>4. CASE k # "recover"
    BY <1>15, <2>2, <2>4 DEF Kinds, Ends, Begin
  <2> QED
    BY <2>3, <2>4
<1>23. CASE UNCHANGED vars
  BY <1>15, <1>23 DEF vars, browser, jobs
<1> QED
  BY <1>18, <1>19, <1>20, <1>21, <1>22, <1>23 DEF Next


\* An authorised session stays so.
LEMMA AuthorisedStays ==
  ASSUME Inv, [Next]_vars, NEW d \in Checkouts, st[d] = "authorised"
  PROVE  st'[d] = "authorised"
<1> USE DEF Inv, TypeOK, SessionsOK
<1>1. ASSUME NEW c \in Checkouts, NEW s, st' = [st EXCEPT ![c] = s], d # c \/ s = "authorised"
      PROVE  st'[d] = "authorised"
  BY <1>1
<1>2. ASSUME UNCHANGED st PROVE st'[d] = "authorised"
  BY <1>2
<1>3. ASSUME NEW c \in Checkouts, StartSeatCheckout(c) PROVE st'[d] = "authorised"
  BY <1>3 DEF StartSeatCheckout, LiveStatuses, Creating
<1>4. ASSUME NEW c \in Checkouts, \/ CreateRejected(c) \/ CreateUnanswered(c) \/ LinkProviderSubscription(c)
                                  \/ ConfirmSeatCheckout(c)
      PROVE  st'[d] = "authorised"
  <2>1. UNCHANGED st \/ (st[c] # "authorised" /\ \E s : st' = [st EXCEPT ![c] = s])
    BY <1>4 DEF CreateRejected, CreateUnanswered, LinkProviderSubscription, ConfirmSeatCheckout,
       Becomes, SessionOK
  <2> QED
    BY <1>1, <1>2, <2>1
<1>5. ASSUME NEW c \in Checkouts, \/ NotFound(c) \/ LinkFound(c) \/ CloseCancelled(c) \/ DecideCancellation(c)
      PROVE  st'[d] = "authorised"
  <2>1. st[c] # "authorised"
    BY <1>5 DEF NotFound, LinkFound, CloseCancelled, DecideCancellation, At, SessionOK, Creating
  <2>2. UNCHANGED st \/ \E s : st' = [st EXCEPT ![c] = s]
    BY <1>5 DEF NotFound, LinkFound, CloseCancelled, DecideCancellation, Becomes
  <2> QED
    BY <1>1, <1>2, <2>1, <2>2
<1>6. ASSUME NEW c \in Checkouts, VerifyCheckout(c) \/ ExpireCheckout(c) PROVE st'[d] = "authorised"
  <2>1. \/ ApplyCheckoutEntity(c, task[<<"recover", c>>].saw, 0)
           /\ task[<<"recover", c>>].saw \in Paying \cup Ended
        \/ UNCHANGED st
        \/ st[c] = "created" /\ st' = [st EXCEPT ![c] = "expired"]
    BY <1>6, Answers DEF VerifyCheckout, ExpireCheckout, Becomes
  <2>2. UNCHANGED st \/ \E s : st' = [st EXCEPT ![c] = s] /\ (st[c] # "authorised" \/ s = "authorised")
    BY <2>1, Answers, Adopting DEF Kinds, Subscribes
  <2> QED
    BY <1>1, <1>2, <2>2
<1>7. ASSUME NEW c \in Checkouts, ApplyWebhookEvent(c) PROVE st'[d] = "authorised"
  <2> DEFINE t == task[<<"event", c>>]
  <2>1. t \in Tasks /\ t.at \in Nat /\ t.saw \in Paying \cup Ended /\ Told(c, t.saw)
    BY <1>7, Answers DEF ApplyWebhookEvent, Kinds, Tasks
  <2>2. UNCHANGED <<st, linked>> \/ ApplyToSession(c, t.saw, t.at)
    BY <1>7 DEF ApplyWebhookEvent
  <2> HIDE DEF t
  <2>3. UNCHANGED st \/ \E s : st' = [st EXCEPT ![c] = s] /\ (st[c] # "authorised" \/ s = "authorised")
    BY <2>1, <2>2, Resolving DEF Subscribes
  <2> QED
    BY <1>1, <1>2, <2>3
<1>8. ASSUME NEW c \in Checkouts, CallStep(c) \/ Customer(c) \/ Provider(c) PROVE st'[d] = "authorised"
  BY <1>2, <1>3, <1>4, <1>8 DEF CallStep, Customer, Provider, CreateSubscription, WebProcessDies,
     ReuseCheckout, Pay, CancelPaidSubscription, ChargeFails, ChargeSettles, SubscriptionEnds,
     PeriodEnds, Renew, Expire
<1>9. ASSUME NEW c \in Checkouts, Recover(c) PROVE st'[d] = "authorised"
  BY <1>2, <1>5, <1>6, <1>9 DEF Recover, RecoverCheckoutSession, TraceFound, CancelSubscription
<1>10. ASSUME NEW c \in Checkouts, Process(c) \/ Refresh(c) \/ Cancel(c) \/ FailCancellation(c)
       PROVE  st'[d] = "authorised"
  BY <1>2, <1>7, <1>10 DEF Process, Refresh, Cancel, ResolveTarget, ReconcileSubscription,
     ApplyReconciliation, RecoverCancellation, FinalizeCancellation, FailCancellation
<1>11. ASSUME NEW j \in Jobs, JobFails(j) PROVE st'[d] = "authorised"
  BY <1>2, <1>11 DEF JobFails
<1>12. CASE UNCHANGED vars
  BY <1>2, <1>12 DEF vars
<1> QED
  BY <1>8, <1>9, <1>10, <1>11, <1>12 DEF Next

-----------------------------------------------------------------------------
(* The plan, and its cancellation. *)

\* A subscription that was paid stays one that was.
LEMMA PaidStays ==
  ASSUME Inv, [Next]_vars, NEW c \in Checkouts, remote[c] \in Paid
  PROVE  remote'[c] \in Paid
<1>1. \E s \in Paid : s = remote[c]
  OBVIOUS
<1>2. CASE remote[c] \in Paying
  BY <1>2, ToldStays DEF Told
<1>3. CASE remote[c] = "cancelled"
  BY <1>3, ToldStays DEF Told, Ended, Paid, Paying
<1> QED
  BY <1>2, <1>3 DEF Paid

\* The subscription that the company's row names was authorised by its customer.
LEMMA PlanStep ==
  ASSUME Inv, [Next]_vars
  PROVE  PlanAuthorised'
<1> USE NoneIsNone DEF Inv, TypeOK, PlanAuthorised
<1>1. ASSUME UNCHANGED plan PROVE PlanAuthorised'
  BY <1>1, AuthorisedStays, PaidStays
<1>2. ASSUME NEW c \in Checkouts, Subscribes(c) PROVE PlanAuthorised'
  BY <1>2, PaidStays DEF Subscribes
<1>3. CASE Reverts
  BY <1>3 DEF Reverts
<1> QED
  BY <1>1, <1>2, <1>3, CompanyStep DEF company, Refreshes, Cancels

\* A company that was told of the end of its plan is not charged again.
LEMMA ToldStep ==
  ASSUME Inv, [Next]_vars
  PROVE  ToldEnds'
<1> USE NoneIsNone DEF Inv, TypeOK, ToldEnds
<1>1. ASSUME UNCHANGED <<plan, cancelling>> PROVE ToldEnds'
  BY <1>1, EndingStep
<1>2. ASSUME cancelling' = "none" PROVE ToldEnds'
  BY <1>2
<1>3. CASE Cancels
  BY <1>3, EndingStep DEF Cancels
<1> QED
  BY <1>1, <1>2, <1>3, CompanyStep DEF company, Refreshes, Subscribes, Reverts

\* A request to cancel is made when no other is on its way; every other step leaves
\* the answers that are on their way, or takes one off, and makes no new request.
LEMMA Requests ==
  ASSUME Inv, [Next]_vars,
         ~ \E c \in Checkouts : CancelPaidSubscription(c) \/ RecoverCancellation(c)
  PROVE  /\ cancelling' = "pending" => UNCHANGED <<plan, cancelling>>
         /\ \A d \in Checkouts :
               \/ task'[<<"cancel", d>>] = task[<<"cancel", d>>]
               \/ task'[<<"cancel", d>>].does = "nothing"
<1> DEFINE Quietly == cancelling' = "pending" => UNCHANGED <<plan, cancelling>>
           Kept == \A d \in Checkouts : \/ task'[<<"cancel", d>>] = task[<<"cancel", d>>]
                                        \/ task'[<<"cancel", d>>].does = "nothing"
<1>1. ASSUME UNCHANGED company PROVE Quietly
  BY <1>1 DEF company
<1>2. ASSUME NEW c, NEW status, NEW at,
             \/ ApplyCheckoutEntity(c, status, at) \/ ApplySubscriptionEntity(c, status, at)
             \/ ApplyToSession(c, status, at)
      PROVE  Quietly
  BY <1>2 DEF ApplyCheckoutEntity, ApplySubscriptionEntity, ApplyToSession, RevertToFree, company
<1>3. ASSUME NEW k \in Kinds, NEW c \in Checkouts, NEW t, Begin(<<k, c>>, t), k # "cancel" \/ t.does = "nothing"
      PROVE  Kept
  <2>1. task \in [Jobs -> Tasks] /\ "cancel" \in Kinds /\ \A d \in Checkouts : <<k, d>> \in Jobs /\ <<"cancel", d>> \in Jobs
    BY TypeParts, JobsAre DEF Inv, JobsTyped, Kinds
  <2> SUFFICES ASSUME NEW d \in Checkouts
               PROVE  \/ task'[<<"cancel", d>>] = task[<<"cancel", d>>]
                      \/ task'[<<"cancel", d>>].does = "nothing"
    OBVIOUS
  <2>2. CASE <<k, c>> = <<"cancel", d>>
    BY <1>3, <2>1, <2>2 DEF Begin
  <2>3. CASE <<k, c>> # <<"cancel", d>>
    BY <1>3, <2>1, <2>3 DEF Begin
  <2> QED
    BY <2>2, <2>3
<1>4. ASSUME NEW k \in Kinds, NEW c \in Checkouts, Ends(<<k, c>>) PROVE Kept
  BY <1>3, <1>4 DEF Ends, Idle
<1>5. ASSUME UNCHANGED task PROVE Kept
  BY <1>5
<1>k. "recover" \in Kinds /\ "event" \in Kinds /\ "refresh" \in Kinds /\ "cancel" \in Kinds
  BY DEF Kinds
<1> HIDE DEF Quietly, Kept
<1>6. ASSUME NEW c \in Checkouts, Recover(c) PROVE Kept
  <2>1. Ends(<<"recover", c>>) \/ \E t : Begin(<<"recover", c>>, t)
    BY <1>6 DEF Recover, RecoverCheckoutSession, NotFound, LinkFound, TraceFound, VerifyCheckout,
       ExpireCheckout, DecideCancellation, CancelSubscription, CloseCancelled
  <2> QED
    BY <1>3, <1>4, <1>k, <2>1
<1>7. ASSUME NEW c \in Checkouts, Recover(c) PROVE Quietly
  BY <1>1, <1>2, <1>7 DEF Recover, RecoverCheckoutSession, NotFound, LinkFound, TraceFound,
     VerifyCheckout, ExpireCheckout, DecideCancellation, CancelSubscription, CloseCancelled
<1>8. ASSUME NEW c \in Checkouts, Process(c) \/ Refresh(c) PROVE Kept
  <2>1. PICK k \in {"event", "refresh"} : \E t : Begin(<<k, c>>, t)
    BY <1>8 DEF Process, Refresh, ResolveTarget, ApplyWebhookEvent, ReconcileSubscription,
       ApplyReconciliation, Ends
  <2> QED
    BY <1>3, <1>k, <2>1
<1>9. ASSUME NEW c \in Checkouts, Process(c) \/ Refresh(c) PROVE Quietly
  BY <1>1, <1>2, <1>9 DEF Process, Refresh, ResolveTarget, ApplyWebhookEvent, ReconcileSubscription,
     ApplyReconciliation
<1>10. ASSUME NEW c \in Checkouts, FinalizeCancellation(c) \/ FailCancellation(c) PROVE Quietly /\ Kept
  <2>1. Ends(<<"cancel", c>>)
    BY <1>10 DEF FinalizeCancellation, FailCancellation
  <2>2. UNCHANGED company \/ cancelling' # "pending"
    BY <1>10 DEF FinalizeCancellation, FailCancellation, GivesUp, Reads, RevertToFree
  <2> QED
    BY <1>1, <1>4, <1>k, <2>1, <2>2 DEF Quietly
<1>11. ASSUME NEW c \in Checkouts, CallStep(c) \/ Customer(c) \/ Provider(c) PROVE Quietly /\ Kept
  <2>1. ~CancelPaidSubscription(c)
    OBVIOUS
  <2> QED
    BY <1>1, <1>5, <1>11, <2>1 DEF CallStep, Customer, Provider, CreateSubscription, CreateRejected,
       CreateUnanswered, WebProcessDies, LinkProviderSubscription, StartSeatCheckout, ReuseCheckout,
       ConfirmSeatCheckout, Pay, ChargeFails, ChargeSettles, SubscriptionEnds, PeriodEnds, Renew,
       Expire, jobs
<1>12. ASSUME NEW j \in Jobs, JobFails(j) PROVE Quietly /\ Kept
  BY <1>1, <1>4, <1>12, JobsAre DEF JobFails
<1>13. ASSUME UNCHANGED vars PROVE Quietly /\ Kept
  BY <1>1, <1>5, <1>13 DEF vars, jobs
<1>14. Quietly /\ Kept
  BY <1>6, <1>7, <1>8, <1>9, <1>10, <1>11, <1>12, <1>13 DEF Next, Cancel
<1> QED
  BY <1>14 DEF Quietly, Kept

\* The answer to a request is about the subscription it was made for.
LEMMA ScheduleStep ==
  ASSUME Inv, [Next]_vars
  PROVE  ScheduleOK'
<1> USE DEF Inv, ScheduleOK
<1>1. CASE ~ \E c \in Checkouts : CancelPaidSubscription(c) \/ RecoverCancellation(c)
  <2> SUFFICES ASSUME NEW d \in Checkouts, task'[<<"cancel", d>>].does = "schedule"
               PROVE  /\ cancelling' = "pending" => plan' = d
                      /\ d \in ending' \/ remote'[d] = "cancelled"
    OBVIOUS
  <2>1. task[<<"cancel", d>>].does = "schedule"
    BY <1>1, Requests
  <2> QED
    BY <1>1, <2>1, Requests, EndingStep
<1>2. ASSUME NEW c \in Checkouts, CancelPaidSubscription(c) \/ RecoverCancellation(c) PROVE ScheduleOK'
  <2>1. plan = c /\ plan' = c /\ UNCHANGED remote
    BY <1>2 DEF CancelPaidSubscription, RecoverCancellation, Ask, Reads
  <2>2. \A d \in Checkouts : task[<<"cancel", d>>].does # "schedule"
    BY <1>2 DEF CancelPaidSubscription, RecoverCancellation, Free, At
  <2>3. CASE UNCHANGED task
    BY <2>2, <2>3
  <2>4. ASSUME NEW byWorker, Ask(c, byWorker), ~UNCHANGED task PROVE ScheduleOK'
    <3>1. \E t : task' = [task EXCEPT ![<<"cancel", c>>] = t]
      BY <2>4 DEF Ask, Begin
    <3>2. \A d \in Checkouts \ {c} : task'[<<"cancel", d>>] = task[<<"cancel", d>>]
      <4>1. \A d \in Checkouts \ {c} : <<"cancel", d>> \in Jobs /\ <<"cancel", d>> # <<"cancel", c>>
        BY JobsAre DEF Kinds
      <4> QED
        BY <3>1, <4>1 DEF TypeOK
    <3>3. remote[c] = "active" \/ remote[c] \in Ended
      BY <2>4 DEF Ask
    <3>4. c \in ending' \/ remote'[c] = "cancelled"
      BY <2>1, <2>4, <3>3, NoneIsNone DEF Ask, PlanAuthorised, Paid, Paying, Ended
    <3> QED
      BY <2>1, <2>2, <3>2, <3>4
  <2> QED
    BY <1>2, <2>3, <2>4 DEF CancelPaidSubscription, RecoverCancellation
<1> QED
  BY <1>1, <1>2

-----------------------------------------------------------------------------
(* Theorems. *)

\* Every step keeps the types.
LEMMA TypeStep ==
  ASSUME Inv, [Next]_vars
  PROVE  TypeOK'
<1>1. SessionsTyped' /\ CompanyTyped' /\ ProviderTyped' /\ JobsTyped' /\ HistoryTyped'
  BY SessionsTypeStep, CompanyTypeStep, ProviderTypeStep, JobsStep, HistoryTypeStep
<1> QED
  BY <1>1 DEF TypeOK, SessionsTyped, CompanyTyped, ProviderTyped, JobsTyped, HistoryTyped, Tasks, Works

\* The invariant: what anybody was told is so, a plan rests on an authorised and paid
\* checkout, and an answer to a cancellation is about the plan it was asked for.
THEOREM Invariance == Spec => []Inv
<1>1. Inv /\ [Next]_vars => Inv'
  <2> SUFFICES ASSUME Inv, [Next]_vars PROVE Inv'
    OBVIOUS
  <2> QED
    BY TypeStep, JobsStep, ReportsStep, EndingStep, SessionsStep, PlanStep, ToldStep, ScheduleStep
    DEF Inv
<1> QED
  BY InvInit, <1>1, PTL DEF Spec

\* Every variable keeps its type, and a paid status goes with a paid plan.
THEOREM TypeCorrect == Spec => []TypeOK
<1>1. Inv => TypeOK
  BY DEF Inv
<1> QED
  BY <1>1, Invariance, PTL

-----------------------------------------------------------------------------
(* The contract: what the sessions, messages and workers come to.          *)

Mandate(c) == IF remote[c] \in Paying
              THEN IF c \in ending THEN "last period" ELSE "given"
              ELSE IF remote[c] = "cancelled" THEN "ended" ELSE "none"

\* A change of the provider's subscription is a change of the mandate, or none.
LEMMA MandateMoves ==
  ASSUME Inv, NEW c \in Checkouts, NEW s \in RemoteStatuses, Moves(c, s)
  PROVE  /\ \A d \in Checkouts \ {c} : Mandate(d)' = Mandate(d)
         /\ \/ Mandate(c)' = Mandate(c)
            \/ Mandate(c) = "none" /\ Mandate(c)' = "given"
            \/ Mandate(c) \in {"given", "last period"} /\ Mandate(c)' = "ended"
<1>1. \A d \in Checkouts \ {c} : remote'[d] = remote[d] /\ (d \in ending' <=> d \in ending)
  BY DEF Moves, Inv, TypeOK
<1>2. remote'[c] = s
  BY DEF Moves, Inv, TypeOK
<1>3. c \in ending => remote[c] \in Paying
  BY DEF Inv, EndingRuns
<1>4. \A d \in Checkouts \ {c} : Mandate(d)' = Mandate(d)
  BY <1>1 DEF Mandate
<1>5. \/ remote[c] = "absent" /\ s = "created"
      \/ remote[c] = "created" /\ s = "active"
      \/ remote[c] = "created" /\ s = "expired"
      \/ remote[c] \in Paying /\ s \in Paid
  BY DEF Moves
<1>6. c \in ending' <=> c \in ending /\ s # "cancelled"
  BY DEF Moves
<1> QED
  BY <1>2, <1>3, <1>4, <1>5, <1>6 DEF Mandate, Paying, Paid

\* The company is on a paid plan by one mandate at a time, and until that is over;
\* it is told that the plan ends only when the provider will not charge it again.
THEOREM Refines == Spec => KeepsPlan
<1> DEFINE M == [c \in Checkouts |-> Mandate(c)]
           T == (cancelling = "scheduled")
<1>0. /\ \A c \in Checkouts : M[c] = Mandate(c)
      /\ \A c \in Checkouts : M'[c] = Mandate(c)'
      /\ \A c \in Checkouts : \A m :
            M' = [M EXCEPT ![c] = m] <=>
               Mandate(c)' = m /\ \A d \in Checkouts \ {c} : Mandate(d)' = Mandate(d)
      /\ M' = M <=> \A c \in Checkouts : Mandate(c)' = Mandate(c)
  OBVIOUS
<1>i. Init => Plan!Init
  <2> SUFFICES ASSUME Init PROVE Plan!Init
    OBVIOUS
  <2> QED
    BY DEF Init, Plan!Init, Paying
<1>n. Inv /\ [Next]_vars => [Plan!Next]_(Plan!vars)
  <2> SUFFICES ASSUME Inv, [Next]_vars PROVE [Plan!Next]_(Plan!vars)
    OBVIOUS
  <2>m. M = [c \in Checkouts |-> IF remote[c] \in Paying
                                 THEN IF c \in ending THEN "last period" ELSE "given"
                                 ELSE IF remote[c] = "cancelled" THEN "ended" ELSE "none"]
    BY DEF Mandate
  <2>s. plan' = plan /\ M' = M /\ T' = T => UNCHANGED Plan!vars
    BY DEF Plan!vars, Mandate
  <2>c. \A c \in Checkouts :
           /\ (M[c] = "none" /\ M' = [M EXCEPT ![c] = "given"] /\ plan' = plan /\ T' = T) => Plan!Give(c)
           /\ (M[c] = "given" /\ M' = [M EXCEPT ![c] = "last period"] /\ plan' = plan /\ T' = T) => Plan!Withdraw(c)
           /\ (M[c] \in {"given", "last period"} /\ M' = [M EXCEPT ![c] = "ended"] /\ plan' = plan /\ T' = T)
                 => Plan!Finish(c)
           /\ (plan = None /\ M[c] # "none" /\ plan' = c /\ M' = M /\ T' = T) => Plan!Subscribe(c)
    BY DEF Plan!Give, Plan!Withdraw, Plan!Finish, Plan!Subscribe, Mandate
  <2>p. /\ (plan # None /\ M[plan] # "given" /\ T' = TRUE /\ plan' = plan /\ M' = M) => Plan!Announce
        /\ (plan # None /\ M[plan] = "ended" /\ plan' = None /\ T' = FALSE /\ M' = M) => Plan!Revert
    BY DEF Plan!Announce, Plan!Revert, Mandate
  <2> HIDE DEF M, T
  <2>1. ASSUME NEW c \in Checkouts, NEW s \in RemoteStatuses, Moves(c, s)
        PROVE  [Plan!Next]_(Plan!vars)
    <3>1. plan' = plan /\ T' = T
      BY <2>1 DEF Moves, company, T
    <3>2. CASE Mandate(c)' = Mandate(c)
      BY <1>0, <2>s, <2>1, <3>1, <3>2, MandateMoves
    <3>3. CASE Mandate(c) = "none" /\ Mandate(c)' = "given"
      BY <1>0, <2>c, <2>1, <3>1, <3>3, MandateMoves DEF Plan!Next
    <3>4. CASE Mandate(c) \in {"given", "last period"} /\ Mandate(c)' = "ended"
      BY <1>0, <2>c, <2>1, <3>1, <3>4, MandateMoves DEF Plan!Next
    <3> QED
      BY <2>1, <3>2, <3>3, <3>4, MandateMoves
  <2>2. ASSUME NEW c \in Checkouts, Withdraws(c) PROVE [Plan!Next]_(Plan!vars)
    <3>1. plan' = plan /\ T' = T
      BY <2>2 DEF Withdraws, T
    <3>2. \A d \in Checkouts \ {c} : Mandate(d)' = Mandate(d)
      BY <2>2 DEF Withdraws, Mandate
    <3>3. Mandate(c)' = "last period" /\ Mandate(c) \in {"given", "last period"}
      BY <2>2 DEF Withdraws, Mandate, Paying
    <3>4. CASE Mandate(c) = "given"
      BY <1>0, <2>c, <3>1, <3>2, <3>3, <3>4 DEF Plan!Next
    <3>5. CASE Mandate(c) = "last period"
      BY <1>0, <2>s, <3>1, <3>2, <3>3, <3>5
    <3> QED
      BY <3>3, <3>4, <3>5
  <2>3. ASSUME UNCHANGED <<remote, ending>> PROVE [Plan!Next]_(Plan!vars)
    <3>1. M' = M
      BY <1>0, <2>3 DEF Mandate
    <3>2. CASE UNCHANGED company
      BY <2>s, <3>1, <3>2 DEF company, T
    <3>3. ASSUME NEW c \in Checkouts, Subscribes(c) PROVE [Plan!Next]_(Plan!vars)
      <4>1. Mandate(c) # "none"
        BY <3>3 DEF Subscribes, Mandate, Paid
      <4> QED
        BY <1>0, <2>c, <3>1, <3>3, <4>1 DEF Subscribes, T, Plan!Next
    <3>4. CASE Reverts
      <4>1. plan \in Checkouts /\ Mandate(plan) = "ended"
        BY <3>4 DEF Reverts, Mandate, Inv, TypeOK, Paying
      <4>2. T' = FALSE
        BY <3>4 DEF Reverts, T
      <4> QED
        BY <1>0, <2>p, <3>1, <3>4, <4>1, <4>2 DEF Reverts, Plan!Next
    <3>5. CASE Refreshes
      BY <2>s, <3>1, <3>5 DEF Refreshes, T
    <3>6. CASE Cancels
      <4>1. CASE cancelling' # "scheduled"
        BY <2>s, <3>1, <3>6, <4>1 DEF Cancels, T
      <4>2. CASE cancelling' = "scheduled"
        <5>1. plan \in Checkouts /\ Mandate(plan) # "given"
          BY <3>6, <4>2 DEF Cancels, Mandate, Inv, TypeOK, Paying
        <5>2. T' = TRUE
          BY <4>2 DEF T
        <5> QED
          BY <1>0, <2>p, <3>1, <3>6, <5>1, <5>2 DEF Cancels, Plan!Next
      <4> QED
        BY <4>1, <4>2
    <3> QED
      BY <3>2, <3>3, <3>4, <3>5, <3>6, CompanyStep
  <2> QED
    BY <2>1, <2>2, <2>3, ProviderStep
<1> QED
  BY <1>i, <1>n, Invariance, PTL DEF Spec, KeepsPlan, Plan!Spec
=============================================================================

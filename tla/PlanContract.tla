---------------------------- MODULE PlanContract ----------------------------
(***************************************************************************)
(* What Billing promises a company and whoever bills it: the company is on *)
(* a paid plan only by a mandate somebody gave, on one at a time, and the  *)
(* plan is taken away only when the mandate behind it is over.  It reads   *)
(* that its plan was cancelled only when the mandate will not be used for  *)
(* another period.  No session, message or worker appears here.            *)
(***************************************************************************)
CONSTANTS Checkouts, None

VARIABLES
    plan,       \* the mandate the company's plan rests on, None on the free one
    mandate,    \* what the customer and the payment provider agreed on
    told        \* the company reads that its plan ends with the period

vars == <<plan, mandate, told>>

Init ==
    /\ plan = None
    /\ mandate = [c \in Checkouts |-> "none"]
    /\ told = FALSE

Give(c) ==
    /\ mandate[c] = "none"
    /\ mandate' = [mandate EXCEPT ![c] = "given"]
    /\ UNCHANGED <<plan, told>>

Withdraw(c) ==
    /\ mandate[c] = "given"
    /\ mandate' = [mandate EXCEPT ![c] = "last period"]
    /\ UNCHANGED <<plan, told>>

Finish(c) ==
    /\ mandate[c] \in {"given", "last period"}
    /\ mandate' = [mandate EXCEPT ![c] = "ended"]
    /\ UNCHANGED <<plan, told>>

\* Word of a mandate may come late: it may be over when the plan begins.
Subscribe(c) ==
    /\ plan = None /\ mandate[c] # "none"
    /\ plan' = c
    /\ UNCHANGED <<mandate, told>>

Announce ==
    /\ plan # None /\ mandate[plan] # "given"
    /\ told' = TRUE
    /\ UNCHANGED <<plan, mandate>>

Revert ==
    /\ plan # None /\ mandate[plan] = "ended"
    /\ plan' = None /\ told' = FALSE
    /\ UNCHANGED mandate

Next ==
    \/ \E c \in Checkouts : Give(c) \/ Withdraw(c) \/ Finish(c) \/ Subscribe(c)
    \/ Announce \/ Revert

Spec == Init /\ [][Next]_vars
=============================================================================

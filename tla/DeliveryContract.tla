-------------------------- MODULE DeliveryContract --------------------------
(***************************************************************************)
(* What a durable queue promises the code that puts an item in it, without *)
(* the workers that drain it: the item stays open until it is done or      *)
(* given up, and takes effect only while it is open.  An item that is late *)
(* is owed like an open one, but may be forgotten before it is done: it    *)
(* was handed in, or reopened, when what it belongs to was already being   *)
(* removed.  The job queue, the webhook deliveries, the workflow runs and  *)
(* the mail queue implement it; only webhook deliveries can be late.       *)
(***************************************************************************)
EXTENDS Naturals

CONSTANTS
    Ids,
    Atomic,      \* the items for which taking effect and being done are one step
    Reopenable,  \* the items an operator may have tried again once given up
    Losable      \* the items that can come too late

VARIABLES state, delivered

vars == <<state, delivered>>

Init ==
    /\ state = [i \in Ids |-> "none"]
    /\ delivered = [i \in Ids |-> 0]

To(I, s) == state' = [i \in Ids |-> IF i \in I THEN s ELSE state[i]]

Owed(i) == state[i] \in {"open", "late"}

\* Takes the items I in, late if they can be.
Enter(I) == To(I, "open") \/ (I \subseteq Losable /\ To(I, "late"))

\* Several items may be accepted, or forgotten, together.
Accept(I) == (\A i \in I : state[i] = "none") /\ Enter(I) /\ UNCHANGED delivered

Deliver(i) ==
    /\ Owed(i)
    /\ delivered' = [delivered EXCEPT ![i] = @ + 1]
    /\ IF i \in Atomic THEN To({i}, "done") ELSE UNCHANGED state

Close(i) ==
    /\ Owed(i)
    /\ i \notin Atomic
    /\ delivered[i] > 0
    /\ To({i}, "done")
    /\ UNCHANGED delivered

GiveUp(i) == Owed(i) /\ To({i}, "dead") /\ UNCHANGED delivered

Reopen(i) == i \in Reopenable /\ state[i] = "dead" /\ Enter({i}) /\ UNCHANGED delivered

\* What is owed is forgotten only when it came too late.
Forget(I) ==
    /\ \A i \in I : state[i] \in {"late", "done", "dead"}
    /\ To(I, "gone")
    /\ UNCHANGED delivered

Next ==
    \/ \E I \in SUBSET Ids : Accept(I) \/ Forget(I)
    \/ \E i \in Ids : Deliver(i) \/ Close(i) \/ GiveUp(i) \/ Reopen(i)

Spec == Init /\ [][Next]_vars
=============================================================================

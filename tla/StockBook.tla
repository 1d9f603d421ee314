----------------------------- MODULE StockBook -----------------------------
(***************************************************************************)
(* What Inventory promises the documents that keep stock aside: a posting, *)
(* a reservation, a release, a delivery and a cancellation each happen at  *)
(* one moment, stock kept for one line is never taken by another, and a    *)
(* line keeps no more than it still needs.  No session, lock or statement  *)
(* appears here.                                                           *)
(***************************************************************************)
EXTENDS Integers, FiniteSetsExt

CONSTANTS
    Places,
    Lines,
    Loose    \* lines whose reservations are not held to what the line still needs

VARIABLES
    stock,   \* stock[p]: on hand at a place
    kept,    \* kept[l][p]: what is reserved there for a line
    need     \* need[l]: what the line still needs

vars == <<stock, kept, need>>

KeptAt(p) == SumFunctionOnSet([l \in Lines |-> kept[l][p]], Lines)
KeptFor(l) == SumFunction(kept[l])
Free(p) == stock[p] - KeptAt(p)

Init ==
    /\ stock \in [Places -> Nat]
    /\ kept \in [Lines -> [Places -> Nat]]
    /\ need \in [Lines -> Nat]
    /\ \A p \in Places : Free(p) >= 0
    /\ \A l \in Lines : KeptFor(l) <= need[l]

\* Only line l is concerned, and afterwards nobody's stock is missing.
For(l) ==
    /\ \A k \in Lines \ {l} : kept'[k] = kept[k] /\ need'[k] = need[k]
    /\ \A p \in Places : kept'[l][p] >= 0 /\ Free(p)' >= 0

WithinNeed(l) == l \in Loose \/ KeptFor(l) <= need[l]

\* A movement takes only what is free.
Post(p) ==
    /\ stock' = [stock EXCEPT ![p] = stock'[p]]
    /\ Free(p)' >= 0
    /\ UNCHANGED <<kept, need>>

Keep(l) ==
    /\ For(l)
    /\ \A p \in Places : kept'[l][p] >= kept[l][p]
    /\ WithinNeed(l)'
    /\ UNCHANGED <<stock, need>>

GiveBack(l) ==
    /\ For(l)
    /\ \A p \in Places : kept'[l][p] <= kept[l][p]
    /\ UNCHANGED <<stock, need>>

\* What is kept moves to other places; none of it is lost.
Shift(l) ==
    /\ For(l)
    /\ l \in Loose
    /\ KeptFor(l)' = KeptFor(l)
    /\ UNCHANGED <<stock, need>>

\* Everything delivered leaves the stock, from what the line kept first.
Deliver(l) ==
    LET gone == [p \in Places |-> stock[p] - stock'[p]] IN
    /\ For(l)
    /\ \A p \in Places : gone[p] >= 0 /\ kept'[l][p] <= kept[l][p]
    /\ SumFunction(gone) = need[l] - need'[l]
    /\ \A p \in Places : kept[l][p] - kept'[l][p] <= gone[p]
    /\ WithinNeed(l)'

\* The demand is withdrawn, and what is kept beyond the rest goes back.
Cancel(l) ==
    /\ For(l)
    /\ need'[l] \in 0 .. need[l]
    /\ \A p \in Places : kept'[l][p] <= kept[l][p]
    /\ WithinNeed(l)'
    /\ UNCHANGED stock

Next ==
    \/ \E p \in Places : Post(p)
    \/ \E l \in Lines : Keep(l) \/ GiveBack(l) \/ Shift(l) \/ Deliver(l) \/ Cancel(l)

Spec == Init /\ [][Next]_vars
=============================================================================

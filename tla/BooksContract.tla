--------------------------- MODULE BooksContract ---------------------------
(***************************************************************************)
(* What Accounting promises whoever reads a month's statements: an entry   *)
(* is made once, it is undone at most once and never before it was made,   *)
(* nothing enters or leaves a month that is closed, and a year ends with   *)
(* one closing entry that carries over what all its months earned.  No     *)
(* transaction, lock or document appears here.                             *)
(***************************************************************************)
EXTENDS Integers, FiniteSets

CONSTANTS
    Months,    \* of one year, in date order
    Sources,   \* the documents and hand-written journals that may be entered
    Earning    \* those that bear on the year's profit or loss

VARIABLES
    entered,   \* entered[m]: the sources whose entry is dated in month m
    undone,    \* undone[m]: the sources whose reversal is dated in month m
    frozen,    \* the months that are closed
    carried,   \* the sources whose result the closing entry has carried over
    ended      \* has the year been closed?

vars == <<entered, undone, frozen, carried, ended>>

Init ==
    /\ entered = [m \in Months |-> {}]
    /\ undone = [m \in Months |-> {}]
    /\ frozen = {}
    /\ carried = {}
    /\ ended = FALSE

Enter(x, m) ==
    /\ m \notin frozen
    /\ \A k \in Months : x \notin entered[k]
    /\ entered' = [entered EXCEPT ![m] = @ \cup {x}]
    /\ UNCHANGED <<undone, frozen, carried, ended>>

Undo(x, m) ==
    /\ m \notin frozen
    /\ \E k \in Months : k <= m /\ x \in entered[k]
    /\ \A k \in Months : x \notin undone[k]
    /\ undone' = [undone EXCEPT ![m] = @ \cup {x}]
    /\ UNCHANGED <<entered, frozen, carried, ended>>

Freeze(m) ==
    /\ m \notin frozen
    /\ frozen' = frozen \cup {m}
    /\ UNCHANGED <<entered, undone, carried, ended>>

Thaw(m) ==
    /\ m \in frozen
    /\ frozen' = frozen \ {m}
    /\ UNCHANGED <<entered, undone, carried, ended>>

\* The closing entry is the one entry that goes into months that are closed.
EndYear ==
    /\ ~ended
    /\ frozen = Months
    /\ ended' = TRUE
    /\ carried' = {x \in Earning : \E m \in Months : x \in entered[m] /\ \A k \in Months : x \notin undone[k]}
    /\ UNCHANGED <<entered, undone, frozen>>

Next ==
    \/ \E x \in Sources, m \in Months : Enter(x, m) \/ Undo(x, m)
    \/ \E m \in Months : Freeze(m) \/ Thaw(m)
    \/ EndYear

Spec == Init /\ [][Next]_vars
=============================================================================

------------------------- MODULE StockReservations -------------------------
(***************************************************************************)
(* Stock, and what is kept aside of it: the reservation engine of          *)
(* modules/stock (index.js, reservations.js) with the sales documents,     *)
(* the inventory screens and the physical counts that call it at the same  *)
(* time.  One item in one warehouse.                                       *)
(*                                                                         *)
(* A session is a database connection running one request in one           *)
(* transaction (READ COMMITTED); an action is one SQL statement, or a      *)
(* statement with those that follow it on rows it already holds.  A        *)
(* statement reads what is committed and what its own transaction wrote;   *)
(* row locks, and the advisory lock of the item, are held until the        *)
(* transaction ends.  What a transaction wrote stays in tx until then.     *)
(***************************************************************************)
EXTENDS Integers, FiniteSetsExt

CONSTANTS
    Sessions,
    Places,      \* stock positions: rows of stock_balances
    Lines,       \* order lines, each with its reservation (inventory_reservations)
    Shared,      \* the lines Inventory itself releases and reallocates
    Nobody,      \* the holder of a lock nobody holds
    Stock0,      \* what each place holds at the start
    Need0,       \* what each line is ordered for
    Books0,      \* the allocations there may be at the start: sequences of [line, place, n]
    Countable,   \* bound of the model: the places that are counted
    AllocCap,    \* bound of the model: allocations ever made
    Asked,       \* bound of the model: Asked[l], the quantity sales asks for on line l
    Postings,    \* bound of the model: the quantities posted by hand
    Requests,    \* bound of the model: requests ever made
    CountCap     \* bound of the model: physical counts ever started

Allocs == 1 .. AllocCap   \* rows of stock_reservations, in the order they are made
Kinds == {"reserve", "release", "cancel", "deliver", "free", "drop", "reallocate", "move"}

KeptIn(b, S) == SumFunctionOnSet([a \in DOMAIN b |-> b[a].n], S)

ASSUME ConstantsOK ==
    /\ Shared \subseteq Lines
    /\ IsFiniteSet(Places) /\ Places # {} /\ IsFiniteSet(Lines) /\ Lines # {}
    /\ Nobody \notin Sessions \cup Places \cup Lines
    /\ Stock0 \in [Places -> Nat]
    /\ Need0 \in [Lines -> Nat]
    /\ \A b \in Books0 :
           /\ DOMAIN b \in SUBSET Allocs
           /\ \A a \in DOMAIN b : b[a].line \in Lines /\ b[a].place \in Places /\ b[a].n \in Nat \ {0}
           /\ \A p \in Places : KeptIn(b, {a \in DOMAIN b : b[a].place = p}) <= Stock0[p]
           /\ \A l \in Lines : KeptIn(b, {a \in DOMAIN b : b[a].line = l}) <= Need0[l]
    /\ Countable \subseteq Places
    /\ Asked \in [Lines -> Nat \ {0}] /\ Postings \subseteq Int \ {0}
    /\ AllocCap \in Nat /\ Requests \in Nat /\ CountCap \in Nat

VARIABLES
    onHand,     \* stock_balances.quantity
    reserved,   \* stock_balances.reserved_quantity
    ledger,     \* the sum of a place's stock_movements
    active,     \* stock_reservations.active_quantity
    place,      \* where an allocation is
    line,       \* whose it is
    total,      \* inventory_reservations.active_base_quantity
    need,       \* what a line still needs: ordered, less delivered and cancelled
    counted,    \* places under a physical count (inventory_count_locks)
    early,      \* history: sessions already past their count check when it began
    lock,       \* who holds a row, or the item's advisory lock
    pc,         \* what a session does next
    tx,         \* its request, what it has in hand and what it has written
    requests,   \* bound of the model
    counts      \* bound of the model

balances == <<onHand, reserved, ledger>>
allocations == <<active, place, line>>
documents == <<total, need>>
freeze == <<counted, early>>
database == <<balances, allocations, documents, freeze>>
bounds == <<requests, counts>>
vars == <<database, lock, pc, tx, bounds>>

Item == <<"item">>
Order(l) == <<"order", l>>
Parent(l) == <<"parent", l>>
Balance(p) == <<"balance", p>>
Alloc(a) == <<"alloc", a>>
Rows == {Item} \cup {Order(l) : l \in Lines} \cup {Parent(l) : l \in Lines}
               \cup {Balance(p) : p \in Places} \cup {Alloc(a) : a \in Allocs}

AnyPlace == CHOOSE p \in Places : TRUE
AnyLine == CHOOSE l \in Lines : TRUE
Unwritten == -1

Idle == [kind |-> "move", line |-> AnyLine, place |-> AnyPlace, n |-> 0,
         listed |-> [a \in Allocs |-> 0], amount |-> 0, take |-> 0, seen |-> 0,
         rows |-> {}, checked |-> {}, made |-> {},
         hand |-> [p \in Places |-> Unwritten], moved |-> [p \in Places |-> 0],
         held |-> [p \in Places |-> 0], alloc |-> [a \in Allocs |-> 0], total |-> Unwritten]

Init ==
    /\ onHand = Stock0
    /\ ledger = Stock0
    /\ \E b \in Books0 :
           /\ active = [a \in Allocs |-> IF a \in DOMAIN b THEN b[a].n ELSE 0]
           /\ place = [a \in Allocs |-> IF a \in DOMAIN b THEN b[a].place ELSE Nobody]
           /\ line = [a \in Allocs |-> IF a \in DOMAIN b THEN b[a].line ELSE Nobody]
           /\ reserved = [p \in Places |-> KeptIn(b, {a \in DOMAIN b : b[a].place = p})]
           /\ total = [l \in Lines |-> KeptIn(b, {a \in DOMAIN b : b[a].line = l})]
    /\ need = Need0
    /\ counted = {}
    /\ early = [p \in Places |-> {}]
    /\ lock = [r \in Rows |-> Nobody]
    /\ pc = [s \in Sessions |-> "idle"]
    /\ tx = [s \in Sessions |-> Idle]
    /\ requests = 0
    /\ counts = 0

-----------------------------------------------------------------------------
(* What a statement of session s reads. *)

\* What an allocation and a line hold as far as s can tell: committed, and s's own writes.
Left(s, a) == active[a] + tx[s].alloc[a]
AllLeft(s) == [a \in Allocs |-> Left(s, a)]
HeldBy(s, l) == SumFunctionOnSet(AllLeft(s), {a \in Allocs : line[a] = l})
Hand(s, p) == IF tx[s].hand[p] = Unwritten THEN onHand[p] ELSE tx[s].hand[p]
Free(s, p) == Hand(s, p) - (reserved[p] + tx[s].held[p])
Total(s, l) == IF tx[s].total = Unwritten THEN total[l] ELSE tx[s].total
Open(l) == {a \in Allocs : active[a] > 0 /\ line[a] = l}
Listed(s) == {a \in Allocs : tx[s].listed[a] > 0}
Fresh == {a \in Allocs : line[a] = Nobody}

\* Deliveries take the oldest allocation first, releases the newest.
InTurn(s) == IF tx[s].kind = "deliver" THEN Min(Listed(s)) ELSE Max(Listed(s))

\* Reserving takes the place with the most to give first.
Fullest(s, S) == CHOOSE p \in S : \A q \in S : Free(s, p) >= Free(s, q)

Unclaimed(s) == {a \in Listed(s) : lock[Alloc(a)] # s}
Unlocked(s) == {p \in tx[s].rows : lock[Balance(p)] # s}

\* A posting moves the stock of its request, or of the allocation it consumes.
Posting(s) == tx[s].kind = "move" \/ tx[s].take > 0
PostedAt(s) == IF tx[s].kind = "move" THEN tx[s].place ELSE place[InTurn(s)]
Signed(s) == IF tx[s].kind = "move" THEN tx[s].n ELSE -tx[s].take

\* The row a session needs for its next statement.
Wanted(s) ==
    CASE pc[s] = "order" -> Order(tx[s].line)
      [] pc[s] = "claim" -> Alloc(Min(Unclaimed(s)))
      [] pc[s] = "alloc" -> Alloc(InTurn(s))
      [] pc[s] = "balance" -> Balance(place[InTurn(s)])
      [] pc[s] \in {"sync", "parent"} -> Parent(tx[s].line)
      [] pc[s] = "position" -> Balance(PostedAt(s))
      [] pc[s] = "rows" -> Balance(Fullest(s, Unlocked(s)))
      [] OTHER -> Item
Locking == {"order", "claim", "alloc", "balance", "sync", "parent", "item", "position", "rows"}
Asking(s) == pc[s] \in Locking /\ (pc[s] = "rows" => Unlocked(s) # {})
Blocked(s) == Asking(s) /\ lock[Wanted(s)] \notin {Nobody, s}

At(s, where) == pc[s] = where
Go(s, where) == pc' = [pc EXCEPT ![s] = where]
Unless(ok, where) == IF ok THEN where ELSE "rollback"
Take(s) == ~Blocked(s) /\ lock' = [lock EXCEPT ![Wanted(s)] = s]

Smaller(m, n) == IF m < n THEN m ELSE n
Larger(m, n) == IF m > n THEN m ELSE n

-----------------------------------------------------------------------------
(* A request arrives: its transaction begins. *)

Begin(s, where, request) ==
    /\ At(s, "idle")
    /\ requests < Requests
    /\ requests' = requests + 1
    /\ tx' = [tx EXCEPT ![s] = request]
    /\ Go(s, where)
    /\ UNCHANGED <<database, lock, counts>>

\* Sales reserves what a line still lacks, or gives back, cancels or dispatches a
\* quantity of it.  All lock the order first.
BeginSales(s) ==
    \E l \in Lines, kind \in {"reserve", "release", "cancel", "deliver"} :
        Begin(s, "order", [Idle EXCEPT !.kind = kind, !.line = l, !.n = Asked[l]])

\* Inventory releases all that a reservation holds.
BeginRelease(s) ==
    \E l \in Shared : Begin(s, "parent", [Idle EXCEPT !.kind = "free", !.line = l])

\* Inventory releases one allocation that somebody saw active.
BeginReleaseOne(s) ==
    \E a \in Allocs :
        /\ active[a] > 0
        /\ line[a] \in Shared
        /\ Begin(s, "alloc", [Idle EXCEPT !.kind = "drop", !.line = line[a], !.listed[a] = 1])

\* Inventory moves an allocation somebody saw active to another place.
BeginReallocate(s) ==
    \E a \in Allocs, p \in Places :
        /\ active[a] > 0
        /\ line[a] \in Shared
        /\ Begin(s, "alloc", [Idle EXCEPT !.kind = "reallocate", !.line = line[a],
                                          !.place = p, !.listed[a] = 1])

\* A receipt, an issue or an adjustment by hand.
BeginMove(s) ==
    \E p \in Places, n \in Postings :
        Begin(s, "check", [Idle EXCEPT !.kind = "move", !.place = p, !.n = n])

-----------------------------------------------------------------------------
(* The order is locked and its line read. *)

ReserveForOrder(s) ==
    LET lacking == need[tx[s].line] - HeldBy(s, tx[s].line) IN
    /\ At(s, "order") /\ tx[s].kind = "reserve"
    /\ Take(s)
    /\ tx' = [tx EXCEPT ![s].amount = Larger(lacking, 0)]
    /\ Go(s, IF lacking > 0 THEN "item" ELSE "commit")
    /\ UNCHANGED <<database, bounds>>

ReleaseForOrder(s) ==
    /\ At(s, "order") /\ tx[s].kind = "release"
    /\ Take(s)
    /\ tx' = [tx EXCEPT ![s].amount = tx[s].n]
    /\ Go(s, Unless(tx[s].n <= HeldBy(s, tx[s].line), "list"))
    /\ UNCHANGED <<database, bounds>>

\* Only what is held beyond what is still to deliver goes back.
Excess(s, l) == HeldBy(s, l) - (need[l] - tx[s].n)

CancelRemaining(s) ==
    LET l == tx[s].line
        excess == Excess(s, l)
    IN
    /\ At(s, "order") /\ tx[s].kind = "cancel"
    /\ Take(s)
    /\ tx' = [tx EXCEPT ![s].amount = Larger(excess, 0)]
    /\ Go(s, Unless(tx[s].n <= need[l], IF excess > 0 THEN "list" ELSE "commit"))
    /\ UNCHANGED <<database, bounds>>

DispatchDelivery(s) ==
    /\ At(s, "order") /\ tx[s].kind = "deliver"
    /\ Take(s)
    /\ tx' = [tx EXCEPT ![s].amount = tx[s].n]
    /\ Go(s, Unless(tx[s].n <= need[tx[s].line], "list"))
    /\ UNCHANGED <<database, bounds>>

\* Inventory's release locks the reservation first, and asks whether it is active.
LockReservation(s) ==
    /\ At(s, "parent") /\ tx[s].kind = "free"
    /\ Take(s)
    /\ Go(s, IF total[tx[s].line] > 0 THEN "list" ELSE "commit")
    /\ UNCHANGED <<database, tx, bounds>>

-----------------------------------------------------------------------------
(* The allocations of a line are listed, and given back or consumed in turn. *)

\* Where a transaction goes once an allocation is dealt with.
Continue(s, listed, amount) ==
    IF (\E a \in Allocs : listed[a] > 0) /\ (amount > 0 \/ tx[s].kind = "free") THEN "alloc"
    ELSE IF tx[s].kind = "reallocate" \/ (tx[s].kind = "deliver" /\ amount > 0) THEN "item"
    ELSE "commit"

ListAllocations(s) ==
    LET found == [a \in Allocs |-> IF a \in Open(tx[s].line) THEN active[a] ELSE 0] IN
    /\ At(s, "list")
    /\ tx' = [tx EXCEPT ![s].listed = found]
    /\ Go(s, IF tx[s].kind = "deliver" /\ Open(tx[s].line) # {} THEN "claim"
             ELSE Continue(s, found, tx[s].amount))
    /\ UNCHANGED <<database, lock, bounds>>

\* A delivery locks every allocation it listed; one closed meanwhile drops out.
ClaimAllocation(s) ==
    LET a == Min(Unclaimed(s))
        listed == [tx[s].listed EXCEPT ![a] = active[a]]
    IN
    /\ At(s, "claim")
    /\ Take(s)
    /\ tx' = [tx EXCEPT ![s].listed = listed]
    /\ Go(s, IF Unclaimed(s) # {a} THEN "claim" ELSE Continue(s, listed, tx[s].amount))
    /\ UNCHANGED <<database, bounds>>

\* Mutant: the row is locked, and what was listed believed.
LeftAsListed(s, a) == tx[s].listed[a]

\* What the row turns out to hold once it is locked.
Found(s, a) == Left(s, a)

Whole(s) == tx[s].kind \in {"free", "drop", "reallocate"}

\* Mutant: a delivery consumes all of an allocation.
TakesWhole(s, a) ==
    IF Whole(s) \/ tx[s].kind = "deliver" THEN Found(s, a) ELSE Smaller(tx[s].amount, tx[s].listed[a])

Takes(s, a) == IF Whole(s) THEN Found(s, a) ELSE Smaller(tx[s].amount, tx[s].listed[a])

\* releaseStockReservation and consumeStockReservation, and the head of
\* reallocateStockReservation: an allocation no longer active is skipped by a
\* release and refused by a reallocation.
LockAllocation(s) ==
    LET a == InTurn(s)
        left == Found(s, a)
        take == Takes(s, a)
        listed == [tx[s].listed EXCEPT ![a] = 0]
        amount == IF Whole(s) THEN tx[s].amount ELSE tx[s].amount - take
    IN
    /\ At(s, "alloc")
    /\ Take(s)
    /\ IF left = 0 /\ tx[s].kind # "reallocate"
       THEN /\ tx' = [tx EXCEPT ![s].listed = listed, ![s].amount = amount]
            /\ Go(s, Continue(s, listed, amount))
       ELSE /\ tx' = [tx EXCEPT ![s].take = take]
            /\ Go(s, Unless(0 < take /\ take <= left, "balance"))
    /\ UNCHANGED <<database, bounds>>

\* Mutant: the balance follows only when the allocation closes.
FreedOnClose(s, a) == IF tx[s].take = Left(s, a) THEN tx[s].take ELSE 0

Freed(s, a) == tx[s].take

\* adjustReservedBalance, and the UPDATE of the allocation.
GiveUpReserved(s) ==
    LET a == InTurn(s)
        p == place[a]
    IN
    /\ At(s, "balance")
    /\ Take(s)
    /\ tx' = [tx EXCEPT ![s].held[p] = @ - Freed(s, a), ![s].alloc[a] = @ - tx[s].take]
    /\ Go(s, Unless(reserved[p] + tx[s].held[p] >= tx[s].take, "totals"))
    /\ UNCHANGED <<database, bounds>>

\* Mutant: a trigger that runs before the row is changed.
TotalsBefore(s) == SumFunctionOnSet(active, {a \in Allocs : line[a] = tx[s].line})

Totals(s) == HeldBy(s, tx[s].line)

\* The trigger's UPDATE of the reservation: the sums are of its snapshot, and
\* stay so if it has to wait for the row.
ReadTotals(s) ==
    /\ At(s, "totals")
    /\ tx' = [tx EXCEPT ![s].seen = Totals(s)]
    /\ Go(s, "sync")
    /\ UNCHANGED <<database, lock, bounds>>

Settled(s) == [tx[s] EXCEPT !.listed[InTurn(s)] = 0, !.take = 0,
                            !.amount = IF tx[s].kind = "reallocate" THEN tx[s].take
                                       ELSE IF tx[s].kind \in {"free", "drop"} THEN @ ELSE @ - tx[s].take]

WriteTotals(s) ==
    LET settled == [Settled(s) EXCEPT !.total = tx[s].seen] IN
    /\ At(s, "sync")
    /\ Take(s)
    /\ IF tx[s].kind = "deliver"
       THEN tx' = [tx EXCEPT ![s].total = tx[s].seen] /\ Go(s, "check")
       ELSE tx' = [tx EXCEPT ![s] = settled] /\ Go(s, Continue(s, settled.listed, settled.amount))
    /\ UNCHANGED <<database, bounds>>

-----------------------------------------------------------------------------
(* postStockMovement. *)

\* The count locks are read before the item is locked.
CheckCount(s) ==
    LET p == PostedAt(s) IN
    /\ At(s, "check")
    /\ tx' = [tx EXCEPT ![s].checked = @ \cup {p}]
    /\ Go(s, Unless(p \notin counted, "item"))
    /\ UNCHANGED <<database, lock, bounds>>

LockInventoryItem(s) ==
    /\ At(s, "item")
    /\ Take(s)
    /\ Go(s, IF Posting(s) THEN "position" ELSE "demand")
    /\ UNCHANGED <<database, tx, bounds>>

\* Mutant: a balance read once for the whole transaction.
PostedOnce(s, p) == onHand[p] + Signed(s)

Posted(s, p) == Hand(s, p) + Signed(s)

Enough(s, p) == Signed(s) > 0 \/ Free(s, p) + Signed(s) >= 0

\* The balance is read FOR UPDATE; a decrease takes only what is available.
PostMovement(s) ==
    LET p == PostedAt(s)
        posted == IF tx[s].kind = "move" THEN tx[s] ELSE Settled(s)
    IN
    /\ At(s, "position")
    /\ Take(s)
    /\ tx' = [tx EXCEPT ![s] = [posted EXCEPT !.hand[p] = Posted(s, p),
                                              !.moved[p] = @ + Signed(s)]]
    /\ Go(s, Unless(Enough(s, p),
                    Continue(s, posted.listed, IF tx[s].kind = "move" THEN 0 ELSE posted.amount)))
    /\ UNCHANGED <<database, bounds>>

-----------------------------------------------------------------------------
(* ensureReservation, then reserveAvailableStock or reserveStock.  A         *)
(* reallocation reserves exactly what it released, at the place asked for;   *)
(* a delivery needs all of what it did not find reserved.                    *)

Exact(s) == tx[s].kind # "reserve"
Suits(s, p) == IF tx[s].kind = "reallocate" THEN p = tx[s].place /\ Free(s, p) >= tx[s].amount
               ELSE Free(s, p) > 0
NothingFound(s) == IF Exact(s) THEN "rollback" ELSE "commit"

\* The demand is read before the reservation is locked.
ReadDemand(s) ==
    /\ At(s, "demand")
    /\ tx' = [tx EXCEPT ![s].seen = need[tx[s].line]]
    /\ Go(s, Unless(need[tx[s].line] > 0, "parent"))
    /\ UNCHANGED <<database, lock, bounds>>

EnsureReservation(s) ==
    LET room == Larger(tx[s].seen - Total(s, tx[s].line), 0) IN
    /\ At(s, "parent") /\ tx[s].kind # "free"
    /\ Take(s)
    /\ tx' = [tx EXCEPT ![s].amount = Smaller(@, room)]
    /\ Go(s, IF Exact(s) THEN Unless(tx[s].amount <= room, "pick")
             ELSE IF room > 0 THEN "pick" ELSE "commit")
    /\ UNCHANGED <<database, bounds>>

\* The balances with stock to give, as the statement's snapshot shows them.
PickRows(s) ==
    LET found == {p \in Places : Suits(s, p) /\ (tx[s].kind = "reallocate" \/ p \notin counted)} IN
    /\ At(s, "pick")
    /\ tx' = [tx EXCEPT ![s].rows = found, ![s].checked = @ \cup found]
    /\ Go(s, IF found = {} THEN NothingFound(s) ELSE "rows")
    /\ UNCHANGED <<database, lock, bounds>>

\* Each is locked, and looked at again once it is.
LockRow(s) ==
    LET p == Fullest(s, Unlocked(s))
        rows == IF Suits(s, p) THEN tx[s].rows ELSE tx[s].rows \ {p}
    IN
    /\ At(s, "rows") /\ Unlocked(s) # {}
    /\ Take(s)
    /\ tx' = [tx EXCEPT ![s].rows = rows]
    /\ Go(s, IF rows = {} THEN NothingFound(s) ELSE "rows")
    /\ UNCHANGED <<database, bounds>>

MayReserve(s) == tx[s].kind # "reallocate" \/ tx[s].place \notin counted

\* reserveStock asks for a count only now.
RowsLocked(s) ==
    /\ At(s, "rows") /\ Unlocked(s) = {}
    /\ Go(s, Unless(MayReserve(s), "insert"))
    /\ UNCHANGED <<database, lock, tx, bounds>>

\* insertReservation, with the trigger and the UPDATE of the balance: their
\* rows are all held.
InsertReservation(s) ==
    LET p == Fullest(s, tx[s].rows)
        q == Smaller(tx[s].amount, Free(s, p))
        a == Min(Fresh)
        rows == tx[s].rows \ {p}
        amount == tx[s].amount - q
        mine == [tx[s].alloc EXCEPT ![a] = q]
    IN
    /\ At(s, "insert")
    /\ Fresh # {}
    /\ lock' = [lock EXCEPT ![Alloc(a)] = s]
    /\ place' = [place EXCEPT ![a] = p]
    /\ line' = [line EXCEPT ![a] = tx[s].line]
    /\ LET written == [tx[s] EXCEPT !.alloc = mine, !.held[p] = @ + q, !.made = @ \cup {a},
                                    !.total = HeldBy(s, tx[s].line) + q, !.rows = rows, !.amount = amount]
           taken == [b \in Allocs |-> IF mine[b] > 0 THEN mine[b] ELSE 0]
       IN IF amount > 0 /\ rows # {}
          THEN tx' = [tx EXCEPT ![s] = written] /\ Go(s, "insert")
          ELSE IF tx[s].kind = "deliver"
          THEN /\ tx' = [tx EXCEPT ![s] = [written EXCEPT !.listed = taken, !.rows = {},
                                                          !.amount = SumFunctionOnSet(taken, Allocs)]]
               /\ Go(s, Unless(amount = 0, "alloc"))
          ELSE tx' = [tx EXCEPT ![s] = written] /\ Go(s, "commit")
    /\ UNCHANGED <<balances, active, documents, freeze, bounds>>

-----------------------------------------------------------------------------
(* The end of a transaction. *)

\* Mutant: an advisory lock of the session, not of the transaction.
LetGoOfRows(s) == {r \in Rows \ {Item} : lock[r] = s}

LetGo(s) == {r \in Rows : lock[r] = s}

End(s) ==
    /\ lock' = [r \in Rows |-> IF r \in LetGo(s) THEN Nobody ELSE lock[r]]
    /\ early' = [p \in Places |-> early[p] \ {s}]
    /\ tx' = [tx EXCEPT ![s] = Idle]
    /\ Go(s, "idle")

\* refreshSalesOrderProgress and the cancelled quantity are part of it.
Commit(s) ==
    LET settles == tx[s].kind \in {"cancel", "deliver"} IN
    /\ At(s, "commit")
    /\ onHand' = [p \in Places |-> Hand(s, p)]
    /\ ledger' = [p \in Places |-> ledger[p] + tx[s].moved[p]]
    /\ reserved' = [p \in Places |-> reserved[p] + tx[s].held[p]]
    /\ active' = [a \in Allocs |-> active[a] + tx[s].alloc[a]]
    /\ total' = [total EXCEPT ![tx[s].line] = Total(s, tx[s].line)]
    /\ need' = [need EXCEPT ![tx[s].line] = IF settles THEN @ - tx[s].n ELSE @]
    /\ End(s)
    /\ UNCHANGED <<place, line, counted, bounds>>

\* The request is refused, or a statement failed: nothing of it remains.
Rollback(s) ==
    /\ At(s, "rollback")
    /\ place' = [a \in Allocs |-> IF a \in tx[s].made THEN Nobody ELSE place[a]]
    /\ line' = [a \in Allocs |-> IF a \in tx[s].made THEN Nobody ELSE line[a]]
    /\ End(s)
    /\ UNCHANGED <<balances, active, documents, counted, bounds>>

\* Any statement may fail.
StatementFails(s) ==
    /\ pc[s] \notin {"idle", "rollback"}
    /\ Go(s, "rollback")
    /\ UNCHANGED <<database, lock, tx, bounds>>

\* PostgreSQL ends one transaction of a cycle of waiting ones.
Deadlocked(s) ==
    \E C \in SUBSET Sessions :
        /\ s \in C
        /\ \A t \in C : Blocked(t)
        /\ {lock[Wanted(t)] : t \in C} = C
DetectDeadlock(s) ==
    /\ Deadlocked(s)
    /\ Go(s, "rollback")
    /\ UNCHANGED <<database, lock, tx, bounds>>

-----------------------------------------------------------------------------
(* Physical counts.  What a count writes is seen when its transaction         *)
(* commits; it waits for nobody who moves or reserves stock.                 *)

StartCount(p) ==
    /\ p \in Countable \ counted
    /\ counts < CountCap
    /\ counts' = counts + 1
    /\ counted' = counted \cup {p}
    /\ early' = [early EXCEPT ![p] = {s \in Sessions : p \in tx[s].checked}]
    /\ UNCHANGED <<balances, allocations, documents, lock, pc, tx, requests>>

CancelCount(p) ==
    /\ p \in counted
    /\ counted' = counted \ {p}
    /\ early' = [early EXCEPT ![p] = {}]
    /\ UNCHANGED <<balances, allocations, documents, lock, pc, tx, bounds>>

-----------------------------------------------------------------------------
Statement(s) ==
    \/ ReserveForOrder(s) \/ ReleaseForOrder(s) \/ CancelRemaining(s) \/ DispatchDelivery(s)
    \/ LockReservation(s) \/ ListAllocations(s) \/ ClaimAllocation(s) \/ LockAllocation(s)
    \/ GiveUpReserved(s) \/ ReadTotals(s) \/ WriteTotals(s)
    \/ CheckCount(s) \/ LockInventoryItem(s) \/ PostMovement(s)
    \/ ReadDemand(s) \/ EnsureReservation(s) \/ PickRows(s) \/ LockRow(s) \/ RowsLocked(s)
    \/ InsertReservation(s)
    \/ Commit(s) \/ Rollback(s)

Next ==
    \/ \E s \in Sessions :
           \/ BeginSales(s) \/ BeginRelease(s) \/ BeginReleaseOne(s) \/ BeginReallocate(s) \/ BeginMove(s)
           \/ Statement(s) \/ StatementFails(s) \/ DetectDeadlock(s)
    \/ \E p \in Places : StartCount(p) \/ CancelCount(p)

\* A transaction runs to its end unless it waits, and PostgreSQL looks for
\* transactions that wait for each other.  Nobody has to make a request.
Spec ==
    /\ Init /\ [][Next]_vars
    /\ \A s \in Sessions : WF_vars(Statement(s))
    /\ WF_vars(\E s \in Sessions : DetectDeadlock(s))

-----------------------------------------------------------------------------
(* Properties. *)

Writes == [Places -> Int]
Request == [kind : Kinds, line : Lines, place : Places, n : Int, listed : [Allocs -> Nat],
            amount : Nat, take : Nat, seen : Int, rows : SUBSET Places, checked : SUBSET Places,
            made : SUBSET Allocs, hand : Writes, moved : Writes, held : Writes,
            alloc : [Allocs -> Int], total : Int]

\* Every variable keeps its type; quantities in the database are never negative.
TypeOK ==
    /\ onHand \in [Places -> Nat] /\ reserved \in [Places -> Nat] /\ ledger \in [Places -> Int]
    /\ active \in [Allocs -> Nat]
    /\ place \in [Allocs -> Places \cup {Nobody}] /\ line \in [Allocs -> Lines \cup {Nobody}]
    /\ total \in [Lines -> Nat] /\ need \in [Lines -> Nat]
    /\ counted \in SUBSET Places
    /\ early \in [Places -> SUBSET Sessions]
    /\ lock \in [Rows -> Sessions \cup {Nobody}]
    /\ pc \in [Sessions -> Locking \cup {"idle", "list", "totals", "check", "demand", "pick",
                                         "insert", "commit", "rollback"}]
    /\ tx \in [Sessions -> Request]
    /\ requests \in 0 .. Requests /\ counts \in 0 .. CountCap

ActiveAt(p) == SumFunctionOnSet(active, {a \in Allocs : place[a] = p})
ActiveFor(l) == SumFunctionOnSet(active, {a \in Allocs : line[a] = l})

\* What a balance row shows as reserved is what its active allocations hold: no
\* interleaving of reserving, releasing, delivering and reallocating makes the
\* projection drift (reconcileReservedProjection never has anything to repair).
ReservedIsActive == \A p \in Places : reserved[p] = ActiveAt(p)

\* The recorded stock is the sum of the ledger, although postStockMovement
\* writes the quantity it computed and not an increment.
BalanceIsLedger == \A p \in Places : onHand[p] = ledger[p]

\* Its reservation shows what its allocations hold.
OrderTotalsFollow == \A l \in Lines \ Shared : total[l] = ActiveFor(l)

\* The header of 0072_stock_reservations.sql says so of every reservation.
TotalsFollow == \A l \in Lines : total[l] = ActiveFor(l)

\* "Stock under an active physical count does not move" (index.js): what the count
\* recorded when it started is what there is until it ends.
CountedStays == [][\A p \in counted \cap counted' : onHand'[p] = onHand[p]]_vars

\* Whatever locks requests take and in whatever order, none waits for ever.
EveryRequestEnds == \A s \in Sessions : pc[s] # "idle" ~> pc[s] = "idle"

\* Each transaction happens at its commit.
Book == INSTANCE StockBook WITH
    stock <- onHand,
    kept <- [l \in Lines |-> [p \in Places |->
                SumFunctionOnSet(active, {a \in Allocs : line[a] = l /\ place[a] = p})]],
    Loose <- Shared
KeepsBook == Book!Spec
=============================================================================

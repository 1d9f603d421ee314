--------------------------- MODULE StockBookProofs ---------------------------
(***************************************************************************)
(* StockReservations implements StockBook, for any number of sessions,      *)
(* places, lines and allocations: every commit is one step of the book, and  *)
(* nothing else is seen there.                                              *)
(***************************************************************************)
EXTENDS StockReservationsProofs

-----------------------------------------------------------------------------
(* What a transaction that is about to commit has moved, kept and given back.  *)

\* What is taken off the allocation in turn and not dealt with yet.
Given(s) == Giving(s) /\ pc[s] # "balance"
InHand(s) == IF Given(s) THEN tx[s].take ELSE 0
HandOf(s, a) == IF Given(s) /\ a = InTurn(s) THEN tx[s].take ELSE 0
HandAt(s, p) == IF Given(s) /\ p = place[InTurn(s)] THEN tx[s].take ELSE 0

\* On the way to reserve what is left in hand.
Reserving(s) ==
    \/ pc[s] \in {"demand", "pick", "rows", "insert"}
    \/ pc[s] = "item" /\ ~Posting(s)
    \/ pc[s] = "parent" /\ ~Does(s, {"free"})

\* What it has reserved itself, and how much of that it has not listed yet.
New(s) == [a \in Allocs |-> IF tx[s].alloc[a] > 0 THEN tx[s].alloc[a] ELSE 0]
Ours(s) == IF pc[s] = "insert" THEN SumFunctionOnSet(New(s), Allocs) ELSE 0

Underway(s) == pc[s] \notin {"idle", "order", "rollback"}
Listed0(s) == Underway(s) /\ pc[s] # "list"

\* Stock moves by hand at one place, or is delivered out of what was reserved there.
MovesOK(s) ==
    \A p \in Places :
        /\ tx[s].hand[p] # Unwritten =>
              ~Starting(s) /\ (Does(s, {"deliver"}) \/ (Does(s, {"move"}) /\ p = tx[s].place))
        /\ Does(s, {"deliver"}) => tx[s].moved[p] <= 0 /\ tx[s].moved[p] <= tx[s].held[p] + HandAt(s, p)

\* Who reserves gives nothing back, and who gives back reserves nothing.  A delivery does
\* both, and lists what it reserved until that is consumed.
SignsOK(s) ==
    \A a \in Allocs :
        /\ Does(s, {"reserve"}) => tx[s].alloc[a] >= 0
        /\ Does(s, {"release", "cancel", "free", "drop"}) => tx[s].alloc[a] <= 0
        /\ Does(s, {"deliver"}) =>
              /\ a \in tx[s].made \/ tx[s].alloc[a] <= 0
              /\ tx[s].alloc[a] > 0 /\ pc[s] # "insert" => tx[s].listed[a] > 0
              /\ pc[s] = "claim" => a \notin tx[s].made /\ tx[s].alloc[a] = 0

\* Of what is listed as much is taken as is wanted; a delivery has it locked, and takes
\* stock that is not reserved only when nothing is listed any more.
TakenOK(s) ==
    /\ Does(s, {"cancel", "deliver"}) /\ Giving(s) =>
          tx[s].take = Smaller(tx[s].amount, tx[s].listed[InTurn(s)])
    /\ Does(s, {"deliver"}) /\ Listed0(s) =>
          \A a \in Allocs : tx[s].listed[a] > 0 =>
              /\ pc[s] = "claim" \/ lock[Alloc(a)] = s
              /\ lock[Alloc(a)] = s => Left(s, a) = tx[s].listed[a] - HandOf(s, a)
    /\ Does(s, {"deliver"}) /\ Reserving(s) => \A a \in Allocs : tx[s].listed[a] = 0

\* What is to be delivered is in hand or has left, and what a delivery reserved is in hand.
CountOK(s) ==
    Does(s, {"deliver"}) =>
        /\ Underway(s) => tx[s].n = tx[s].amount - SumFunctionOnSet(tx[s].moved, Places) + Ours(s)
        /\ tx[s].made # {} /\ pc[s] # "insert" => tx[s].amount = SumFunctionOnSet(tx[s].listed, Allocs)
        /\ pc[s] = "commit" => tx[s].amount = 0

\* All that a line has is listed, as long as more is wanted.
LineOK(s) ==
    tx[s].line \notin Shared /\ Listed0(s) /\ tx[s].amount > 0
        /\ (Does(s, {"cancel"}) \/ (Does(s, {"deliver"}) /\ tx[s].made = {}))
    => /\ \A a \in Allocs : line[a] = tx[s].line => Left(s, a) = tx[s].listed[a] - HandOf(s, a)
       /\ pc[s] = "commit" => \A a \in Allocs : tx[s].listed[a] = 0

\* What is kept for a line stays within what it needs, and will.
WithinOK(s) ==
    tx[s].line \notin Shared /\ Underway(s) =>
        /\ Does(s, {"reserve"}) => HeldBy(s, tx[s].line) + tx[s].amount <= need[tx[s].line]
        /\ Does(s, {"cancel", "deliver"}) =>
              HeldBy(s, tx[s].line) <= need[tx[s].line] - tx[s].n
                                       + (IF Reserving(s) THEN Ours(s) ELSE tx[s].amount - InHand(s))

\* What a reallocation took from one place it is about to reserve at the other.
ShiftOK(s) ==
    Does(s, {"reallocate"}) =>
        /\ SumFunctionOnSet(tx[s].alloc, Allocs) + (IF Reserving(s) THEN tx[s].amount ELSE InHand(s)) = 0
        /\ \A a, b \in Allocs : tx[s].listed[a] > 0 /\ tx[s].listed[b] > 0 => a = b

BookOK(s) ==
    pc[s] # "rollback" =>
        /\ MovesOK(s) /\ SignsOK(s) /\ TakenOK(s) /\ CountOK(s)
        /\ LineOK(s) /\ WithinOK(s) /\ ShiftOK(s)

\* What is kept for a line that only sales touches is within what the line needs.
NeedOK == \A l \in Lines \ Shared : ActiveFor(l) <= need[l]

-----------------------------------------------------------------------------
(* Who does not take the step.                                                 *)

\* Nobody else touches the allocations of a line whose order t has locked.
LineStays(t) ==
    tx[t].line \notin Shared /\ lock[Order(tx[t].line)] = t =>
        \A a \in Allocs : line'[a] = tx[t].line => line[a] = tx[t].line /\ active'[a] = active[a]

\* An undisturbed session keeps what it knows of its quantities.
LEMMA UndisturbedBook ==
  ASSUME TypeOK, NEW t \in Sessions, SessionOK(t), BookOK(t), Undisturbed(t), LineStays(t)
  PROVE  BookOK(t)'
<1> USE DEF SessionOK
<1>1. /\ tx'[t] = tx[t] /\ pc'[t] = pc[t]
      /\ Listed(t)' = Listed(t) /\ Starting(t)' = Starting(t) /\ InTurn(t)' = InTurn(t)
      /\ Given(t)' = Given(t) /\ Giving(t)' = Giving(t) /\ Reserving(t)' = Reserving(t)
      /\ Underway(t)' = Underway(t) /\ Listed0(t)' = Listed0(t) /\ Ours(t)' = Ours(t)
      /\ InHand(t)' = InHand(t)
  BY DEF Undisturbed, Listed, InTurn, Given, Giving, Reserving, Posting, Starting, Underway, Listed0,
     Ours, New, InHand, Does
<1>2. \A a \in Allocs : HandOf(t, a)' = HandOf(t, a)
  BY <1>1 DEF HandOf
<1>3. \A p \in Places : HandAt(t, p)' = HandAt(t, p)
  <2>1. CASE Given(t)
    <3>1. InTurn(t) \in Allocs /\ tx[t].listed[InTurn(t)] > 0
      BY <2>1, InTurnListed DEF Given, GiveOK
    <3>2. place'[InTurn(t)] = place[InTurn(t)]
      BY <3>1 DEF Undisturbed
    <3> QED
      BY <1>1, <3>2 DEF HandAt
  <2>2. CASE ~Given(t)
    BY <1>1, <2>2 DEF HandAt
  <2> QED
    BY <2>1, <2>2
<1>4. /\ \A a \in Allocs : lock'[Alloc(a)] = t <=> lock[Alloc(a)] = t
      /\ \A a \in Allocs : lock[Alloc(a)] = t => Left(t, a)' = Left(t, a)
  BY <1>1, RowsApart DEF Left, Undisturbed
<1> SUFFICES ASSUME pc[t] # "rollback"
             PROVE  /\ MovesOK(t)' /\ SignsOK(t)' /\ TakenOK(t)' /\ CountOK(t)'
                    /\ LineOK(t)' /\ WithinOK(t)' /\ ShiftOK(t)'
  BY <1>1 DEF BookOK
<1>5. MovesOK(t)'
  BY <1>1, <1>3 DEF BookOK, MovesOK, Does
<1>6. SignsOK(t)'
  BY <1>1 DEF BookOK, SignsOK, Does
<1>7. TakenOK(t)'
  BY <1>1, <1>2, <1>4 DEF BookOK, TakenOK, Does
<1>8. CountOK(t)'
  BY <1>1 DEF BookOK, CountOK, Does
<1>9. ASSUME tx[t].line \notin Shared, Underway(t), Does(t, {"reserve", "cancel", "deliver"})
      PROVE  /\ lock[Order(tx[t].line)] = t /\ need'[tx[t].line] = need[tx[t].line]
             /\ HeldBy(t, tx[t].line)' = HeldBy(t, tx[t].line)
  <2>1. lock[Order(tx[t].line)] = t
    BY <1>9 DEF OrderOK, Underway, Does, Sales
  <2>2. tx[t].line \in Lines
    BY DEF TypeOK, Request
  <2> QED
    BY <1>9, <2>1, <2>2 DEF Undisturbed
<1>10. LineOK(t)'
  <2> SUFFICES ASSUME tx[t].line \notin Shared, Listed0(t), tx[t].amount > 0,
                      Does(t, {"cancel"}) \/ (Does(t, {"deliver"}) /\ tx[t].made = {})
               PROVE  /\ \A a \in Allocs : line'[a] = tx[t].line =>
                                               Left(t, a)' = tx[t].listed[a] - HandOf(t, a)
                      /\ pc[t] = "commit" => \A a \in Allocs : tx[t].listed[a] = 0
    BY <1>1, <1>2 DEF LineOK, Does
  <2>1. Underway(t) /\ Does(t, {"reserve", "cancel", "deliver"})
    BY DEF Listed0, Does
  <2>2. \A a \in Allocs : line'[a] = tx[t].line => line[a] = tx[t].line /\ active'[a] = active[a]
    BY <1>9, <2>1 DEF LineStays
  <2>3. \A a \in Allocs : line'[a] = tx[t].line => Left(t, a)' = Left(t, a)
    BY <1>1, <2>2 DEF Left
  <2> QED
    BY <2>2, <2>3 DEF BookOK, LineOK
<1>11. WithinOK(t)'
  <2> SUFFICES ASSUME tx[t].line \notin Shared, Underway(t), Does(t, {"reserve", "cancel", "deliver"})
               PROVE  WithinOK(t)'
    BY <1>1 DEF WithinOK, Does
  <2> QED
    BY <1>1, <1>9 DEF BookOK, WithinOK, Does
<1>12. ShiftOK(t)'
  BY <1>1 DEF BookOK, ShiftOK, Does
<1> QED
  BY <1>5, <1>6, <1>7, <1>8, <1>10, <1>11, <1>12

\* Who works on a line that is not shared holds its order.
LEMMA OrderHeld ==
  ASSUME NEW s \in Sessions, SessionOK(s), tx[s].line \notin Shared,
         pc[s] = "insert" \/ (pc[s] = "commit" /\ \E a \in Allocs : tx[s].alloc[a] # 0)
  PROVE  lock[Order(tx[s].line)] = s
<1>1. Does(s, Sales)
  BY DEF SessionOK, RouteOK, OrderOK, NoneWritten, Does, Sales, Keepers
<1> QED
  BY <1>1 DEF SessionOK, OrderOK

\* The allocations of a line change hands under its order's lock only.
LEMMA OthersLineStays ==
  ASSUME TypeOK, NEW t \in Sessions, NEW s \in Sessions \ {t}, SessionOK(s),
         \/ UNCHANGED database
         \/ InsertReservation(s) \/ Commit(s) \/ Rollback(s)
  PROVE  LineStays(t)
<1> SUFFICES ASSUME tx[t].line \notin Shared, lock[Order(tx[t].line)] = t,
                    NEW a \in Allocs, line'[a] = tx[t].line
             PROVE  line[a] = tx[t].line /\ active'[a] = active[a]
  BY DEF LineStays
<1>0. tx[t].line \in Lines /\ tx[t].line # Nobody /\ s # t
  BY ConstantsOK DEF TypeOK, Request
<1>1. CASE UNCHANGED database
  BY <1>1 DEF database, allocations
<1>2. CASE InsertReservation(s)
  <2>1. line' = [line EXCEPT ![Min(Fresh)] = tx[s].line] /\ active' = active /\ pc[s] = "insert"
    BY <1>2 DEF InsertReservation, At
  <2>2. line[a] # tx[t].line => tx[s].line = tx[t].line
    BY <2>1 DEF TypeOK
  <2> QED
    BY <1>0, <2>1, <2>2, OrderHeld
<1>3. CASE Commit(s)
  <2>1. line' = line /\ pc[s] = "commit" /\ active'[a] = active[a] + tx[s].alloc[a]
    BY <1>3 DEF Commit, At
  <2>2. tx[s].alloc[a] # 0 => tx[s].line = tx[t].line
    BY <2>1 DEF SessionOK, OwnOK
  <2>3. tx[s].alloc[a] = 0
    BY <1>0, <2>1, <2>2, OrderHeld
  <2> QED
    BY <2>1, <2>3 DEF TypeOK
<1>4. CASE Rollback(s)
  <2>1. line'[a] = IF a \in tx[s].made THEN Nobody ELSE line[a]
    BY <1>4 DEF Rollback
  <2> QED
    BY <1>0, <1>4, <2>1 DEF Rollback
<1> QED
  BY <1>1, <1>2, <1>3, <1>4

-----------------------------------------------------------------------------
(* A transaction begins, fails or ends.                                        *)

\* A request that arrives has no quantities yet.
LEMMA RequestBook ==
  ASSUME TypeOK, NEW s \in Sessions, Request0(s)
  PROVE  BookOK(s)'
<1>1. /\ tx'[s] \in Request /\ EmptyHanded(tx'[s])
      /\ \/ tx'[s].kind \in Sales /\ pc'[s] = "order"
         \/ tx'[s].kind = "free" /\ pc'[s] = "parent"
         \/ /\ tx'[s].kind \in {"drop", "reallocate"} /\ pc'[s] = "alloc"
            /\ \E a \in Allocs : \A b \in Allocs : tx'[s].listed[b] > 0 => b = a
         \/ tx'[s].kind = "move" /\ pc'[s] = "check"
  BY RequestFields
<1>2. /\ tx'[s].take = 0 /\ tx'[s].made = {} /\ tx'[s].alloc = [a \in Allocs |-> 0]
      /\ \A p \in Places : tx'[s].hand[p] = Unwritten /\ tx'[s].moved[p] = 0 /\ tx'[s].held[p] = 0
  BY <1>1 DEF EmptyHanded
<1>3. ~Giving(s)' /\ ~Given(s)' /\ InHand(s)' = 0 /\ \A p \in Places : HandAt(s, p)' = 0
  BY <1>1, <1>2 DEF Giving, Given, InHand, HandAt, Does, Sales
<1>4. /\ Does(s, {"reserve", "cancel", "deliver"})' => ~Underway(s)' /\ ~Listed0(s)' /\ ~Reserving(s)'
      /\ Does(s, {"reallocate"})' => ~Reserving(s)'
  BY <1>1 DEF Does, Underway, Listed0, Reserving, Sales
<1>5. MovesOK(s)'
  BY <1>2, <1>3 DEF MovesOK
<1>6. SignsOK(s)'
  BY <1>2 DEF SignsOK
<1>7. TakenOK(s)'
  BY <1>3, <1>4 DEF TakenOK, Does
<1>8. CountOK(s)'
  BY <1>1, <1>2, <1>4 DEF CountOK, Does, Sales
<1>9. LineOK(s)'
  BY <1>4 DEF LineOK, Does
<1>10. WithinOK(s)'
  BY <1>4 DEF WithinOK, Does
<1>11. ShiftOK(s)'
  <2>1. SumFunctionOnSet(tx'[s].alloc, Allocs) = 0
    BY <1>2, SumOfZeros
  <2>2. Does(s, {"reallocate"})' => \A a, b \in Allocs : tx'[s].listed[a] > 0 /\ tx'[s].listed[b] > 0 => a = b
    BY <1>1 DEF Does, Sales
  <2> QED
    BY <1>3, <1>4, <2>1, <2>2 DEF ShiftOK
<1> QED
  BY <1>5, <1>6, <1>7, <1>8, <1>9, <1>10, <1>11 DEF BookOK

\* Nor has a session between two requests.
LEMMA RestBook ==
  ASSUME NEW s \in Sessions, tx'[s] = Idle, pc'[s] = "idle"
  PROVE  BookOK(s)'
<1>1. tx'[s].kind = "move" /\ \A p \in Places : tx'[s].hand[p] = Unwritten
  BY IdleTyped
<1>2. \A a \in Allocs : tx'[s].alloc[a] = 0
  BY IdleTyped
<1> QED
  BY <1>1, <1>2 DEF BookOK, MovesOK, SignsOK, TakenOK, CountOK, LineOK, WithinOK, ShiftOK, Does

-----------------------------------------------------------------------------
(* Statements that only go on.                                                 *)

\* A delivery has used up what it reserved before it reserves more.
LEMMA NothingNew ==
  ASSUME TypeOK, NEW s \in Sessions, SessionOK(s), BookOK(s), Does(s, {"deliver"}),
         pc[s] # "insert", pc[s] # "rollback",
         \A a \in Allocs : tx[s].listed[a] = 0, tx[s].amount > 0
  PROVE  tx[s].made = {} /\ SumFunctionOnSet(New(s), Allocs) = 0
<1>1. tx[s] \in Request
  BY DEF TypeOK
<1>2. SumFunctionOnSet(tx[s].listed, Allocs) = 0
  <2>1. tx[s].listed = [a \in Allocs |-> 0]
    BY <1>1 DEF Request
  <2> QED
    BY <2>1, SumOfZeros
<1>3. tx[s].made = {}
  BY <1>1, <1>2 DEF BookOK, CountOK, Request
<1>4. New(s) = [a \in Allocs |-> 0]
  <2>1. \A a \in Allocs : ~(tx[s].alloc[a] > 0)
    BY DEF BookOK, SignsOK
  <2> QED
    BY <2>1 DEF New
<1>5. SumFunctionOnSet(New(s), Allocs) = 0
  BY <1>4, SumOfZeros
<1> QED
  BY <1>3, <1>5

\* Nothing is taken, given or reserved by these.
GoesOnOnly(s) ==
    \/ ReadTotals(s) \/ (WriteTotals(s) /\ Does(s, {"deliver"})) \/ CheckCount(s) \/ LockInventoryItem(s)
    \/ ReadDemand(s) \/ EnsureReservation(s) \/ PickRows(s) \/ LockRow(s) \/ RowsLocked(s)

\* What they leave as it was.
SameHands(s) ==
    /\ tx'[s].kind = tx[s].kind /\ tx'[s].line = tx[s].line /\ tx'[s].place = tx[s].place
    /\ tx'[s].n = tx[s].n /\ tx'[s].made = tx[s].made
    /\ tx'[s].alloc = tx[s].alloc /\ tx'[s].held = tx[s].held
    /\ tx'[s].hand = tx[s].hand /\ tx'[s].moved = tx[s].moved
    /\ tx'[s].listed = tx[s].listed /\ tx'[s].take = tx[s].take
    /\ tx'[s].amount \in Nat /\ tx'[s].amount <= tx[s].amount
    /\ Does(s, {"reserve"}) \/ tx'[s].amount = tx[s].amount

\* Of what it asked for a transaction keeps at most the room its reservation has; only a plain
\* reservation takes less.
LEMMA EnsuresLess ==
  ASSUME TypeOK, NEW s \in Sessions, SessionOK(s), EnsureReservation(s), pc'[s] # "rollback"
  PROVE  /\ tx'[s].amount <= tx[s].amount
         /\ Does(s, {"reserve"}) \/ tx'[s].amount = tx[s].amount
<1>1. tx[s] \in Request
  BY DEF TypeOK
<1>2. PICK room : room = Larger(tx[s].seen - Total(s, tx[s].line), 0)
  OBVIOUS
<1>3. tx[s].seen - Total(s, tx[s].line) \in Int
  BY <1>1 DEF Total, TypeOK, Request
<1>4. room \in Int
  BY <1>2, <1>3 DEF Larger
<1>5. tx[s].amount \in Int
  BY <1>1 DEF Request
<1>6. tx'[s].amount = Smaller(tx[s].amount, room)
  BY <1>1, <1>2 DEF EnsureReservation, TypeOK, Request
<1>7. Exact(s) => tx[s].amount <= room
  BY <1>2 DEF EnsureReservation, Go, Unless, TypeOK
<1>8. Does(s, {"reserve"}) \/ Exact(s)
  BY DEF Exact, Does
<1> QED
  BY <1>4, <1>5, <1>6, <1>7, <1>8 DEF Smaller

\* None of these statements takes, gives or writes anything.
LEMMA GoesOnFields ==
  ASSUME TypeOK, AllocsOK, NEW s \in Sessions, SessionOK(s), GoesOnOnly(s), pc'[s] # "rollback"
  PROVE  SameHands(s)
<1>1. Quiet(s) /\ RouteOK(s) /\ GiveOK(s)
  BY DEF GoesOnOnly, Quiet, SessionOK
<1>2. TypeOK'
  BY <1>1, QuietTypes
<1>3. tx[s].amount \in Nat /\ tx'[s].amount \in Nat
  BY <1>2 DEF TypeOK, Request
<1>4. ~ListAllocations(s) /\ ~ClaimAllocation(s) /\ ~LockAllocation(s) /\ ~GiveUpReserved(s) /\ ~PostMovement(s)
  BY Whereabouts DEF GoesOnOnly
<1>5. WriteTotals(s) => tx'[s].listed = tx[s].listed /\ tx'[s].take = tx[s].take /\ tx'[s].amount = tx[s].amount
  <2>1. WriteTotals(s) => Does(s, {"deliver"})
    BY Whereabouts DEF GoesOnOnly
  <2> QED
    BY <2>1, GivingGoes
<1>6. tx'[s].amount <= tx[s].amount /\ (Does(s, {"reserve"}) \/ tx'[s].amount = tx[s].amount)
  <2>1. CASE EnsureReservation(s)
    BY <2>1, EnsuresLess
  <2>2. CASE ~EnsureReservation(s)
    <3>1. tx'[s].amount = tx[s].amount
      BY <1>5, <2>2, GivingGoes, KeepingGoes DEF GoesOnOnly
    <3> QED
      BY <1>3, <3>1
  <2> QED
    BY <2>1, <2>2
<1> QED
  BY <1>1, <1>3, <1>4, <1>5, <1>6, Fields DEF SameHands

\* Where they go on to.
SameStage(s) ==
    /\ Given(s)' = Given(s) /\ (Giving(s)' => Giving(s))
    /\ Does(s, {"reserve"}) \/ Reserving(s)' = Reserving(s)
    /\ Does(s, {"reserve"}) \/ pc'[s] # "commit"
    /\ Underway(s) /\ Listed0(s) /\ ~Starting(s)' /\ pc[s] \notin {"claim", "insert"} /\ pc'[s] # "claim"
    /\ pc'[s] = "insert" => Reserving(s) /\ pc[s] = "rows"

\* Nor does one of them bring a transaction where it has more, or less, in hand.
LEMMA GoesOnStage ==
  ASSUME TypeOK, AllocsOK, NEW s \in Sessions, SessionOK(s), GoesOnOnly(s), pc'[s] # "rollback"
  PROVE  SameStage(s)
<1> USE DEF SameStage
<1>1. SameHands(s) /\ RouteOK(s) /\ GiveOK(s)
  BY GoesOnFields DEF SessionOK
<1>2. tx'[s].kind = tx[s].kind /\ tx'[s].take = tx[s].take /\ tx[s].take \in Nat
  BY <1>1 DEF SameHands, TypeOK, Request
<1> USE DEF Given, Giving, Reserving, Posting, Underway, Listed0, Starting, Does
<1>3. CASE ReadTotals(s)
  BY <1>2, <1>3, GivingGoes
<1>4. CASE WriteTotals(s) /\ Does(s, {"deliver"})
  <2>1. tx[s].take > 0
    BY <1>1, <1>4, Whereabouts DEF GiveOK
  <2> QED
    BY <1>2, <1>4, <2>1, GivingGoes
<1>5. CASE CheckCount(s)
  <2>1. tx[s].kind = "move" \/ (tx[s].kind = "deliver" /\ tx[s].take > 0)
    BY <1>1, <1>5, Whereabouts DEF RouteOK, GiveOK
  <2> QED
    BY <1>2, <1>5, <2>1, GivingGoes
<1>6. CASE LockInventoryItem(s)
  <2>1. tx[s].take > 0 => Giving(s)
    BY <1>1, <1>6, Whereabouts DEF GiveOK
  <2> QED
    BY <1>2, <1>6, <2>1, GivingGoes
<1>7. CASE ReadDemand(s)
  <2>1. tx[s].kind # "free"
    BY <1>1, <1>7, Whereabouts DEF RouteOK, Keepers
  <2> QED
    BY <1>2, <1>7, <2>1, KeepingGoes
<1>8. CASE EnsureReservation(s)
  <2>1. pc'[s] = "commit" => tx[s].kind = "reserve"
    BY <1>8 DEF EnsureReservation, Exact, Go, Unless, TypeOK
  <2> QED
    BY <1>2, <1>8, <2>1, KeepingGoes DEF Keepers
<1>9. CASE PickRows(s)
  BY <1>2, <1>9, KeepingGoes
<1>10. CASE LockRow(s)
  BY <1>2, <1>10, KeepingGoes
<1>11. CASE RowsLocked(s)
  BY <1>2, <1>11, KeepingGoes
<1> QED
  BY <1>3, <1>4, <1>5, <1>6, <1>7, <1>8, <1>9, <1>10, <1>11 DEF GoesOnOnly

\* A quiet statement that writes no allocation leaves what it sees of them.
LEMMA SeesLeft ==
  ASSUME NEW s \in Sessions, UNCHANGED database,
         tx'[s].alloc = tx[s].alloc, tx'[s].line = tx[s].line
  PROVE  /\ \A a \in Allocs : Left(s, a)' = Left(s, a)
         /\ HeldBy(s, tx[s].line)' = HeldBy(s, tx[s].line)
         /\ need'[tx[s].line] = need[tx[s].line]
         /\ line' = line /\ place' = place
  BY DEF HeldBy, AllLeft, Left, database, allocations, documents

\* They keep the quantities as they are.
LEMMA GoesOnBook ==
  ASSUME TypeOK, AllocsOK, NEW s \in Sessions, SessionOK(s), BookOK(s), GoesOnOnly(s)
  PROVE  BookOK(s)'
<1> SUFFICES ASSUME pc'[s] # "rollback"
             PROVE  /\ MovesOK(s)' /\ SignsOK(s)' /\ TakenOK(s)' /\ CountOK(s)'
                    /\ LineOK(s)' /\ WithinOK(s)' /\ ShiftOK(s)'
  BY DEF BookOK
<1>1. SameHands(s) /\ SameStage(s) /\ Quiet(s)
  BY GoesOnFields, GoesOnStage DEF GoesOnOnly, Quiet
<1>2. /\ tx'[s].kind = tx[s].kind /\ tx'[s].line = tx[s].line /\ tx'[s].place = tx[s].place
      /\ tx'[s].n = tx[s].n /\ tx'[s].made = tx[s].made
      /\ tx'[s].alloc = tx[s].alloc /\ tx'[s].held = tx[s].held
      /\ tx'[s].hand = tx[s].hand /\ tx'[s].moved = tx[s].moved
      /\ tx'[s].listed = tx[s].listed /\ tx'[s].take = tx[s].take
      /\ Does(s, {"reserve"}) \/ tx'[s].amount = tx[s].amount
  BY <1>1 DEF SameHands
<1>3. UNCHANGED database /\ \A r \in Rows : lock[r] = s => lock'[r] = s
  BY <1>1, QuietIsQuiet DEF Quietly
<1>4. /\ \A a \in Allocs : Left(s, a)' = Left(s, a)
      /\ HeldBy(s, tx[s].line)' = HeldBy(s, tx[s].line)
      /\ need'[tx[s].line] = need[tx[s].line] /\ line' = line /\ place' = place
  BY <1>2, <1>3, SeesLeft
<1>5. /\ pc[s] # "rollback" /\ MovesOK(s) /\ SignsOK(s) /\ TakenOK(s) /\ CountOK(s)
      /\ LineOK(s) /\ WithinOK(s) /\ ShiftOK(s)
  BY <1>1 DEF BookOK, SameStage, Underway
<1>6. /\ InTurn(s)' = InTurn(s) /\ InHand(s)' = InHand(s)
      /\ \A a \in Allocs : HandOf(s, a)' = HandOf(s, a)
      /\ \A p \in Places : HandAt(s, p)' = HandAt(s, p)
  <2>1. InTurn(s)' = InTurn(s)
    BY <1>2 DEF InTurn, Listed
  <2> QED
    BY <1>1, <1>2, <1>4, <2>1 DEF SameStage, InHand, HandOf, HandAt
<1>7. \A a \in Allocs : lock'[Alloc(a)] = s <=> lock[Alloc(a)] = s
  <2>1. \A a \in Allocs : lock'[Alloc(a)] # lock[Alloc(a)] => FALSE
    <3> SUFFICES ASSUME NEW a \in Allocs, lock'[Alloc(a)] # lock[Alloc(a)]
                 PROVE  FALSE
      OBVIOUS
    <3>1. pc[s] \in Locking /\ Alloc(a) = Wanted(s)
      BY <1>1, QuietIsQuiet, RowsApart
    <3>2. pc[s] \notin {"claim", "alloc", "balance", "order"}
      BY <1>1, Whereabouts DEF GoesOnOnly
    <3> QED
      BY <3>1, <3>2, WantedRow, RowsApart DEF Locking
  <2> QED
    BY <2>1
<1>8. Does(s, {"deliver"}) => Ours(s)' = Ours(s)
  <2>1. CASE pc'[s] = "insert" /\ Does(s, {"deliver"})
    <3>1. pc[s] = "rows" /\ Reserving(s)
      BY <1>1, <2>1 DEF SameStage
    <3>2. tx[s].amount > 0 /\ \A a \in Allocs : tx[s].listed[a] = 0
      BY <1>5, <2>1, <3>1 DEF SessionOK, KeepOK, TakenOK
    <3>3. SumFunctionOnSet(New(s), Allocs) = 0
      BY <2>1, <3>1, <3>2, NothingNew
    <3>4. New(s)' = New(s)
      BY <1>2 DEF New
    <3> QED
      BY <2>1, <3>1, <3>3, <3>4 DEF Ours
  <2>2. CASE pc'[s] # "insert"
    BY <1>1, <2>2 DEF Ours, SameStage
  <2> QED
    BY <2>1, <2>2
<1>9. MovesOK(s)'
  BY <1>1, <1>2, <1>5, <1>6 DEF MovesOK, Does, SameStage
<1>10. SignsOK(s)'
  BY <1>1, <1>2, <1>5 DEF SignsOK, Does, SameStage
<1>11. TakenOK(s)'
  BY <1>1, <1>2, <1>4, <1>5, <1>6, <1>7 DEF TakenOK, Does, SameStage
<1>12. CountOK(s)'
  BY <1>1, <1>2, <1>5, <1>8 DEF CountOK, Does, SameStage
<1>13. LineOK(s)'
  BY <1>1, <1>2, <1>4, <1>5, <1>6 DEF LineOK, Does, SameStage
<1>14. WithinOK(s)'
  <2>1. Does(s, {"reserve"}) /\ tx[s].line \notin Shared =>
            HeldBy(s, tx[s].line) + tx'[s].amount <= need[tx[s].line]
    <3>1. PICK h \in Int, m \in Nat, k \in Nat, d \in Nat :
             h = HeldBy(s, tx[s].line) /\ m = tx[s].amount /\ k = tx'[s].amount /\ d = need[tx[s].line]
      <4>1. HeldBy(s, tx[s].line) \in Int
        BY HeldTyped
      <4> QED
        BY <1>1, <4>1 DEF SameHands, TypeOK, Request
    <3>2. k <= m
      BY <1>1, <3>1 DEF SameHands
    <3> QED
      BY <1>1, <1>5, <3>1, <3>2 DEF WithinOK, SameStage
  <2>2. ASSUME Does(s, {"cancel", "deliver"}), tx[s].line \notin Shared
        PROVE  HeldBy(s, tx[s].line)' <= need'[tx[s].line] - tx'[s].n
                   + (IF Reserving(s)' THEN Ours(s)' ELSE tx'[s].amount - InHand(s)')
    <3>1. HeldBy(s, tx[s].line) <= need[tx[s].line] - tx[s].n
                   + (IF Reserving(s) THEN Ours(s) ELSE tx[s].amount - InHand(s))
      BY <1>1, <1>5, <2>2 DEF WithinOK, SameStage
    <3>2. Reserving(s)' = Reserving(s) /\ tx'[s].amount = tx[s].amount
      BY <1>1, <1>2, <2>2 DEF Does, SameStage
    <3>3. Reserving(s) => Does(s, {"deliver"})
      BY <2>2 DEF Reserving, SessionOK, RouteOK, Does, Keepers
    <3> QED
      BY <1>2, <1>4, <1>6, <1>8, <3>1, <3>2, <3>3
  <2> QED
    BY <1>2, <1>4, <2>1, <2>2 DEF WithinOK, Does
<1>15. ShiftOK(s)'
  BY <1>1, <1>2, <1>5, <1>6 DEF ShiftOK, Does, SameStage
<1> QED
  BY <1>9, <1>10, <1>11, <1>12, <1>13, <1>14, <1>15

-----------------------------------------------------------------------------
(* What goes into the sums.                                                    *)

\* A sum changes as much as the one element of it that does.
LEMMA SumMoves ==
  ASSUME NEW S, IsFiniteSet(S), NEW a \in S, NEW f, NEW g,
         \A b \in S : f[b] \in Int /\ g[b] \in Int, \A b \in S \ {a} : g[b] = f[b]
  PROVE  SumFunctionOnSet(g, S) = SumFunctionOnSet(f, S) + (g[a] - f[a])
<1>1. IsFiniteSet(S \ {a})
  BY FS_Subset
<1>2. SumFunctionOnSet(f, S \ {a}) = SumFunctionOnSet(g, S \ {a})
  BY <1>1, SumOfEqual
<1>3. SumFunctionOnSet(f, S) = f[a] + SumFunctionOnSet(f, S \ {a})
  BY SumTakesOut
<1>4. SumFunctionOnSet(g, S) = g[a] + SumFunctionOnSet(g, S \ {a})
  BY SumTakesOut
<1>5. SumFunctionOnSet(f, S \ {a}) \in Int
  BY <1>1, SumOfIntegers
<1> QED
  BY <1>2, <1>3, <1>4, <1>5

\* Nothing adds up to nothing.
LEMMA SumOfNothing ==
  ASSUME NEW S, IsFiniteSet(S), NEW f, \A x \in S : f[x] = 0
  PROVE  SumFunctionOnSet(f, S) = 0
<1>1. SumFunctionOnSet(f, S) = SumFunctionOnSet(f, {})
  BY SumOfPart
<1> QED
  BY <1>1, SumOfNone

\* A line whose allocations are used up holds nothing, as the session sees it.
LEMMA UsedUp ==
  ASSUME NEW s \in Sessions, NEW l, \A a \in Allocs : line[a] = l => Left(s, a) = 0
  PROVE  HeldBy(s, l) = 0
<1>1. IsFiniteSet({a \in Allocs : line[a] = l})
  BY AllocsFinite, FS_Subset
<1>2. \A a \in {a \in Allocs : line[a] = l} : AllLeft(s)[a] = 0
  BY DEF AllLeft
<1> QED
  BY <1>1, <1>2, SumOfNothing DEF HeldBy

\* What a session that has written nothing sees is what there is.
LEMMA SeesAll ==
  ASSUME TypeOK, NEW s \in Sessions, NEW l, NoneWritten(s)
  PROVE  HeldBy(s, l) = ActiveFor(l)
<1>1. IsFiniteSet({a \in Allocs : line[a] = l})
  BY AllocsFinite, FS_Subset
<1>2. \A a \in {a \in Allocs : line[a] = l} : AllLeft(s)[a] = active[a]
  BY DEF AllLeft, Left, NoneWritten, TypeOK
<1> QED
  BY <1>1, <1>2, SumOfEqual DEF HeldBy, ActiveFor

-----------------------------------------------------------------------------
(* Statements that list, take and give back.                                   *)

\* With nothing taken nothing is in hand.
LEMMA NothingInHand ==
  ASSUME NEW s \in Sessions, tx[s].take = 0
  PROVE  InHand(s) = 0 /\ (\A a \in Allocs : HandOf(s, a) = 0) /\ \A p \in Places : HandAt(s, p) = 0
  BY DEF InHand, HandOf, HandAt

\* Requests of these kinds promise little.
LEMMA PlainBook ==
  ASSUME NEW s \in Sessions, Does(s, {"release", "free", "drop", "move"}), MovesOK(s), SignsOK(s)
  PROVE  BookOK(s)
  BY DEF BookOK, TakenOK, CountOK, LineOK, WithinOK, ShiftOK, Does

\* What is dealt with when a transaction goes on.
LEMMA ContinueDeals ==
  ASSUME NEW s \in Sessions, NEW listed, NEW amount \in Nat, NEW w, w = Continue(s, listed, amount)
  PROVE  /\ w \in {"alloc", "item", "commit"}
         /\ w = "commit" => /\ ~Does(s, {"reallocate"})
                            /\ Does(s, {"deliver"}) => amount = 0
                            /\ amount > 0 => \A a \in Allocs : ~(listed[a] > 0)
         /\ w = "item" /\ Does(s, {"deliver"}) => amount > 0 /\ \A a \in Allocs : ~(listed[a] > 0)
         /\ Does(s, {"reallocate"}) /\ (\A a \in Allocs : ~(listed[a] > 0)) => w = "item"
  BY DEF Continue, Does

\* Who goes on with what it then has in hand.
Carries(s) == pc'[s] = Continue(s, tx'[s].listed, tx'[s].amount)

\* These statements go on so, but for a delivery with rows left to claim.
LEMMA GoesOnCarrying ==
  ASSUME TypeOK, AllocsOK, NEW s \in Sessions, SessionOK(s), pc'[s] # "rollback"
  PROVE  /\ ListAllocations(s) => \/ Carries(s)
                                  \/ pc'[s] = "claim" /\ Does(s, {"deliver"})
         /\ ListAllocations(s) /\ Does(s, {"deliver"}) /\ Open(tx[s].line) # {} => pc'[s] = "claim"
         /\ ClaimAllocation(s) => \/ Carries(s) /\ Unclaimed(s) = {Min(Unclaimed(s))}
                                  \/ pc'[s] = "claim"
         /\ WriteTotals(s) /\ ~Does(s, {"deliver"}) => Carries(s)
         /\ PostMovement(s) /\ tx[s].kind # "move" => Carries(s)
<1>1. tx[s] \in Request /\ pc \in [Sessions -> Locking \cup {"idle", "list", "totals", "check", "demand",
                                   "pick", "insert", "commit", "rollback"}]
  BY DEF TypeOK
<1>2. ASSUME ListAllocations(s)
      PROVE  /\ Carries(s) \/ (pc'[s] = "claim" /\ Does(s, {"deliver"}))
             /\ Does(s, {"deliver"}) /\ Open(tx[s].line) # {} => pc'[s] = "claim"
  <2>1. PICK L : L = [a \in Allocs |-> IF a \in Open(tx[s].line) THEN active[a] ELSE 0]
    OBVIOUS
  <2>2. /\ tx' = [tx EXCEPT ![s].listed = L]
        /\ pc' = [pc EXCEPT ![s] = IF Does(s, {"deliver"}) /\ Open(tx[s].line) # {} THEN "claim"
                                   ELSE Continue(s, L, tx[s].amount)]
    BY <1>2, <2>1 DEF ListAllocations, At, Go, Does
  <2>3. tx'[s].listed = L /\ tx'[s].amount = tx[s].amount
    BY <1>1, <2>2 DEF TypeOK, Request
  <2> QED
    BY <1>1, <2>2, <2>3 DEF Carries
<1>3. ASSUME ClaimAllocation(s)
      PROVE  \/ Carries(s) /\ Unclaimed(s) = {Min(Unclaimed(s))}
             \/ pc'[s] = "claim"
  <2>1. PICK L : L = [tx[s].listed EXCEPT ![Min(Unclaimed(s))] = active[Min(Unclaimed(s))]]
    OBVIOUS
  <2>2. /\ tx' = [tx EXCEPT ![s].listed = L]
        /\ pc' = [pc EXCEPT ![s] = IF Unclaimed(s) # {Min(Unclaimed(s))} THEN "claim"
                                   ELSE Continue(s, L, tx[s].amount)]
    BY <1>3, <2>1 DEF ClaimAllocation, Go
  <2>3. tx'[s].listed = L /\ tx'[s].amount = tx[s].amount
    BY <1>1, <2>2 DEF TypeOK, Request
  <2> QED
    BY <1>1, <2>2, <2>3 DEF Carries
<1>4. ASSUME WriteTotals(s), ~Does(s, {"deliver"})
      PROVE  Carries(s)
  <2>1. PICK r : r = [Settled(s) EXCEPT !.total = tx[s].seen]
    OBVIOUS
  <2>2. /\ tx' = [tx EXCEPT ![s] = r]
        /\ pc' = [pc EXCEPT ![s] = Continue(s, r.listed, r.amount)]
    BY <1>4, <2>1 DEF WriteTotals, Go, Does
  <2> QED
    BY <1>1, <2>2 DEF Carries, TypeOK
<1>5. ASSUME PostMovement(s), tx[s].kind # "move"
      PROVE  Carries(s)
  <2>1. /\ tx'[s].listed = Unlisted(s) /\ tx'[s].amount = tx[s].amount - tx[s].take
        /\ Settled(s).listed = Unlisted(s) /\ Settled(s).amount = tx[s].amount - tx[s].take
    BY <1>5, PostFields, Whereabouts DEF PostedRecord
  <2>2. PICK r : r = Settled(s)
    OBVIOUS
  <2>3. pc' = [pc EXCEPT ![s] = Unless(Enough(s, PostedAt(s)), Continue(s, r.listed, r.amount))]
    BY <1>5, <2>2 DEF PostMovement, Go
  <2>4. pc'[s] = Continue(s, r.listed, r.amount)
    BY <1>1, <2>3 DEF Unless
  <2> QED
    BY <2>1, <2>2, <2>4 DEF Carries
<1> QED
  BY <1>2, <1>3, <1>4, <1>5

\* What a sales document asks for, once it has its order.
LEMMA OrderingAmounts ==
  ASSUME TypeOK, NEW s \in Sessions, Ordering(s), pc'[s] # "rollback", NEW l, l = tx[s].line
  PROVE  /\ \/ Does(s, {"reserve"}) /\ pc'[s] \in {"item", "commit"}
               /\ tx'[s].amount = Larger(need[l] - HeldBy(s, l), 0)
            \/ Does(s, {"release"}) /\ pc'[s] = "list"
            \/ Does(s, {"cancel"}) /\ pc'[s] \in {"list", "commit"}
               /\ tx'[s].amount = Larger(Excess(s, l), 0)
               /\ (pc'[s] = "commit" => ~(Excess(s, l) > 0))
            \/ Does(s, {"deliver"}) /\ pc'[s] = "list" /\ tx'[s].amount = tx[s].n
<1>1. tx[s] \in Request /\ pc \in [Sessions -> Locking \cup {"idle", "list", "totals", "check", "demand",
                                   "pick", "insert", "commit", "rollback"}]
  BY DEF TypeOK
<1>2. CASE ReserveForOrder(s)
  <2>1. PICK m : m = Larger(need[l] - HeldBy(s, l), 0)
    OBVIOUS
  <2>2. tx' = [tx EXCEPT ![s].amount = m]
    BY <1>2, <2>1 DEF ReserveForOrder
  <2>3. tx'[s].amount = m
    BY <1>1, <2>2 DEF TypeOK, Request
  <2> QED
    BY <1>1, <1>2, <2>1, <2>3 DEF ReserveForOrder, Does, Go
<1>3. CASE ReleaseForOrder(s)
  BY <1>1, <1>3 DEF ReleaseForOrder, Does, Go, Unless
<1>4. CASE CancelRemaining(s)
  <2>1. PICK m : m = Larger(Excess(s, l), 0)
    OBVIOUS
  <2>2. tx' = [tx EXCEPT ![s].amount = m]
    BY <1>4, <2>1 DEF CancelRemaining
  <2>3. tx'[s].amount = m
    BY <1>1, <2>2 DEF TypeOK, Request
  <2>4. /\ tx[s].kind = "cancel"
        /\ Go(s, Unless(tx[s].n <= need[l], IF Excess(s, l) > 0 THEN "list" ELSE "commit"))
    BY <1>4 DEF CancelRemaining
  <2>5. pc'[s] \in {"list", "commit"} /\ (pc'[s] = "commit" => ~(Excess(s, l) > 0))
    BY <1>1, <2>4 DEF Go, Unless
  <2> QED
    BY <2>1, <2>3, <2>4, <2>5 DEF Does
<1>5. CASE DispatchDelivery(s)
  <2>1. tx'[s].amount = tx[s].n
    BY <1>1, <1>5 DEF DispatchDelivery, TypeOK, Request
  <2> QED
    BY <1>1, <1>5, <2>1 DEF DispatchDelivery, Does, Go, Unless
<1> QED
  BY <1>2, <1>3, <1>4, <1>5 DEF Ordering

\* A transaction that is only starting has no stock moved, nothing written and nothing made.
LEMMA StartsClear ==
  ASSUME TypeOK, NEW s \in Sessions, SessionOK(s), BookOK(s), Starting(s)
  PROVE  /\ \A p \in Places : tx[s].hand[p] = Unwritten /\ tx[s].moved[p] = 0 /\ tx[s].held[p] = 0
         /\ \A a \in Allocs : tx[s].alloc[a] = 0 /\ Left(s, a) = active[a] /\ lock[Alloc(a)] # s
         /\ NoneWritten(s) /\ tx[s].made = {} /\ tx[s].take = 0
         /\ SumFunctionOnSet(tx[s].moved, Places) = 0
<1>1. tx[s] \in Request /\ pc[s] # "rollback"
  BY DEF TypeOK, Starting
<1>2. NoneWritten(s)
  BY DEF SessionOK, OrderOK
<1>3. \A p \in Places : tx[s].hand[p] = Unwritten
  BY <1>1 DEF BookOK, MovesOK
<1>4. \A p \in Places : tx[s].moved[p] = 0
  BY <1>1, <1>3 DEF SessionOK, BalanceOK
<1>5. tx[s].alloc = [a \in Allocs |-> 0]
  BY <1>1, <1>2 DEF NoneWritten, Request
<1>6. \A p \in Places : tx[s].held[p] = 0
  <2>1. \A p \in Places : SumFunctionOnSet([a \in Allocs |-> 0], {a \in Allocs : place[a] = p}) = 0
    BY SumOfZeros
  <2> QED
    BY <1>5, <2>1 DEF SessionOK, SumsOK
<1>7. \A a \in Allocs : tx[s].alloc[a] = 0 /\ Left(s, a) = active[a] /\ lock[Alloc(a)] # s
  BY <1>5 DEF SessionOK, OwnOK, Left, TypeOK
<1>8. tx[s].made = {}
  BY <1>1, <1>7 DEF SessionOK, OwnOK, Request
<1>9. tx[s].take = 0
  BY <1>1 DEF SessionOK, GiveOK, Giving, Starting, Request
<1>10. SumFunctionOnSet(tx[s].moved, Places) = 0
  BY <1>4, SumOfNothing, ConstantsOK
<1> QED
  BY <1>2, <1>3, <1>4, <1>6, <1>7, <1>8, <1>9, <1>10

\* Sales asks for no more than keeps a line within its needs.
LEMMA OrderingBook ==
  ASSUME TypeOK, AllocsOK, NEW s \in Sessions, SessionOK(s), BookOK(s), NeedOK, Ordering(s)
  PROVE  BookOK(s)'
<1> SUFFICES ASSUME pc'[s] # "rollback"
             PROVE  /\ MovesOK(s)' /\ SignsOK(s)' /\ TakenOK(s)' /\ CountOK(s)'
                    /\ LineOK(s)' /\ WithinOK(s)' /\ ShiftOK(s)'
  BY DEF BookOK
<1>1. Quiet(s) /\ RouteOK(s) /\ GiveOK(s) /\ Starting(s) /\ pc[s] = "order" /\ Does(s, Sales)
  BY OrderingGoes DEF Quiet, SessionOK, Starting
<1>2. /\ \A p \in Places : tx[s].hand[p] = Unwritten /\ tx[s].moved[p] = 0 /\ tx[s].held[p] = 0
      /\ \A a \in Allocs : tx[s].alloc[a] = 0 /\ Left(s, a) = active[a] /\ lock[Alloc(a)] # s
      /\ NoneWritten(s) /\ tx[s].made = {} /\ tx[s].take = 0
      /\ SumFunctionOnSet(tx[s].moved, Places) = 0
  BY <1>1, StartsClear
<1>3. UNCHANGED database
  BY <1>1, QuietIsQuiet DEF Quietly
<1>4. /\ tx'[s].kind = tx[s].kind /\ tx'[s].line = tx[s].line /\ tx'[s].n = tx[s].n /\ tx'[s].made = {}
      /\ tx'[s].alloc = tx[s].alloc /\ tx'[s].held = tx[s].held
      /\ tx'[s].hand = tx[s].hand /\ tx'[s].moved = tx[s].moved /\ tx'[s].take = 0
  <2>1. ~GiveUpReserved(s) /\ ~PostMovement(s) /\ ~LockAllocation(s) /\ ~WriteTotals(s)
    BY <1>1, Whereabouts
  <2> QED
    BY <1>1, <1>2, <2>1, Fields
<1>5. PICK l : l = tx[s].line
  OBVIOUS
<1>6. \/ Does(s, {"reserve"}) /\ pc'[s] \in {"item", "commit"}
         /\ tx'[s].amount = Larger(need[l] - HeldBy(s, l), 0)
      \/ Does(s, {"release"}) /\ pc'[s] = "list"
      \/ Does(s, {"cancel"}) /\ pc'[s] \in {"list", "commit"}
         /\ tx'[s].amount = Larger(Excess(s, l), 0)
         /\ (pc'[s] = "commit" => ~(Excess(s, l) > 0))
      \/ Does(s, {"deliver"}) /\ pc'[s] = "list" /\ tx'[s].amount = tx[s].n
  BY <1>5, OrderingAmounts
<1>7. InHand(s)' = 0 /\ \A p \in Places : HandAt(s, p)' = 0
  BY <1>4 DEF InHand, HandAt
<1>8. /\ Does(s, {"cancel", "deliver"})' => ~Giving(s)' /\ ~Reserving(s)' /\ pc'[s] # "item"
      /\ Does(s, {"deliver"})' => ~Listed0(s)' /\ pc'[s] = "list"
      /\ pc'[s] \notin {"claim", "insert"}
  BY <1>4, <1>6 DEF Does, Giving, Reserving, Listed0
<1>9. MovesOK(s)'
  BY <1>2, <1>4, <1>7 DEF MovesOK
<1>10. SignsOK(s)'
  BY <1>2, <1>4, <1>8 DEF SignsOK
<1>11. TakenOK(s)'
  BY <1>8 DEF TakenOK, Does
<1>12. CountOK(s)'
  <2> SUFFICES ASSUME Does(s, {"deliver"})
               PROVE  tx'[s].n = tx'[s].amount - SumFunctionOnSet(tx'[s].moved, Places) + Ours(s)'
    BY <1>4, <1>8 DEF CountOK, Does
  <2>1. tx'[s].amount = tx[s].n /\ tx[s].n \in Int
    BY <1>6 DEF Does, TypeOK, Request
  <2> QED
    BY <1>2, <1>4, <1>8, <2>1 DEF Ours
<1>13. PICK h \in Int, d \in Nat, n \in Int, m \in Nat :
          h = HeldBy(s, l) /\ d = need[l] /\ n = tx[s].n /\ m = tx'[s].amount
  <2>1. HeldBy(s, l) \in Int
    BY HeldTyped
  <2>2. tx'[s] \in Request
    BY <1>1, QuietTypes DEF TypeOK
  <2> QED
    BY <1>5, <2>1, <2>2 DEF TypeOK, Request
<1>14. LineOK(s)'
  <2>1. Does(s, {"cancel"}) /\ pc'[s] = "commit" => m = 0
    <3>1. Excess(s, l) = h - (d - n)
      BY <1>5, <1>13 DEF Excess
    <3> QED
      BY <1>6, <1>13, <3>1 DEF Does, Larger
  <2>2. Does(s, {"cancel"}) => pc'[s] \in {"list", "commit"}
    BY <1>6 DEF Does
  <2> QED
    BY <1>4, <1>8, <1>13, <2>1, <2>2 DEF LineOK, Listed0, Does
<1>15. WithinOK(s)'
  <2> SUFFICES ASSUME l \notin Shared
               PROVE  /\ Does(s, {"reserve"}) => h + m <= d
                      /\ Does(s, {"cancel", "deliver"}) => h <= d - n + (m - 0)
    <3>1. HeldBy(s, l)' = h /\ need'[l] = d
      BY <1>3, <1>4, <1>5, <1>13, SeesLeft
    <3> QED
      BY <1>4, <1>5, <1>7, <1>8, <1>13, <3>1 DEF WithinOK, Does
  <2>1. h <= d
    <3>1. l \in Lines /\ HeldBy(s, l) = ActiveFor(l)
      BY <1>2, <1>5, SeesAll DEF TypeOK, Request
    <3> QED
      BY <1>13, <3>1 DEF NeedOK
  <2>2. Does(s, {"reserve"}) => h + m <= d
    BY <1>6, <1>13, <2>1 DEF Does, Larger
  <2>3. Does(s, {"cancel"}) => h <= d - n + (m - 0)
    <3>1. Excess(s, l) = h - (d - n)
      BY <1>5, <1>13 DEF Excess
    <3>2. Does(s, {"cancel"}) => m = Larger(h - (d - n), 0)
      BY <1>6, <1>13, <3>1 DEF Does
    <3>3. m = Larger(h - (d - n), 0) => h <= d - n + (m - 0)
      BY DEF Larger
    <3> QED
      BY <3>2, <3>3
  <2>4. Does(s, {"deliver"}) => h <= d - n + (m - 0)
    BY <1>6, <1>13, <2>1 DEF Does
  <2> QED
    BY <2>2, <2>3, <2>4 DEF Does
<1>16. ShiftOK(s)'
  BY <1>1, <1>4 DEF ShiftOK, Does, Sales
<1> QED
  BY <1>9, <1>10, <1>11, <1>12, <1>14, <1>15, <1>16

\* Inventory's release takes its reservation.
LEMMA LockReservationBook ==
  ASSUME TypeOK, NEW s \in Sessions, SessionOK(s), BookOK(s), LockReservation(s)
  PROVE  BookOK(s)'
<1>1. tx' = tx /\ Does(s, {"free"}) /\ pc[s] = "parent" /\ pc'[s] \in {"list", "commit"}
  BY ListingGoes
<1>2. MovesOK(s)'
  BY <1>1 DEF BookOK, MovesOK, Does
<1>3. SignsOK(s)'
  BY <1>1 DEF BookOK, SignsOK, Does
<1>4. Does(s, {"release", "free", "drop", "move"})'
  BY <1>1 DEF Does
<1> QED
  BY <1>2, <1>3, <1>4 DEF BookOK, TakenOK, CountOK, LineOK, WithinOK, ShiftOK, Does

\* When a delivery goes on to reserve, its line has nothing left.
LEMMA ReservesLast ==
  ASSUME TypeOK, NEW s \in Sessions, SessionOK(s), Does(s, {"deliver"}), Underway(s),
         \A a \in Allocs : line[a] = tx[s].line => Left(s, a) = 0
  PROVE  HeldBy(s, tx[s].line) <= need[tx[s].line] - tx[s].n + 0
<1>1. HeldBy(s, tx[s].line) = 0
  BY UsedUp
<1>2. tx[s].n <= need[tx[s].line] /\ tx[s].n \in Int /\ need[tx[s].line] \in Int
  BY DEF SessionOK, OrderOK, Does, Underway, TypeOK, Request
<1> QED
  BY <1>1, <1>2

\* All that a line has is listed.
LEMMA ListBook ==
  ASSUME TypeOK, AllocsOK, NEW s \in Sessions, SessionOK(s), BookOK(s), ListAllocations(s)
  PROVE  BookOK(s)'
<1> SUFFICES ASSUME pc'[s] # "rollback"
             PROVE  BookOK(s)'
  BY DEF BookOK
<1>1. Quiet(s) /\ RouteOK(s) /\ GiveOK(s) /\ Starting(s) /\ pc[s] = "list" /\ Underway(s)
  BY Whereabouts DEF Quiet, SessionOK, Starting, Underway
<1>2. /\ \A p \in Places : tx[s].hand[p] = Unwritten /\ tx[s].moved[p] = 0 /\ tx[s].held[p] = 0
      /\ \A a \in Allocs : tx[s].alloc[a] = 0 /\ Left(s, a) = active[a] /\ lock[Alloc(a)] # s
      /\ NoneWritten(s) /\ tx[s].made = {} /\ tx[s].take = 0
      /\ SumFunctionOnSet(tx[s].moved, Places) = 0
  BY <1>1, StartsClear
<1>3. UNCHANGED database
  BY <1>1, QuietIsQuiet DEF Quietly
<1>4. /\ tx'[s].kind = tx[s].kind /\ tx'[s].line = tx[s].line /\ tx'[s].n = tx[s].n /\ tx'[s].made = {}
      /\ tx'[s].alloc = tx[s].alloc /\ tx'[s].held = tx[s].held
      /\ tx'[s].hand = tx[s].hand /\ tx'[s].moved = tx[s].moved /\ tx'[s].take = 0
  <2>1. ~GiveUpReserved(s) /\ ~PostMovement(s) /\ ~LockAllocation(s) /\ ~WriteTotals(s)
    BY <1>1, Whereabouts
  <2> QED
    BY <1>1, <1>2, <2>1, Fields
<1>5. /\ pc'[s] \in {"claim", "alloc", "item", "commit"} /\ lock' = lock
      /\ tx'[s].amount = tx[s].amount /\ tx[s].amount \in Nat
      /\ \A a \in Allocs : tx'[s].listed[a] = IF a \in Open(tx[s].line) THEN active[a] ELSE 0
      /\ pc'[s] = "item" => Does(s, {"deliver"})
  BY ListingGoes DEF TypeOK, Request
<1>6. InHand(s)' = 0 /\ (\A a \in Allocs : HandOf(s, a)' = 0) /\ (\A p \in Places : HandAt(s, p)' = 0)
  BY <1>4 DEF InHand, HandOf, HandAt
<1>7. /\ \A a \in Allocs : Left(s, a)' = active[a]
      /\ HeldBy(s, tx[s].line)' = HeldBy(s, tx[s].line)
      /\ need'[tx[s].line] = need[tx[s].line] /\ line' = line
  BY <1>2, <1>3, <1>4, SeesLeft
<1>8. \A a \in Allocs : tx'[s].listed[a] > 0 =>
          tx'[s].listed[a] = active[a] /\ line[a] = tx[s].line /\ Open(tx[s].line) # {}
  BY <1>5 DEF Open
<1>9. \A a \in Allocs : line[a] = tx[s].line => tx'[s].listed[a] = active[a]
  BY <1>5 DEF Open, TypeOK
<1>10. /\ pc'[s] = "commit" => /\ Does(s, {"deliver"}) => tx[s].amount = 0
                               /\ tx[s].amount > 0 => \A a \in Allocs : ~(tx'[s].listed[a] > 0)
       /\ pc'[s] = "item" => \A a \in Allocs : ~(tx'[s].listed[a] > 0)
  <2>1. pc'[s] \in {"commit", "item"} => Carries(s)
    BY GoesOnCarrying
  <2> QED
    BY <1>5, <2>1, ContinueDeals DEF Carries
<1>11. \A a \in Allocs : tx'[s].listed[a] \in Nat
  BY <1>5 DEF TypeOK
<1>12. ~Giving(s)' /\ ~Starting(s)' /\ Ours(s)' = 0 /\ (Reserving(s)' => pc'[s] = "item")
  BY <1>4, <1>5 DEF Giving, Starting, Ours, Reserving
<1>13. Does(s, {"deliver"}) /\ pc'[s] # "claim" => \A a \in Allocs : tx'[s].listed[a] = 0
  BY <1>5, GoesOnCarrying
<1>14. MovesOK(s)'
  BY <1>2, <1>4, <1>6 DEF MovesOK
<1>15. SignsOK(s)'
  BY <1>2, <1>4 DEF SignsOK
<1>16. TakenOK(s)'
  BY <1>4, <1>5, <1>6, <1>7, <1>8, <1>10, <1>11, <1>12, <1>13 DEF TakenOK, Does
<1>17. CountOK(s)'
  <2>1. Does(s, {"deliver"}) => tx[s].n = tx[s].amount - SumFunctionOnSet(tx[s].moved, Places) + Ours(s)
    BY <1>1 DEF BookOK, CountOK
  <2>2. Ours(s) = 0
    BY <1>1 DEF Ours
  <2> QED
    BY <1>4, <1>5, <1>10, <1>12, <2>1, <2>2 DEF CountOK, Does
<1>18. LineOK(s)'
  <2>1. \A a \in Allocs : line'[a] = tx'[s].line => Left(s, a)' = tx'[s].listed[a] - HandOf(s, a)'
    BY <1>4, <1>6, <1>7, <1>9, <1>11
  <2>2. pc'[s] = "commit" /\ tx'[s].amount > 0 => \A a \in Allocs : tx'[s].listed[a] = 0
    BY <1>5, <1>10, <1>11
  <2> QED
    BY <2>1, <2>2 DEF LineOK
<1>19. WithinOK(s)'
  <2> SUFFICES ASSUME tx[s].line \notin Shared
               PROVE  /\ ~Does(s, {"reserve"})
                      /\ Does(s, {"cancel", "deliver"}) =>
                           HeldBy(s, tx[s].line) <= need[tx[s].line] - tx[s].n
                               + (IF Reserving(s)' THEN 0 ELSE tx[s].amount - 0)
    BY <1>4, <1>5, <1>6, <1>7, <1>12 DEF WithinOK, Does
  <2>1. ~Does(s, {"reserve"})
    BY <1>1 DEF RouteOK, Does
  <2>2. ASSUME Does(s, {"cancel", "deliver"}), ~Reserving(s)'
        PROVE  HeldBy(s, tx[s].line) <= need[tx[s].line] - tx[s].n + (tx[s].amount - 0)
    <3>1. ~Reserving(s) /\ InHand(s) = 0
      BY <1>1, <1>2 DEF Reserving, InHand
    <3> QED
      BY <1>1, <2>2, <3>1 DEF BookOK, WithinOK
  <2>3. ASSUME Does(s, {"cancel", "deliver"}), Reserving(s)'
        PROVE  HeldBy(s, tx[s].line) <= need[tx[s].line] - tx[s].n + 0
    <3>1. Does(s, {"deliver"}) /\ \A a \in Allocs : tx'[s].listed[a] = 0
      BY <1>5, <1>10, <1>11, <1>12, <2>3
    <3>2. \A a \in Allocs : line[a] = tx[s].line => Left(s, a) = 0
      BY <1>2, <1>9, <3>1
    <3> QED
      BY <1>1, <3>1, <3>2, ReservesLast
  <2> QED
    BY <2>1, <2>2, <2>3
<1>20. ShiftOK(s)'
  BY <1>1, <1>4 DEF ShiftOK, Does, RouteOK
<1> QED
  BY <1>14, <1>15, <1>16, <1>17, <1>18, <1>19, <1>20 DEF BookOK

\* A delivery makes sure of what it listed, one allocation after the other.
LEMMA ClaimBook ==
  ASSUME TypeOK, AllocsOK, NEW s \in Sessions, SessionOK(s), BookOK(s), ClaimAllocation(s)
  PROVE  BookOK(s)'
<1> SUFFICES ASSUME pc'[s] # "rollback"
             PROVE  BookOK(s)'
  BY DEF BookOK
<1>1. /\ Quiet(s) /\ RouteOK(s) /\ GiveOK(s) /\ pc[s] = "claim" /\ Underway(s) /\ Listed0(s)
      /\ Does(s, {"deliver"}) /\ Unclaimed(s) # {}
  BY Whereabouts DEF Quiet, SessionOK, Underway, Listed0, RouteOK, GiveOK
<1>2. /\ MovesOK(s) /\ SignsOK(s) /\ TakenOK(s) /\ CountOK(s) /\ LineOK(s) /\ WithinOK(s)
      /\ tx[s] \in Request
  BY <1>1 DEF BookOK, TypeOK
<1>3. UNCHANGED database
  BY <1>1, QuietIsQuiet DEF Quietly
<1>4. /\ tx'[s].kind = tx[s].kind /\ tx'[s].line = tx[s].line /\ tx'[s].n = tx[s].n
      /\ tx'[s].made = tx[s].made /\ tx'[s].alloc = tx[s].alloc /\ tx'[s].held = tx[s].held
      /\ tx'[s].hand = tx[s].hand /\ tx'[s].moved = tx[s].moved /\ tx'[s].take = tx[s].take
  <2>1. ~GiveUpReserved(s) /\ ~PostMovement(s) /\ ~LockAllocation(s) /\ ~WriteTotals(s)
    BY <1>1, Whereabouts
  <2> QED
    BY <1>1, <2>1, Fields
<1>5. /\ tx[s].take = 0 /\ tx[s].made = {} /\ \A a \in Allocs : tx[s].alloc[a] = 0
  BY <1>1, <1>2 DEF SignsOK, GiveOK, Giving, Request
<1>6. PICK a \in Allocs : a = Min(Unclaimed(s))
  BY <1>1, UnclaimedTurn
<1>7. /\ pc'[s] \in {"claim", "alloc", "item", "commit"}
      /\ tx'[s].amount = tx[s].amount /\ tx[s].amount \in Nat
      /\ lock'[Alloc(a)] = s
      /\ tx'[s].listed = [tx[s].listed EXCEPT ![a] = active[a]]
      /\ \A b \in Allocs : b # a => (lock'[Alloc(b)] = s <=> lock[Alloc(b)] = s)
  <2>1. \A r \in Rows : r # Alloc(a) => lock'[r] = lock[r]
    BY <1>1, <1>6, QuietIsQuiet, ListingGoes
  <2> QED
    BY <1>2, <1>6, <2>1, ListingGoes, RowsApart DEF Request
<1>8. /\ \A b \in Allocs : tx'[s].listed[b] = IF b = a THEN active[a] ELSE tx[s].listed[b]
      /\ \A b \in Allocs : tx'[s].listed[b] \in Nat /\ active[b] \in Nat /\ tx[s].listed[b] \in Nat
  BY <1>2, <1>7 DEF Request, TypeOK
<1>9. /\ InHand(s)' = 0 /\ (\A b \in Allocs : HandOf(s, b)' = 0) /\ (\A p \in Places : HandAt(s, p)' = 0)
      /\ InHand(s) = 0 /\ (\A b \in Allocs : HandOf(s, b) = 0) /\ (\A p \in Places : HandAt(s, p) = 0)
  BY <1>4, <1>5 DEF InHand, HandOf, HandAt
<1>10. /\ \A b \in Allocs : Left(s, b)' = active[b] /\ Left(s, b) = active[b]
       /\ HeldBy(s, tx[s].line)' = HeldBy(s, tx[s].line)
       /\ need'[tx[s].line] = need[tx[s].line] /\ line' = line
  <2>1. \A b \in Allocs : Left(s, b) = active[b]
    BY <1>5 DEF Left, TypeOK
  <2> QED
    BY <1>3, <1>4, <2>1, SeesLeft
<1>11. /\ pc'[s] = "commit" => tx[s].amount = 0
       /\ pc'[s] = "item" => \A b \in Allocs : tx'[s].listed[b] = 0
       /\ pc'[s] # "claim" => Unclaimed(s) = {a}
  <2>1. pc'[s] # "claim" => Carries(s) /\ Unclaimed(s) = {a}
    BY <1>6, GoesOnCarrying
  <2>2. ASSUME pc'[s] \in {"commit", "item"}
        PROVE  /\ pc'[s] = "commit" => tx[s].amount = 0
               /\ pc'[s] = "item" => \A b \in Allocs : ~(tx'[s].listed[b] > 0)
    <3>0. PICK m \in Nat : m = tx[s].amount
      BY <1>7
    <3>1. PICK w, L : w = pc'[s] /\ L = tx'[s].listed
      OBVIOUS
    <3>2. w = Continue(s, L, m)
      BY <1>7, <2>1, <2>2, <3>0, <3>1 DEF Carries
    <3>3. /\ w = "commit" => m = 0
          /\ w = "item" => \A b \in Allocs : ~(L[b] > 0)
      BY <1>1, <3>2, ContinueDeals
    <3> QED
      BY <3>0, <3>1, <3>3
  <2> QED
    BY <1>8, <2>1, <2>2
<1>12. /\ ~Giving(s)' /\ ~Starting(s)' /\ Ours(s)' = 0 /\ Ours(s) = 0 /\ (Reserving(s)' => pc'[s] = "item")
       /\ ~Reserving(s)
  BY <1>1, <1>4, <1>5, <1>7 DEF Giving, Starting, Ours, Reserving
<1>13. MovesOK(s)'
  BY <1>1, <1>2, <1>4, <1>9, <1>12 DEF MovesOK, Does
<1>14. SignsOK(s)'
  BY <1>4, <1>5 DEF SignsOK
<1>15. TakenOK(s)'
  <2>1. ASSUME NEW b \in Allocs, tx'[s].listed[b] > 0
        PROVE  /\ pc'[s] = "claim" \/ lock'[Alloc(b)] = s
               /\ lock'[Alloc(b)] = s => Left(s, b)' = tx'[s].listed[b] - HandOf(s, b)'
    <3>1. CASE b = a
      BY <1>7, <1>8, <1>9, <1>10, <3>1
    <3>2. CASE b # a
      <4>1. tx[s].listed[b] > 0 /\ tx'[s].listed[b] = tx[s].listed[b]
        BY <1>8, <2>1, <3>2
      <4>2. pc'[s] # "claim" => lock[Alloc(b)] = s
        BY <1>11, <3>2, <4>1 DEF Unclaimed, Listed
      <4>3. lock[Alloc(b)] = s => Left(s, b) = tx[s].listed[b] - HandOf(s, b)
        BY <1>1, <1>2, <4>1 DEF TakenOK
      <4> QED
        BY <1>7, <1>9, <1>10, <3>2, <4>1, <4>2, <4>3
    <3> QED
      BY <3>1, <3>2
  <2> QED
    BY <1>11, <1>12, <2>1 DEF TakenOK
<1>16. CountOK(s)'
  BY <1>1, <1>2, <1>4, <1>5, <1>7, <1>11, <1>12 DEF CountOK
<1>17. LineOK(s)'
  <2> SUFFICES ASSUME tx[s].line \notin Shared, tx[s].amount > 0,
                      NEW b \in Allocs, line[b] = tx[s].line
               PROVE  Left(s, b)' = tx'[s].listed[b] - HandOf(s, b)'
    BY <1>4, <1>7, <1>10, <1>11 DEF LineOK
  <2>1. Left(s, b) = tx[s].listed[b] - HandOf(s, b)
    BY <1>1, <1>2, <1>5 DEF LineOK
  <2> QED
    BY <1>8, <1>9, <1>10, <2>1
<1>18. WithinOK(s)'
  <2> SUFFICES ASSUME tx[s].line \notin Shared
               PROVE  HeldBy(s, tx[s].line) <= need[tx[s].line] - tx[s].n
                               + (IF Reserving(s)' THEN 0 ELSE tx[s].amount - 0)
    BY <1>1, <1>4, <1>7, <1>9, <1>10, <1>12 DEF WithinOK, Does
  <2>1. ASSUME ~Reserving(s)'
        PROVE  HeldBy(s, tx[s].line) <= need[tx[s].line] - tx[s].n + (tx[s].amount - 0)
    BY <1>1, <1>2, <1>9, <1>12 DEF WithinOK, Does
  <2>2. ASSUME Reserving(s)'
        PROVE  HeldBy(s, tx[s].line) <= need[tx[s].line] - tx[s].n + 0
    <3>1. pc'[s] = "item" /\ \A b \in Allocs : tx'[s].listed[b] = 0
      BY <1>11, <1>12, <2>2
    <3>2. tx[s].amount > 0
      BY <1>7, <3>1, ListingGoes
    <3>3. ASSUME NEW b \in Allocs, line[b] = tx[s].line
          PROVE  Left(s, b) = 0
      <4>1. Left(s, b)' = tx'[s].listed[b] - HandOf(s, b)'
        BY <1>1, <1>4, <1>7, <1>5, <1>10, <1>17, <3>1, <3>2, <3>3 DEF LineOK, Listed0, Underway, Does
      <4> QED
        BY <1>9, <1>10, <3>1, <4>1
    <3> QED
      BY <1>1, <3>3, ReservesLast
  <2> QED
    BY <2>1, <2>2
<1>19. ShiftOK(s)'
  BY <1>1, <1>4 DEF ShiftOK, Does
<1> QED
  BY <1>13, <1>14, <1>15, <1>16, <1>17, <1>18, <1>19 DEF BookOK

\* An allocation that is closed by now is passed over, or as much as may be of it is taken.
LEMMA TakesOrSkips ==
  ASSUME TypeOK, NEW s \in Sessions, SessionOK(s), LockAllocation(s), pc'[s] # "rollback",
         NEW a, a = InTurn(s), NEW k, k = Smaller(tx[s].amount, tx[s].listed[a])
  PROVE  \/ /\ Left(s, a) = 0 /\ ~Does(s, {"reallocate"}) /\ pc'[s] \in {"alloc", "item", "commit"}
            /\ tx'[s].listed = Unlisted(s) /\ tx'[s].take = tx[s].take
            /\ tx'[s].amount = IF Whole(s) THEN tx[s].amount ELSE tx[s].amount - k
         \/ /\ pc'[s] = "balance" /\ tx'[s].listed = tx[s].listed /\ tx'[s].amount = tx[s].amount
            /\ tx'[s].take = IF Whole(s) THEN Left(s, a) ELSE k
<1>1. tx[s] \in Request /\ pc \in [Sessions -> Locking \cup {"idle", "list", "totals", "check", "demand",
                                   "pick", "insert", "commit", "rollback"}]
  BY DEF TypeOK
<1>2. PICK take : take = Takes(s, a)
  OBVIOUS
<1>3. take = IF Whole(s) THEN Left(s, a) ELSE k
  BY <1>2 DEF Takes, Found
<1>4. PICK m : m = IF Whole(s) THEN tx[s].amount ELSE tx[s].amount - take
  OBVIOUS
<1>5. m = IF Whole(s) THEN tx[s].amount ELSE tx[s].amount - k
  BY <1>3, <1>4
<1>6. \/ /\ Left(s, a) = 0 /\ tx[s].kind # "reallocate"
         /\ tx' = [tx EXCEPT ![s].listed = Unlisted(s), ![s].amount = m]
         /\ pc' = [pc EXCEPT ![s] = Continue(s, Unlisted(s), m)]
      \/ /\ tx' = [tx EXCEPT ![s].take = take]
         /\ pc' = [pc EXCEPT ![s] = Unless(0 < take /\ take <= Left(s, a), "balance")]
  BY <1>2, <1>4 DEF LockAllocation, Found, Unlisted, Go
<1>7. CASE /\ Left(s, a) = 0 /\ tx[s].kind # "reallocate"
           /\ tx' = [tx EXCEPT ![s].listed = Unlisted(s), ![s].amount = m]
           /\ pc' = [pc EXCEPT ![s] = Continue(s, Unlisted(s), m)]
  <2>1. tx'[s].listed = Unlisted(s) /\ tx'[s].take = tx[s].take /\ tx'[s].amount = m
    BY <1>1, <1>7 DEF TypeOK, Request
  <2>2. pc'[s] = Continue(s, Unlisted(s), m)
    BY <1>1, <1>7
  <2>3. pc'[s] \in {"alloc", "item", "commit"}
    BY <2>2 DEF Continue
  <2> QED
    BY <1>5, <1>7, <2>1, <2>3 DEF Does
<1>8. CASE /\ tx' = [tx EXCEPT ![s].take = take]
           /\ pc' = [pc EXCEPT ![s] = Unless(0 < take /\ take <= Left(s, a), "balance")]
  <2>1. tx'[s].listed = tx[s].listed /\ tx'[s].take = take /\ tx'[s].amount = tx[s].amount
    BY <1>1, <1>8 DEF TypeOK, Request
  <2>2. pc'[s] = "balance"
    BY <1>1, <1>8 DEF Unless
  <2> QED
    BY <1>3, <2>1, <2>2
<1> QED
  BY <1>6, <1>7, <1>8

\* What is listed is there to be taken, but for what Inventory may have released.
LEMMA LockAllocationBook ==
  ASSUME TypeOK, AllocsOK, NEW s \in Sessions, SessionOK(s), BookOK(s), LockAllocation(s)
  PROVE  BookOK(s)'
<1> SUFFICES ASSUME pc'[s] # "rollback"
             PROVE  BookOK(s)'
  BY DEF BookOK
<1>1. /\ Quiet(s) /\ RouteOK(s) /\ GiveOK(s) /\ OwnOK(s) /\ pc[s] = "alloc" /\ Underway(s) /\ Listed0(s)
      /\ ~Starting(s) /\ Does(s, Givers) /\ Listed(s) # {}
  BY Whereabouts DEF Quiet, SessionOK, Underway, Listed0, RouteOK, GiveOK, Starting
<1>2. /\ MovesOK(s) /\ SignsOK(s) /\ TakenOK(s) /\ CountOK(s) /\ LineOK(s) /\ WithinOK(s) /\ ShiftOK(s)
      /\ tx[s] \in Request
  BY <1>1 DEF BookOK, TypeOK
<1>3. UNCHANGED database
  BY <1>1, QuietIsQuiet DEF Quietly
<1>4. /\ tx'[s].kind = tx[s].kind /\ tx'[s].line = tx[s].line /\ tx'[s].n = tx[s].n
      /\ tx'[s].place = tx[s].place
      /\ tx'[s].made = tx[s].made /\ tx'[s].alloc = tx[s].alloc /\ tx'[s].held = tx[s].held
      /\ tx'[s].hand = tx[s].hand /\ tx'[s].moved = tx[s].moved
  <2>1. ~GiveUpReserved(s) /\ ~PostMovement(s)
    BY <1>1, Whereabouts
  <2> QED
    BY <1>1, <2>1, Fields
<1>5. tx[s].take = 0
  BY <1>1, <1>2 DEF GiveOK, Giving, Request
<1>6. PICK a \in Allocs : a = InTurn(s) /\ tx[s].listed[a] > 0 /\ line[a] = tx[s].line
  BY <1>1, TurnPlaced
<1>7. PICK L \in [Allocs -> Nat] : L = tx[s].listed
  BY <1>2 DEF Request
<1>8. PICK m \in Nat : m = tx[s].amount
  BY <1>2 DEF Request
<1>9. \/ /\ Left(s, a) = 0 /\ ~Does(s, {"reallocate"}) /\ pc'[s] \in {"alloc", "item", "commit"}
         /\ tx'[s].take = 0
         /\ tx'[s].amount = IF Whole(s) THEN m ELSE m - Smaller(m, L[a])
      \/ /\ pc'[s] = "balance" /\ tx'[s].listed = L /\ tx'[s].amount = m
         /\ tx'[s].take = IF Whole(s) THEN Left(s, a) ELSE Smaller(m, L[a])
  BY <1>5, <1>6, <1>7, <1>8, TakesOrSkips
<1>10. /\ \A b \in Allocs : Left(s, b)' = Left(s, b)
       /\ HeldBy(s, tx[s].line)' = HeldBy(s, tx[s].line)
       /\ need'[tx[s].line] = need[tx[s].line] /\ line' = line
  BY <1>3, <1>4, SeesLeft
<1>11. ~Given(s)' /\ ~Starting(s)' /\ Ours(s)' = 0 /\ Ours(s) = 0 /\ ~Reserving(s) /\ ~Given(s)
       /\ InHand(s) = 0 /\ (\A b \in Allocs : HandOf(s, b) = 0) /\ (\A p \in Places : HandAt(s, p) = 0)
  BY <1>1, <1>5, <1>9 DEF Given, Giving, Starting, Ours, Reserving, InHand, HandOf, HandAt
<1>12. InHand(s)' = 0 /\ (\A b \in Allocs : HandOf(s, b)' = 0) /\ (\A p \in Places : HandAt(s, p)' = 0)
  BY <1>11 DEF InHand, HandOf, HandAt
<1>13. MovesOK(s)'
  BY <1>2, <1>4, <1>11, <1>12 DEF MovesOK, Does
<1>14. CASE Left(s, a) = 0 /\ pc'[s] # "balance"
  <2>1. ~Does(s, {"deliver"})
    <3>1. ASSUME Does(s, {"deliver"}) PROVE Left(s, a) = tx[s].listed[a] - HandOf(s, a)
      BY <1>1, <1>2, <1>6, <3>1 DEF TakenOK
    <3> QED
      BY <1>6, <1>7, <1>11, <1>14, <3>1
  <2>2. SignsOK(s)'
    BY <1>1, <1>2, <1>4, <2>1 DEF SignsOK, Does
  <2>3. CASE Does(s, {"cancel"})
    <3>0. pc'[s] \in {"alloc", "commit"}
      BY <1>9, <1>14, <2>3, ListingGoes DEF Does
    <3>1. tx'[s].amount = m - Smaller(m, L[a]) /\ ~Giving(s)' /\ ~Reserving(s)'
      BY <1>4, <1>9, <1>14, <2>3, <3>0 DEF Whole, Does, Giving, Reserving
    <3>2. tx[s].line \in Shared \/ m = 0
      <4>1. SUFFICES ASSUME tx[s].line \notin Shared, m > 0
                     PROVE  FALSE
        BY <1>8
      <4>2. Left(s, a) = tx[s].listed[a] - HandOf(s, a)
        BY <1>1, <1>2, <1>6, <1>8, <2>3, <4>1 DEF LineOK, Does
      <4> QED
        BY <1>6, <1>7, <1>11, <1>14, <4>2
    <3>3. m = 0 => tx'[s].amount = 0
      BY <1>6, <1>7, <3>1 DEF Smaller
    <3>4. TakenOK(s)' /\ CountOK(s)' /\ ShiftOK(s)'
      BY <1>4, <2>3, <3>1 DEF TakenOK, CountOK, ShiftOK, Does
    <3>5. LineOK(s)'
      BY <1>4, <3>2, <3>3 DEF LineOK
    <3>6. WithinOK(s)'
      <4>1. SUFFICES ASSUME tx[s].line \notin Shared
                     PROVE  HeldBy(s, tx[s].line) <= need[tx[s].line] - tx[s].n + (tx'[s].amount - 0)
        BY <1>4, <1>10, <1>12, <2>3, <3>1 DEF WithinOK, Does
      <4>2. HeldBy(s, tx[s].line) <= need[tx[s].line] - tx[s].n + (tx[s].amount - 0)
        BY <1>1, <1>2, <1>11, <2>3, <4>1 DEF WithinOK, Does
      <4> QED
        BY <1>8, <3>2, <3>3, <4>1, <4>2
    <3> QED
      BY <1>13, <2>2, <3>4, <3>5, <3>6 DEF BookOK
  <2>4. CASE ~Does(s, {"cancel"})
    <3>1. Does(s, {"release", "free", "drop", "move"})'
      BY <1>1, <1>4, <1>9, <1>14, <2>1, <2>4 DEF Does, Givers
    <3> QED
      BY <1>13, <2>2, <3>1 DEF BookOK, TakenOK, CountOK, LineOK, WithinOK, ShiftOK, Does
  <2> QED
    BY <2>3, <2>4
<1>15. CASE pc'[s] = "balance"
  <2>1. /\ tx'[s].listed = tx[s].listed /\ tx'[s].amount = tx[s].amount
        /\ ~Whole(s) => tx'[s].take = Smaller(tx[s].amount, tx[s].listed[a])
        /\ InTurn(s)' = InTurn(s) /\ ~Reserving(s)'
    BY <1>4, <1>7, <1>8, <1>9, <1>15 DEF InTurn, Listed, Reserving
  <2>2. SignsOK(s)'
    BY <1>1, <1>2, <1>4, <1>15, <2>1 DEF SignsOK, Does
  <2>3. TakenOK(s)'
    <3>1. Does(s, {"cancel", "deliver"}) => ~Whole(s)
      BY DEF Does, Whole
    <3>2. \A r \in Rows : lock[r] = s => lock'[r] = s
      BY <1>1, QuietIsQuiet
    <3>3. ASSUME Does(s, {"deliver"}), NEW b \in Allocs, tx[s].listed[b] > 0
          PROVE  lock'[Alloc(b)] = s /\ Left(s, b)' = tx[s].listed[b] - HandOf(s, b)'
      <4>1. lock[Alloc(b)] = s /\ Left(s, b) = tx[s].listed[b] - HandOf(s, b)
        BY <1>1, <1>2, <3>3 DEF TakenOK
      <4> QED
        BY <1>10, <1>11, <1>12, <3>2, <4>1, RowsApart
    <3> QED
      BY <1>4, <1>6, <2>1, <3>1, <3>3 DEF TakenOK, Does
  <2>4. CountOK(s)'
    BY <1>1, <1>2, <1>4, <1>11, <1>15, <2>1 DEF CountOK, Does
  <2>5. LineOK(s)'
    BY <1>1, <1>2, <1>4, <1>10, <1>11, <1>12, <1>15, <2>1 DEF LineOK, Does
  <2>6. WithinOK(s)'
    BY <1>1, <1>2, <1>4, <1>10, <1>11, <1>12, <2>1 DEF WithinOK, Does
  <2>7. ShiftOK(s)'
    BY <1>1, <1>2, <1>4, <1>11, <1>12, <2>1 DEF ShiftOK, Does
  <2> QED
    BY <1>13, <2>2, <2>3, <2>4, <2>5, <2>6, <2>7 DEF BookOK
<1> QED
  BY <1>9, <1>14, <1>15

\* What is given up is in hand.
LEMMA GiveUpBook ==
  ASSUME TypeOK, AllocsOK, NEW s \in Sessions, SessionOK(s), BookOK(s), GiveUpReserved(s)
  PROVE  BookOK(s)'
<1> SUFFICES ASSUME pc'[s] # "rollback"
             PROVE  BookOK(s)'
  BY DEF BookOK
<1>1. /\ Quiet(s) /\ RouteOK(s) /\ GiveOK(s) /\ OwnOK(s) /\ pc[s] = "balance" /\ Underway(s) /\ Listed0(s)
      /\ ~Starting(s) /\ Does(s, Givers) /\ Giving(s) /\ Listed(s) # {} /\ tx[s].take > 0
  BY Whereabouts DEF Quiet, SessionOK, Underway, Listed0, RouteOK, GiveOK, Starting, Giving
<1>2. /\ MovesOK(s) /\ SignsOK(s) /\ TakenOK(s) /\ CountOK(s) /\ LineOK(s) /\ WithinOK(s) /\ ShiftOK(s)
      /\ tx[s] \in Request
  BY <1>1 DEF BookOK, TypeOK
<1>3. UNCHANGED database
  BY <1>1, QuietIsQuiet DEF Quietly
<1>4. /\ tx'[s].kind = tx[s].kind /\ tx'[s].line = tx[s].line /\ tx'[s].n = tx[s].n
      /\ tx'[s].place = tx[s].place /\ tx'[s].made = tx[s].made
      /\ tx'[s].hand = tx[s].hand /\ tx'[s].moved = tx[s].moved
      /\ tx'[s].take = tx[s].take /\ tx'[s].listed = tx[s].listed
  <2>1. /\ ~PostMovement(s) /\ ~LockAllocation(s) /\ ~WriteTotals(s)
        /\ ~ListAllocations(s) /\ ~ClaimAllocation(s)
    BY <1>1, Whereabouts
  <2> QED
    BY <1>1, <2>1, Fields
<1>5. PICK a \in Allocs : a = InTurn(s) /\ line[a] = tx[s].line /\ place[a] \in Places
  BY <1>1, TurnPlaced
<1>6. PICK p \in Places : p = place[a]
  BY <1>5
<1>7. PICK k \in Nat : k = tx[s].take /\ k > 0
  BY <1>1, <1>2 DEF Request
<1>8. /\ pc'[s] = "totals" /\ tx'[s].amount = tx[s].amount
      /\ tx'[s].held = [tx[s].held EXCEPT ![p] = tx[s].held[p] - k]
      /\ tx'[s].alloc = [tx[s].alloc EXCEPT ![a] = tx[s].alloc[a] - k]
  BY <1>5, <1>6, <1>7, GivingGoes
<1>9. /\ \A b \in Allocs : tx'[s].alloc[b] = IF b = a THEN tx[s].alloc[a] - k ELSE tx[s].alloc[b]
      /\ \A q \in Places : tx'[s].held[q] = IF q = p THEN tx[s].held[p] - k ELSE tx[s].held[q]
      /\ \A b \in Allocs : tx[s].alloc[b] \in Int /\ active[b] \in Nat /\ tx[s].listed[b] \in Nat
      /\ \A q \in Places : tx[s].held[q] \in Int /\ tx[s].moved[q] \in Int
  BY <1>2, <1>8 DEF Request, Writes, TypeOK
<1>10. line' = line /\ place' = place /\ active' = active /\ need' = need
  BY <1>3 DEF database, allocations, documents
<1>11. \A b \in Allocs : Left(s, b) \in Int /\ Left(s, b)' = Left(s, b) - (IF b = a THEN k ELSE 0)
  BY <1>9, <1>10 DEF Left
<1>12. InTurn(s)' = a
  BY <1>4, <1>5 DEF InTurn, Listed
<1>13. /\ InHand(s)' = k /\ (\A b \in Allocs : HandOf(s, b)' = IF b = a THEN k ELSE 0)
       /\ \A q \in Places : HandAt(s, q)' = IF q = p THEN k ELSE 0
  <2>1. Given(s)'
    BY <1>8 DEF Given, Giving
  <2> QED
    BY <1>4, <1>6, <1>7, <1>10, <1>12, <2>1 DEF InHand, HandOf, HandAt
<1>14. /\ ~Given(s) /\ InHand(s) = 0 /\ (\A b \in Allocs : HandOf(s, b) = 0)
       /\ \A q \in Places : HandAt(s, q) = 0
  BY <1>1 DEF Given, InHand, HandOf, HandAt
<1>15. /\ ~Starting(s)' /\ Ours(s)' = 0 /\ Ours(s) = 0 /\ ~Reserving(s) /\ ~Reserving(s)'
  BY <1>1, <1>8 DEF Starting, Ours, Reserving
<1>16. MovesOK(s)'
  <2> SUFFICES ASSUME NEW q \in Places, Does(s, {"deliver"})
               PROVE  tx[s].moved[q] <= 0 /\ tx[s].moved[q] <= tx'[s].held[q] + HandAt(s, q)'
    BY <1>2, <1>4, <1>15 DEF MovesOK, Does
  <2>1. tx[s].moved[q] <= 0 /\ tx[s].moved[q] <= tx[s].held[q] + 0
    BY <1>2, <1>14 DEF MovesOK
  <2> QED
    BY <1>9, <1>13, <2>1
<1>17. SignsOK(s)'
  <2> SUFFICES ASSUME NEW b \in Allocs
               PROVE  /\ ~Does(s, {"reserve"})
                      /\ Does(s, {"release", "cancel", "free", "drop"}) => tx'[s].alloc[b] <= 0
                      /\ Does(s, {"deliver"}) => /\ b \in tx[s].made \/ tx'[s].alloc[b] <= 0
                                                 /\ tx'[s].alloc[b] > 0 => tx[s].listed[b] > 0
    BY <1>4, <1>8 DEF SignsOK, Does
  <2>1. ~Does(s, {"reserve"})
    BY <1>1 DEF Does, Givers
  <2>2. tx'[s].alloc[b] <= tx[s].alloc[b] /\ tx'[s].alloc[b] \in Int /\ tx[s].alloc[b] \in Int
    BY <1>9
  <2>3. /\ Does(s, {"release", "cancel", "free", "drop"}) => tx[s].alloc[b] <= 0
        /\ Does(s, {"deliver"}) => /\ b \in tx[s].made \/ tx[s].alloc[b] <= 0
                                   /\ tx[s].alloc[b] > 0 => tx[s].listed[b] > 0
    BY <1>1, <1>2 DEF SignsOK
  <2> QED
    BY <2>1, <2>2, <2>3
<1>18. TakenOK(s)'
  <2>1. ASSUME Does(s, {"deliver"}), NEW b \in Allocs, tx[s].listed[b] > 0
        PROVE  lock'[Alloc(b)] = s /\ Left(s, b)' = tx[s].listed[b] - HandOf(s, b)'
    <3>1. lock[Alloc(b)] = s /\ Left(s, b) = tx[s].listed[b] - 0
      BY <1>1, <1>2, <1>14, <2>1 DEF TakenOK
    <3>2. lock'[Alloc(b)] = s
      BY <1>1, <3>1, QuietIsQuiet, RowsApart
    <3> QED
      BY <1>9, <1>11, <1>13, <3>1, <3>2
  <2>2. Does(s, {"cancel", "deliver"}) => tx[s].take = Smaller(tx[s].amount, tx[s].listed[a])
    BY <1>1, <1>2, <1>5 DEF TakenOK
  <2> QED
    BY <1>4, <1>8, <1>12, <1>15, <2>1, <2>2 DEF TakenOK, Does
<1>19. CountOK(s)'
  BY <1>1, <1>2, <1>4, <1>8, <1>15 DEF CountOK, Does
<1>20. LineOK(s)'
  <2> SUFFICES ASSUME tx[s].line \notin Shared, tx[s].amount > 0,
                      Does(s, {"cancel"}) \/ (Does(s, {"deliver"}) /\ tx[s].made = {}),
                      NEW b \in Allocs, line[b] = tx[s].line
               PROVE  Left(s, b)' = tx[s].listed[b] - HandOf(s, b)'
    BY <1>4, <1>8, <1>10 DEF LineOK, Does
  <2>1. Left(s, b) = tx[s].listed[b] - 0
    BY <1>1, <1>2, <1>14 DEF LineOK
  <2> QED
    BY <1>9, <1>11, <1>13, <2>1
<1>21. WithinOK(s)'
  <2> SUFFICES ASSUME tx[s].line \notin Shared, Does(s, {"cancel", "deliver"})
               PROVE  HeldBy(s, tx[s].line)' <= need[tx[s].line] - tx[s].n + (tx[s].amount - k)
    BY <1>1, <1>4, <1>8, <1>10, <1>13, <1>15 DEF WithinOK, Does, Givers
  <2>1. HeldBy(s, tx[s].line) <= need[tx[s].line] - tx[s].n + (tx[s].amount - 0)
    BY <1>1, <1>2, <1>14, <1>15 DEF WithinOK
  <2>2. HeldBy(s, tx[s].line)' = HeldBy(s, tx[s].line) - k
    <3> DEFINE A == {b \in Allocs : line[b] = tx[s].line}
               f == AllLeft(s)
               g == [b \in Allocs |-> Left(s, b)']
    <3>1. IsFiniteSet(A) /\ a \in A
      BY <1>5, AllocsFinite, FS_Subset
    <3>2. /\ \A b \in A : f[b] \in Int /\ g[b] \in Int
          /\ \A b \in A \ {a} : g[b] = f[b]
          /\ g[a] - f[a] = -k
      BY <1>11 DEF AllLeft
    <3>3. HeldBy(s, tx[s].line) = SumFunctionOnSet(f, A)
      BY DEF HeldBy
    <3>4. HeldBy(s, tx[s].line)' = SumFunctionOnSet(g, A)
      BY <1>4, <1>10 DEF HeldBy, AllLeft
    <3>5. SumFunctionOnSet(f, A) \in Int
      BY <3>3, HeldTyped
    <3> HIDE DEF A, f, g
    <3>6. SumFunctionOnSet(g, A) = SumFunctionOnSet(f, A) + (g[a] - f[a])
      BY <3>1, <3>2, SumMoves
    <3> QED
      BY <3>2, <3>3, <3>4, <3>5, <3>6
  <2>3. tx[s].line \in Lines /\ tx[s].amount \in Nat /\ tx[s].n \in Int
    BY <1>2 DEF Request
  <2>4. need[tx[s].line] \in Nat
    BY <2>3 DEF TypeOK
  <2>5. HeldBy(s, tx[s].line) \in Int
    BY HeldTyped
  <2>6. PICK h \in Int, d \in Int, m \in Int, n \in Int :
           h = HeldBy(s, tx[s].line) /\ d = need[tx[s].line] /\ m = tx[s].amount /\ n = tx[s].n
    BY <2>3, <2>4, <2>5
  <2> QED
    BY <2>1, <2>2, <2>6
<1>22. ShiftOK(s)'
  <2> SUFFICES ASSUME Does(s, {"reallocate"})
               PROVE  SumFunctionOnSet(tx'[s].alloc, Allocs) + k = 0
    BY <1>2, <1>4, <1>13, <1>15 DEF ShiftOK, Does
  <2>1. SumFunctionOnSet(tx[s].alloc, Allocs) + 0 = 0
    BY <1>2, <1>14, <1>15 DEF ShiftOK
  <2>2. PICK f : f = tx[s].alloc
    OBVIOUS
  <2>3. PICK g : g = tx'[s].alloc
    OBVIOUS
  <2>4. /\ \A b \in Allocs : f[b] \in Int /\ g[b] \in Int
        /\ \A b \in Allocs \ {a} : g[b] = f[b]
        /\ g[a] - f[a] = -k
    BY <1>9, <2>2, <2>3
  <2>5. SumFunctionOnSet(g, Allocs) = SumFunctionOnSet(f, Allocs) + (g[a] - f[a])
    BY <2>4, AllocsFinite, SumMoves
  <2>6. SumFunctionOnSet(f, Allocs) \in Int
    BY <2>4, AllocsFinite, SumOfIntegers
  <2> QED
    BY <2>1, <2>2, <2>3, <2>4, <2>5, <2>6
<1> QED
  BY <1>16, <1>17, <1>18, <1>19, <1>20, <1>21, <1>22 DEF BookOK

\* The rest of what was wanted is wanted still, and what is dealt with listed no more.
LEMMA DealtWith ==
  ASSUME TypeOK, AllocsOK, NEW s \in Sessions, SessionOK(s), BookOK(s), Given(s),
         Does(s, {"cancel", "deliver"}), tx[s].line \notin Shared, Underway(s), Listed0(s),
         Does(s, {"cancel"}) \/ tx[s].made = {}, tx[s].amount - tx[s].take > 0,
         NEW b \in Allocs, line[b] = tx[s].line
  PROVE  Left(s, b) = Unlisted(s)[b]
<1>1. /\ GiveOK(s) /\ OwnOK(s) /\ Giving(s) /\ Listed(s) # {} /\ TakenOK(s) /\ LineOK(s)
      /\ tx[s] \in Request
  BY DEF SessionOK, Given, GiveOK, BookOK, Underway, TypeOK
<1>2. PICK a \in Allocs : a = InTurn(s)
  BY <1>1, TurnPlaced
<1>3. PICK m \in Nat, k \in Nat, x \in Nat, L \in [Allocs -> Nat] :
         m = tx[s].amount /\ k = tx[s].take /\ L = tx[s].listed /\ x = L[a]
  BY <1>1 DEF Request
<1>4. k = Smaller(m, x)
  BY <1>1, <1>2, <1>3 DEF TakenOK
<1>5. m - k > 0
  BY <1>3
<1>6. k = x /\ m > 0
  BY <1>4, <1>5 DEF Smaller
<1>7. Left(s, b) = L[b] - HandOf(s, b)
  BY <1>1, <1>3, <1>6 DEF LineOK, Does
<1>8. HandOf(s, b) = IF b = a THEN k ELSE 0
  BY <1>2, <1>3 DEF HandOf
<1>9. Unlisted(s)[b] = IF b = a THEN 0 ELSE L[b]
  BY <1>2, <1>3 DEF Unlisted
<1> QED
  BY <1>3, <1>6, <1>7, <1>8, <1>9

\* The totals follow, and the next allocation is looked at.
LEMMA WriteBook ==
  ASSUME TypeOK, AllocsOK, NEW s \in Sessions, SessionOK(s), BookOK(s), WriteTotals(s),
         ~Does(s, {"deliver"})
  PROVE  BookOK(s)'
<1> SUFFICES ASSUME pc'[s] # "rollback"
             PROVE  BookOK(s)'
  BY DEF BookOK
<1>1. /\ Quiet(s) /\ RouteOK(s) /\ GiveOK(s) /\ OwnOK(s) /\ pc[s] = "sync" /\ Underway(s) /\ Listed0(s)
      /\ ~Starting(s) /\ Does(s, Givers) /\ Giving(s) /\ Given(s) /\ Listed(s) # {} /\ tx[s].take > 0
  BY Whereabouts DEF Quiet, SessionOK, Underway, Listed0, RouteOK, GiveOK, Starting, Giving, Given
<1>2. /\ MovesOK(s) /\ SignsOK(s) /\ TakenOK(s) /\ LineOK(s) /\ WithinOK(s) /\ ShiftOK(s)
      /\ tx[s] \in Request
  BY <1>1 DEF BookOK, TypeOK
<1>3. UNCHANGED database
  BY <1>1, QuietIsQuiet DEF Quietly
<1>4. /\ tx'[s].kind = tx[s].kind /\ tx'[s].line = tx[s].line /\ tx'[s].n = tx[s].n
      /\ tx'[s].place = tx[s].place /\ tx'[s].made = tx[s].made
      /\ tx'[s].alloc = tx[s].alloc /\ tx'[s].held = tx[s].held
      /\ tx'[s].hand = tx[s].hand /\ tx'[s].moved = tx[s].moved
  <2>1. ~GiveUpReserved(s) /\ ~PostMovement(s)
    BY <1>1, Whereabouts
  <2> QED
    BY <1>1, <2>1, Fields
<1>5. PICK k \in Nat, m \in Nat : k = tx[s].take /\ k > 0 /\ m = tx[s].amount
  BY <1>1, <1>2 DEF Request
<1>6. /\ pc'[s] \in {"alloc", "item", "commit"} /\ tx'[s].listed = Unlisted(s) /\ tx'[s].take = 0
      /\ tx'[s].amount = Remaining(s) /\ (pc'[s] = "item" => Does(s, {"reallocate"}))
      /\ Carries(s)
  BY GivingGoes, GoesOnCarrying
<1>7. PICK a \in Allocs : a = InTurn(s) /\ tx[s].listed[a] > 0
  BY <1>1, TurnPlaced
<1>8. PICK L \in [Allocs -> Nat] : L = tx[s].listed
  BY <1>2 DEF Request
<1>9. \A b \in Allocs : Unlisted(s)[b] = IF b = a THEN 0 ELSE L[b]
  BY <1>7, <1>8 DEF Unlisted
<1>10. /\ \A b \in Allocs : Left(s, b)' = Left(s, b)
       /\ HeldBy(s, tx[s].line)' = HeldBy(s, tx[s].line)
       /\ need'[tx[s].line] = need[tx[s].line] /\ line' = line
  BY <1>3, <1>4, SeesLeft
<1>11. InHand(s)' = 0 /\ (\A b \in Allocs : HandOf(s, b)' = 0) /\ (\A p \in Places : HandAt(s, p)' = 0)
  BY <1>6 DEF InHand, HandOf, HandAt
<1>12. InHand(s) = k
  BY <1>1, <1>5 DEF InHand
<1>13. ~Starting(s)' /\ pc'[s] \notin {"insert", "claim"} /\ ~Reserving(s)
  BY <1>1, <1>6 DEF Starting, Reserving
<1>14. MovesOK(s)'
  BY <1>2, <1>4, <1>13 DEF MovesOK, Does
<1>15. SignsOK(s)'
  BY <1>2, <1>4 DEF SignsOK, Does
<1>16. CASE Does(s, {"cancel"})
  <2>1. ~Giving(s)' /\ ~Reserving(s)' /\ tx'[s].amount = m - k
    BY <1>4, <1>5, <1>6, <1>16 DEF Giving, Reserving, Remaining, Does
  <2>2. TakenOK(s)' /\ CountOK(s)' /\ ShiftOK(s)'
    BY <1>4, <1>16, <2>1 DEF TakenOK, CountOK, ShiftOK, Does
  <2>3. LineOK(s)'
    <3> SUFFICES ASSUME tx[s].line \notin Shared, m - k > 0
                 PROVE  /\ \A b \in Allocs : line[b] = tx[s].line =>
                                                Left(s, b)' = Unlisted(s)[b] - HandOf(s, b)'
                        /\ pc'[s] = "commit" => \A b \in Allocs : Unlisted(s)[b] = 0
      BY <1>4, <1>6, <1>10, <2>1 DEF LineOK
    <3>1. ASSUME NEW b \in Allocs, line[b] = tx[s].line PROVE Left(s, b) = Unlisted(s)[b]
      <4>1. Does(s, {"cancel", "deliver"}) /\ tx[s].amount - tx[s].take > 0
        BY <1>5, <1>16 DEF Does
      <4> QED
        BY <1>1, <1>16, <3>1, <4>1, DealtWith
    <3>2. m - k \in Nat /\ pc'[s] = Continue(s, Unlisted(s), m - k)
      BY <1>5, <1>6, <2>1 DEF Carries
    <3>3. pc'[s] = "commit" => \A b \in Allocs : ~(Unlisted(s)[b] > 0)
      BY <3>2, ContinueDeals
    <3> QED
      BY <1>8, <1>9, <1>10, <1>11, <3>1, <3>3
  <2>4. WithinOK(s)'
    <3> SUFFICES ASSUME tx[s].line \notin Shared
                 PROVE  HeldBy(s, tx[s].line) <= need[tx[s].line] - tx[s].n + ((m - k) - 0)
      BY <1>4, <1>10, <1>11, <1>16, <2>1 DEF WithinOK, Does
    <3>1. HeldBy(s, tx[s].line) <= need[tx[s].line] - tx[s].n + (m - k)
      BY <1>1, <1>2, <1>5, <1>12, <1>13, <1>16 DEF WithinOK, Does
    <3> QED
      BY <1>5, <3>1
  <2> QED
    BY <1>14, <1>15, <2>2, <2>3, <2>4 DEF BookOK
<1>17. CASE Does(s, {"reallocate"})
  <2>1. \A b \in Allocs : tx'[s].listed[b] = 0
    <3>1. \A b \in Allocs : b # a => ~(L[b] > 0)
      BY <1>2, <1>7, <1>8, <1>17 DEF ShiftOK
    <3> QED
      BY <1>6, <1>8, <1>9, <3>1
  <2>2. pc'[s] = "item"
    <3>1. PICK w, M : w = pc'[s] /\ M = tx'[s].listed
      OBVIOUS
    <3>2. w = Continue(s, M, k)
      BY <1>5, <1>6, <1>17, <3>1 DEF Carries, Remaining
    <3>3. \A b \in Allocs : ~(M[b] > 0)
      BY <2>1, <3>1
    <3>4. w = "item"
      BY <1>17, <3>2, <3>3, ContinueDeals
    <3> QED
      BY <3>1, <3>4
  <2>3. Reserving(s)' /\ tx'[s].amount = k
    BY <1>4, <1>5, <1>6, <1>17, <2>2 DEF Reserving, Posting, Remaining, Does
  <2>4. SumFunctionOnSet(tx[s].alloc, Allocs) + k = 0
    BY <1>2, <1>12, <1>13, <1>17 DEF ShiftOK
  <2>5. ShiftOK(s)'
    BY <1>4, <2>1, <2>3, <2>4 DEF ShiftOK
  <2>6. TakenOK(s)' /\ CountOK(s)' /\ LineOK(s)' /\ WithinOK(s)'
    BY <1>4, <1>17 DEF TakenOK, CountOK, LineOK, WithinOK, Does
  <2> QED
    BY <1>14, <1>15, <2>5, <2>6 DEF BookOK
<1>18. CASE ~Does(s, {"cancel", "reallocate"})
  <2>1. Does(s, {"release", "free", "drop", "move"})'
    BY <1>1, <1>4, <1>18 DEF Does, Givers
  <2> QED
    BY <1>14, <1>15, <2>1 DEF BookOK, TakenOK, CountOK, LineOK, WithinOK, ShiftOK, Does
<1> QED
  BY <1>16, <1>17, <1>18 DEF Does

\* A posting by hand moves stock at the place it was asked for.
LEMMA MoveBook ==
  ASSUME TypeOK, AllocsOK, NEW s \in Sessions, SessionOK(s), BookOK(s), PostMovement(s),
         tx[s].kind = "move"
  PROVE  BookOK(s)'
<1> SUFFICES ASSUME pc'[s] # "rollback"
             PROVE  BookOK(s)'
  BY DEF BookOK
<1>1. /\ Quiet(s) /\ RouteOK(s) /\ GiveOK(s) /\ pc[s] = "position" /\ MovesOK(s) /\ ~Starting(s)
      /\ tx[s] \in Request
  BY Whereabouts DEF Quiet, SessionOK, BookOK, Starting, TypeOK
<1>2. tx'[s].kind = "move" /\ tx'[s].place = tx[s].place
  BY <1>1, Fields
<1>3. tx'[s].hand = [tx[s].hand EXCEPT ![tx[s].place] = Posted(s, tx[s].place)]
  BY PostFields DEF PostedAt
<1>4. pc'[s] \in {"alloc", "item", "commit"}
  BY GivingGoes
<1>5. ~Starting(s)'
  BY <1>4 DEF Starting
<1>6. MovesOK(s)'
  <2> SUFFICES ASSUME NEW p \in Places, tx'[s].hand[p] # Unwritten
               PROVE  p = tx[s].place
    BY <1>2, <1>5 DEF MovesOK, Does
  <2>1. p # tx[s].place => tx'[s].hand[p] = tx[s].hand[p]
    BY <1>1, <1>3 DEF Request, Writes
  <2> QED
    BY <1>1, <2>1 DEF MovesOK, Does
<1>7. SignsOK(s)'
  BY <1>2 DEF SignsOK, Does
<1> QED
  BY <1>2, <1>6, <1>7 DEF BookOK, TakenOK, CountOK, LineOK, WithinOK, ShiftOK, Does

\* A sum that an element is dropped from.
LEMMA SumWithout ==
  ASSUME NEW f \in [Allocs -> Nat], NEW a \in Allocs, NEW g \in [Allocs -> Nat],
         \A b \in Allocs \ {a} : g[b] = f[b], g[a] = 0
  PROVE  SumFunctionOnSet(g, Allocs) = SumFunctionOnSet(f, Allocs) - f[a]
<1>1. IsFiniteSet(Allocs)
  BY AllocsFinite
<1>2. \A b \in Allocs : f[b] \in Int /\ g[b] \in Int
  OBVIOUS
<1>3. SumFunctionOnSet(g, Allocs) = SumFunctionOnSet(f, Allocs) + (g[a] - f[a])
  BY <1>1, <1>2, SumMoves
<1>4. SumFunctionOnSet(f, Allocs) \in Int
  BY <1>1, <1>2, SumOfIntegers
<1> QED
  BY <1>3, <1>4

\* What a delivery reserved itself it takes whole.
LEMMA TakesItsOwn ==
  ASSUME TypeOK, AllocsOK, NEW s \in Sessions, SessionOK(s), BookOK(s), pc[s] = "position",
         Does(s, {"deliver"}), Given(s), tx[s].made # {}
  PROVE  tx[s].take = tx[s].listed[InTurn(s)] /\ Left(s, InTurn(s)) = 0
<1>1. /\ GiveOK(s) /\ OwnOK(s) /\ Giving(s) /\ Listed(s) # {} /\ TakenOK(s) /\ CountOK(s)
      /\ tx[s] \in Request /\ Listed0(s) /\ lock[Alloc(InTurn(s))] = s
  BY DEF SessionOK, Given, GiveOK, BookOK, TypeOK, Listed0, Underway
<1>2. PICK a \in Allocs : a = InTurn(s) /\ tx[s].listed[a] > 0
  BY <1>1, TurnPlaced
<1>3. PICK L \in [Allocs -> Nat] : L = tx[s].listed
  BY <1>1 DEF Request
<1>4. PICK m \in Nat, k \in Nat : m = tx[s].amount /\ k = tx[s].take
  BY <1>1 DEF Request
<1>5. m = SumFunctionOnSet(L, Allocs)
  BY <1>1, <1>3, <1>4 DEF CountOK
<1>6. L[a] <= m
  <2>1. SumFunctionOnSet(L, Allocs) = L[a] + SumFunctionOnSet(L, Allocs \ {a})
    BY <1>3, AllocsFinite, SumTakesOut
  <2>2. SumFunctionOnSet(L, Allocs \ {a}) \in Nat
    BY <1>3, AllocsFinite, FS_Subset, SumOfNaturals
  <2> QED
    BY <1>3, <1>4, <1>5, <2>1, <2>2
<1>7. k = Smaller(m, L[a])
  BY <1>1, <1>2, <1>3, <1>4 DEF TakenOK, Does
<1>8. k = L[a]
  BY <1>3, <1>4, <1>6, <1>7 DEF Smaller
<1>9. Left(s, a) = L[a] - k
  <2>1. Left(s, a) = L[a] - HandOf(s, a)
    BY <1>1, <1>2, <1>3 DEF TakenOK
  <2> QED
    BY <1>2, <1>4, <2>1 DEF HandOf
<1> QED
  BY <1>2, <1>3, <1>4, <1>8, <1>9

\* What a delivery consumes leaves where it was reserved.
LEMMA ConsumeBook ==
  ASSUME TypeOK, AllocsOK, NEW s \in Sessions, SessionOK(s), BookOK(s), PostMovement(s),
         tx[s].kind # "move"
  PROVE  BookOK(s)'
<1> SUFFICES ASSUME pc'[s] # "rollback"
             PROVE  BookOK(s)'
  BY DEF BookOK
<1>1. /\ Quiet(s) /\ RouteOK(s) /\ GiveOK(s) /\ OwnOK(s) /\ pc[s] = "position" /\ Underway(s) /\ Listed0(s)
      /\ ~Starting(s) /\ Does(s, {"deliver"})
  BY Whereabouts DEF Quiet, SessionOK, Underway, Listed0, RouteOK, GiveOK, Starting, Does
<1>2. tx[s].take > 0 /\ Giving(s) /\ Given(s) /\ Listed(s) # {}
  BY <1>1 DEF GiveOK, Giving, Given
<1>3. /\ MovesOK(s) /\ SignsOK(s) /\ TakenOK(s) /\ CountOK(s) /\ LineOK(s) /\ WithinOK(s)
      /\ tx[s] \in Request
  BY <1>1 DEF BookOK, TypeOK
<1>4. UNCHANGED database
  BY <1>1, QuietIsQuiet DEF Quietly
<1>5. /\ tx'[s].kind = tx[s].kind /\ tx'[s].line = tx[s].line /\ tx'[s].n = tx[s].n
      /\ tx'[s].made = tx[s].made /\ tx'[s].alloc = tx[s].alloc /\ tx'[s].held = tx[s].held
  <2>1. ~GiveUpReserved(s)
    BY <1>1, Whereabouts
  <2> QED
    BY <1>1, <2>1, Fields
<1>6. PICK a \in Allocs : a = InTurn(s) /\ tx[s].listed[a] > 0 /\ place[a] \in Places
  BY <1>1, <1>2, TurnPlaced
<1>7. PICK p \in Places : p = place[a]
  BY <1>6
<1>8. PICK k \in Nat, m \in Nat, n \in Int :
         k = tx[s].take /\ k > 0 /\ m = tx[s].amount /\ n = tx[s].n
  BY <1>2, <1>3 DEF Request
<1>9. PICK L \in [Allocs -> Nat] : L = tx[s].listed
  BY <1>3 DEF Request
<1>10. p = PostedAt(s) /\ Signed(s) = -k
  BY <1>6, <1>7, <1>8 DEF PostedAt, Signed
<1>11. /\ tx'[s].moved = [tx[s].moved EXCEPT ![p] = tx[s].moved[p] + (-k)]
       /\ tx'[s].hand = [tx[s].hand EXCEPT ![p] = Posted(s, p)]
       /\ tx'[s].listed = Unlisted(s) /\ tx'[s].take = 0 /\ tx'[s].amount = m - k
  BY <1>8, <1>10, PostFields
<1>12. pc'[s] \in {"alloc", "item", "commit"} /\ Carries(s) /\ m - k \in Nat
  <2>1. tx[s].take <= tx[s].amount
    BY <1>1, <1>2 DEF GiveOK, Whole, Does
  <2>2. m - k \in Nat
    BY <1>8, <2>1
  <2>3. pc'[s] \in {"alloc", "item", "commit"}
    BY GivingGoes
  <2> QED
    BY <2>2, <2>3, GoesOnCarrying
<1>13. /\ \A b \in Allocs : Unlisted(s)[b] = IF b = a THEN 0 ELSE L[b]
       /\ \A q \in Places : tx'[s].moved[q] = IF q = p THEN tx[s].moved[p] - k ELSE tx[s].moved[q]
       /\ \A q \in Places : tx[s].held[q] \in Int /\ tx[s].moved[q] \in Int
       /\ Unlisted(s) \in [Allocs -> Nat]
  BY <1>3, <1>6, <1>9, <1>11 DEF Unlisted, Request, Writes
<1>14. /\ \A b \in Allocs : Left(s, b)' = Left(s, b)
       /\ HeldBy(s, tx[s].line)' = HeldBy(s, tx[s].line)
       /\ need'[tx[s].line] = need[tx[s].line] /\ line' = line
  BY <1>4, <1>5, SeesLeft
<1>15. InHand(s)' = 0 /\ (\A b \in Allocs : HandOf(s, b)' = 0) /\ (\A q \in Places : HandAt(s, q)' = 0)
  BY <1>11 DEF InHand, HandOf, HandAt
<1>16. /\ InHand(s) = k /\ (\A b \in Allocs : HandOf(s, b) = IF b = a THEN k ELSE 0)
       /\ (\A q \in Places : HandAt(s, q) = IF q = p THEN k ELSE 0)
  BY <1>2, <1>6, <1>7, <1>8 DEF InHand, HandOf, HandAt
<1>17. /\ ~Starting(s)' /\ pc'[s] \notin {"insert", "claim"} /\ ~Reserving(s) /\ ~Giving(s)'
       /\ Ours(s) = 0 /\ Ours(s)' = 0 /\ (Reserving(s)' => pc'[s] = "item")
  BY <1>1, <1>2, <1>5, <1>11, <1>12 DEF Starting, Reserving, Giving, Ours, Posting, Does
<1>18. /\ pc'[s] = "commit" => m - k = 0
       /\ pc'[s] = "item" => m - k > 0 /\ \A b \in Allocs : Unlisted(s)[b] = 0
  <2>1. pc'[s] = Continue(s, Unlisted(s), m - k)
    BY <1>11, <1>12 DEF Carries
  <2>2. pc'[s] = "item" => m - k > 0 /\ \A b \in Allocs : ~(Unlisted(s)[b] > 0)
    BY <1>1, <1>12, <2>1, ContinueDeals
  <2>3. pc'[s] = "commit" => m - k = 0
    BY <1>1, <1>12, <2>1, ContinueDeals
  <2> QED
    BY <1>13, <2>2, <2>3
<1>19. tx[s].made # {} => k = L[a] /\ Left(s, a) = 0
  BY <1>1, <1>2, <1>6, <1>8, <1>9, TakesItsOwn
<1>20. MovesOK(s)'
  <2> SUFFICES ASSUME NEW q \in Places
               PROVE  tx'[s].moved[q] <= 0 /\ tx'[s].moved[q] <= tx[s].held[q] + 0
    BY <1>1, <1>5, <1>15, <1>17 DEF MovesOK, Does
  <2>1. tx[s].moved[q] <= 0 /\ tx[s].moved[q] <= tx[s].held[q] + (IF q = p THEN k ELSE 0)
    BY <1>1, <1>3, <1>16 DEF MovesOK
  <2> QED
    BY <1>13, <2>1
<1>21. SignsOK(s)'
  <2> SUFFICES ASSUME NEW b \in Allocs
               PROVE  /\ b \in tx[s].made \/ tx[s].alloc[b] <= 0
                      /\ tx[s].alloc[b] > 0 => Unlisted(s)[b] > 0
    BY <1>1, <1>5, <1>11, <1>17 DEF SignsOK, Does
  <2>1. /\ b \in tx[s].made \/ tx[s].alloc[b] <= 0
        /\ tx[s].alloc[b] > 0 => tx[s].listed[b] > 0
    BY <1>1, <1>3 DEF SignsOK
  <2>2. tx[s].alloc[a] > 0 => FALSE
    <3>1. SUFFICES ASSUME tx[s].alloc[a] > 0 PROVE FALSE
      OBVIOUS
    <3>2. a \in tx[s].made
      <4>1. tx[s].alloc[a] \in Int /\ (a \in tx[s].made \/ tx[s].alloc[a] <= 0)
        BY <1>1, <1>3 DEF SignsOK, Request
      <4> QED
        BY <3>1, <4>1
    <3>3. active[a] = 0 /\ Left(s, a) = 0
      BY <1>1, <1>19, <3>2 DEF OwnOK
    <3> QED
      BY <1>3, <3>1, <3>3 DEF Left, Request
  <2> QED
    BY <1>9, <1>13, <2>1, <2>2
<1>22. TakenOK(s)'
  <2>1. ASSUME NEW b \in Allocs, Unlisted(s)[b] > 0
        PROVE  lock'[Alloc(b)] = s /\ Left(s, b)' = Unlisted(s)[b] - HandOf(s, b)'
    <3>1. b # a /\ L[b] > 0 /\ Unlisted(s)[b] = L[b]
      BY <1>13, <2>1
    <3>2. lock[Alloc(b)] = s /\ Left(s, b) = L[b] - 0
      BY <1>1, <1>3, <1>9, <1>16, <3>1 DEF TakenOK
    <3>3. lock'[Alloc(b)] = s
      BY <1>1, <3>2, QuietIsQuiet, RowsApart
    <3> QED
      BY <1>14, <1>15, <3>1, <3>2, <3>3
  <2> QED
    BY <1>11, <1>17, <1>18, <2>1 DEF TakenOK
<1>23. CountOK(s)'
  <2>1. SumFunctionOnSet(tx'[s].moved, Places) = SumFunctionOnSet(tx[s].moved, Places) + (-k)
    <3>1. PICK f : f = tx[s].moved
      OBVIOUS
    <3>2. PICK g : g = tx'[s].moved
      OBVIOUS
    <3>3. /\ \A q \in Places : f[q] \in Int /\ g[q] \in Int
          /\ \A q \in Places \ {p} : g[q] = f[q]
          /\ g[p] - f[p] = -k
      BY <1>13, <3>1, <3>2
    <3>4. SumFunctionOnSet(g, Places) = SumFunctionOnSet(f, Places) + (g[p] - f[p])
      BY <3>3, ConstantsOK, SumMoves
    <3> QED
      BY <3>1, <3>2, <3>3, <3>4
  <2>2. PICK M \in Int : M = SumFunctionOnSet(tx[s].moved, Places)
    <3>1. SumFunctionOnSet(tx[s].moved, Places) \in Int
      BY <1>13, ConstantsOK, SumOfIntegers
    <3> QED
      BY <3>1
  <2>3. n = m - M + 0
    BY <1>1, <1>3, <1>8, <1>17, <2>2 DEF CountOK
  <2>4. tx[s].made # {} => m - k = SumFunctionOnSet(Unlisted(s), Allocs)
    <3> SUFFICES ASSUME tx[s].made # {}
                 PROVE  m - k = SumFunctionOnSet(Unlisted(s), Allocs)
      OBVIOUS
    <3>1. m = SumFunctionOnSet(L, Allocs) /\ k = L[a]
      BY <1>1, <1>3, <1>8, <1>9, <1>19 DEF CountOK
    <3>2. PICK U \in [Allocs -> Nat] : U = Unlisted(s)
      BY <1>13
    <3>3. (\A b \in Allocs \ {a} : U[b] = L[b]) /\ U[a] = 0
      BY <1>13, <3>2
    <3>4. \A b \in Allocs : L[b] \in Int /\ U[b] \in Int
      OBVIOUS
    <3>5. SumFunctionOnSet(U, Allocs) = SumFunctionOnSet(L, Allocs) - L[a]
      BY <3>3, SumWithout
    <3> QED
      BY <3>1, <3>2, <3>5
  <2>5. n = (m - k) - (M + (-k)) + 0
    BY <1>8, <2>3
  <2> QED
    BY <1>5, <1>8, <1>11, <1>17, <1>18, <2>1, <2>2, <2>4, <2>5 DEF CountOK
<1>24. LineOK(s)'
  <2> SUFFICES ASSUME tx[s].line \notin Shared, m - k > 0, tx[s].made = {}
               PROVE  /\ \A b \in Allocs : line[b] = tx[s].line =>
                                              Left(s, b)' = Unlisted(s)[b] - HandOf(s, b)'
                      /\ pc'[s] # "commit"
    BY <1>1, <1>5, <1>11, <1>14 DEF LineOK, Does
  <2>1. ASSUME NEW b \in Allocs, line[b] = tx[s].line PROVE Left(s, b) = Unlisted(s)[b]
    <3>1. Does(s, {"cancel", "deliver"}) /\ tx[s].amount - tx[s].take > 0
      BY <1>1, <1>8 DEF Does
    <3> QED
      BY <1>1, <1>2, <2>1, <3>1, DealtWith
  <2> QED
    BY <1>13, <1>14, <1>15, <1>18, <2>1
<1>25. WithinOK(s)'
  <2> SUFFICES ASSUME tx[s].line \notin Shared
               PROVE  HeldBy(s, tx[s].line) <= need[tx[s].line] - n
                               + (IF Reserving(s)' THEN 0 ELSE (m - k) - 0)
    BY <1>1, <1>5, <1>8, <1>11, <1>14, <1>15, <1>17 DEF WithinOK, Does
  <2>1. HeldBy(s, tx[s].line) <= need[tx[s].line] - n + (m - k)
    BY <1>1, <1>3, <1>8, <1>16, <1>17 DEF WithinOK, Does
  <2>2. ASSUME Reserving(s)'
        PROVE  HeldBy(s, tx[s].line) <= need[tx[s].line] - n + 0
    <3>1. m - k > 0 /\ \A b \in Allocs : Unlisted(s)[b] = 0
      BY <1>17, <1>18, <2>2
    <3>2. tx[s].made = {}
      <4>1. SUFFICES ASSUME tx[s].made # {} PROVE FALSE
        OBVIOUS
      <4>2. tx'[s].amount = SumFunctionOnSet(tx'[s].listed, Allocs)
        BY <1>1, <1>5, <1>17, <1>23, <4>1 DEF CountOK, Does
      <4>3. SumFunctionOnSet(Unlisted(s), Allocs) = 0
        BY <3>1, AllocsFinite, SumOfNothing
      <4> QED
        BY <1>8, <1>11, <3>1, <4>2, <4>3
    <3>3. ASSUME NEW b \in Allocs, line[b] = tx[s].line PROVE Left(s, b) = 0
      <4>1. Does(s, {"cancel", "deliver"}) /\ tx[s].amount - tx[s].take > 0
        BY <1>1, <1>8, <3>1 DEF Does
      <4> QED
        BY <1>1, <1>2, <3>1, <3>2, <3>3, <4>1, DealtWith
    <3> QED
      BY <1>1, <1>8, <3>3, ReservesLast
  <2>3. (m - k) - 0 = m - k
    BY <1>8
  <2> QED
    BY <2>1, <2>2, <2>3
<1>26. ShiftOK(s)'
  BY <1>1, <1>5 DEF ShiftOK, Does
<1> QED
  BY <1>20, <1>21, <1>22, <1>23, <1>24, <1>25, <1>26 DEF BookOK

-----------------------------------------------------------------------------
(* A statement that reserves.                                                  *)

\* Allocation a becomes one of line l, and holds q.
Grows(s, a, q, l) ==
    /\ line[a] # l
    /\ \A b \in Allocs : /\ Left(s, b) \in Int
                         /\ Left(s, b)' = IF b = a THEN q ELSE Left(s, b)
                         /\ line'[b] = l <=> b = a \/ line[b] = l

\* What a line has grows by an allocation of its own.
LEMMA HeldGrows ==
  ASSUME NEW s, NEW a \in Allocs, NEW q \in Int, NEW l, Grows(s, a, q, l)
  PROVE  HeldBy(s, l)' = HeldBy(s, l) + q
<1> DEFINE A == {b \in Allocs : line[b] = l}
           B == {b \in Allocs : line'[b] = l}
           f == AllLeft(s)
           g == [b \in Allocs |-> Left(s, b)']
<1>1. B = A \cup {a} /\ a \in Allocs \ A /\ A \in SUBSET Allocs
  BY DEF Grows
<1>2. (\A b \in A : f[b] \in Int /\ g[b] = f[b]) /\ g[a] = q /\ q \in Int
  BY DEF Grows, AllLeft
<1>3. HeldBy(s, l) = SumFunctionOnSet(f, A) /\ HeldBy(s, l)' = SumFunctionOnSet(g, B)
  BY DEF HeldBy, AllLeft
<1> HIDE DEF A, B, f, g
<1>4. a \in Allocs \ A /\ A \in SUBSET Allocs /\ g[a] \in Int
  BY <1>1, <1>2
<1>5. SumFunctionOnSet(g, A \cup {a}) = SumFunctionOnSet(f, A) + g[a]
  BY <1>2, <1>4, SumGains
<1> QED
  BY <1>1, <1>2, <1>3, <1>5

\* What is reserved is added to what the line has, and to what is new.
LEMMA InsertSums ==
  ASSUME TypeOK, AllocsOK, NEW s \in Sessions, SessionOK(s), InsertReservation(s),
         NEW a \in Allocs, a = Min(Fresh), line[a] = Nobody, NEW q \in Nat, q = TakenAmount(s),
         NEW l, l = tx[s].line,
         tx'[s].alloc = [tx[s].alloc EXCEPT ![a] = q], tx'[s].line = l, q > 0
  PROVE  /\ line' = [line EXCEPT ![a] = l] /\ active' = active /\ need' = need
         /\ \A b \in Allocs : Left(s, b)' = IF b = a THEN q ELSE Left(s, b)
         /\ \A b \in Allocs : lock'[Alloc(b)] = s <=> b = a \/ lock[Alloc(b)] = s
         /\ HeldBy(s, l)' = HeldBy(s, l) + q
         /\ New(s)' = Consumable(s)
         /\ SumFunctionOnSet(New(s)', Allocs) = SumFunctionOnSet(New(s), Allocs) + q
         /\ SumFunctionOnSet(tx'[s].alloc, Allocs) = SumFunctionOnSet(tx[s].alloc, Allocs) + q
<1>1. /\ a \in Allocs /\ line[a] = Nobody /\ q \in Nat /\ q > 0
      /\ tx'[s].alloc = [tx[s].alloc EXCEPT ![a] = q] /\ tx'[s].line = l
  OBVIOUS
<1>2. /\ tx[s].alloc[a] = 0 /\ active[a] = 0 /\ Left(s, a) = 0
  BY <1>1, FreshIsClear
<1>3. /\ lock' = [lock EXCEPT ![Alloc(a)] = s] /\ line' = [line EXCEPT ![a] = l]
      /\ active' = active /\ need' = need
  BY DEF InsertReservation, documents
<1>4. tx[s].alloc \in [Allocs -> Int] /\ active \in [Allocs -> Nat] /\ line \in [Allocs -> Lines \cup {Nobody}]
      /\ l # Nobody /\ IsFiniteSet(Allocs) /\ lock \in [Rows -> Sessions \cup {Nobody}]
  BY AllocsFinite, ConstantsOK DEF TypeOK, Request
<1>5. \A b \in Allocs : /\ tx'[s].alloc[b] = IF b = a THEN q ELSE tx[s].alloc[b]
                        /\ tx[s].alloc[b] \in Int /\ Left(s, b) \in Int
  BY <1>1, <1>4, SeenTyped
<1>6. \A b \in Allocs : Left(s, b)' = IF b = a THEN q ELSE Left(s, b)
  BY <1>1, <1>2, <1>3, <1>5 DEF Left
<1>7. \A b \in Allocs : lock'[Alloc(b)] = s <=> b = a \/ lock[Alloc(b)] = s
  BY <1>1, <1>3, <1>4, RowsApart
<1>8. HeldBy(s, l)' = HeldBy(s, l) + q
  <2>1. \A b \in Allocs : line'[b] = l <=> b = a \/ line[b] = l
    BY <1>1, <1>3, <1>4
  <2>2. line[a] # l
    BY <1>1, <1>4
  <2>3. \A b \in Allocs : Left(s, b) \in Int
    BY <1>5
  <2>4. Grows(s, a, q, l)
    BY <1>6, <2>1, <2>2, <2>3 DEF Grows
  <2> QED
    BY <1>1, <2>4, HeldGrows
<1>9. New(s)' = Consumable(s)
  BY <1>1 DEF New, Consumable, Mine
<1>10. SumFunctionOnSet(New(s)', Allocs) = SumFunctionOnSet(New(s), Allocs) + q
  <2>1. PICK f : f = New(s)
    OBVIOUS
  <2>2. PICK g : g = New(s)'
    OBVIOUS
  <2>3. /\ \A b \in Allocs : f[b] = IF tx[s].alloc[b] > 0 THEN tx[s].alloc[b] ELSE 0
        /\ \A b \in Allocs : g[b] = IF tx'[s].alloc[b] > 0 THEN tx'[s].alloc[b] ELSE 0
    BY <2>1, <2>2 DEF New
  <2>4. /\ \A b \in Allocs : f[b] \in Int /\ g[b] \in Int
        /\ \A b \in Allocs \ {a} : g[b] = f[b]
        /\ g[a] = q /\ f[a] = 0
    BY <1>1, <1>2, <1>5, <2>3
  <2>5. SumFunctionOnSet(g, Allocs) = SumFunctionOnSet(f, Allocs) + (g[a] - f[a])
    BY <1>1, <1>4, <2>4, SumMoves
  <2> QED
    BY <1>1, <2>1, <2>2, <2>4, <2>5
<1>11. SumFunctionOnSet(tx'[s].alloc, Allocs) = SumFunctionOnSet(tx[s].alloc, Allocs) + q
  <2>1. PICK f : f = tx[s].alloc
    OBVIOUS
  <2>2. PICK g : g = tx'[s].alloc
    OBVIOUS
  <2>3. /\ \A b \in Allocs : f[b] \in Int /\ g[b] \in Int
        /\ \A b \in Allocs \ {a} : g[b] = f[b]
        /\ g[a] = q /\ f[a] = 0
    BY <1>1, <1>2, <1>5, <2>1, <2>2
  <2>4. SumFunctionOnSet(g, Allocs) = SumFunctionOnSet(f, Allocs) + (g[a] - f[a])
    BY <1>1, <1>4, <2>3, SumMoves
  <2> QED
    BY <1>1, <2>1, <2>2, <2>3, <2>4
<1> QED
  BY <1>3, <1>6, <1>7, <1>8, <1>9, <1>10, <1>11

\* A reservation keeps the quantities.
LEMMA InsertBook ==
  ASSUME TypeOK, AllocsOK, NEW s \in Sessions, SessionOK(s), BookOK(s), InsertReservation(s)
  PROVE  BookOK(s)'
<1> SUFFICES ASSUME pc'[s] # "rollback"
             PROVE  BookOK(s)'
  BY DEF BookOK
<1>1. /\ RouteOK(s) /\ GiveOK(s) /\ KeepOK(s) /\ OwnOK(s) /\ pc[s] = "insert" /\ Underway(s) /\ Listed0(s)
      /\ ~Starting(s) /\ Does(s, Keepers) /\ Reserving(s) /\ ~Given(s)
  BY DEF SessionOK, Underway, Listed0, RouteOK, Starting, Reserving, Given, Giving, InsertReservation, At
<1>2. /\ MovesOK(s) /\ SignsOK(s) /\ TakenOK(s) /\ CountOK(s) /\ LineOK(s) /\ WithinOK(s) /\ ShiftOK(s)
      /\ tx[s] \in Request
  BY <1>1 DEF BookOK, TypeOK
<1>3. PICK a : a = Min(Fresh)
  OBVIOUS
<1>4. PICK p : p = TakenPlace(s)
  OBVIOUS
<1>5. PICK q : q = TakenAmount(s)
  OBVIOUS
<1>6. PICK l \in Lines : l = tx[s].line
  BY <1>2 DEF Request
<1>7. Taking(s, a, p, q) /\ GoesOn(s, p, q)
  BY <1>3, <1>4, <1>5, InsertFields
<1>8. /\ tx'[s].kind = tx[s].kind /\ tx'[s].line = l /\ tx'[s].place = tx[s].place
      /\ tx'[s].n = tx[s].n /\ tx'[s].take = tx[s].take
      /\ tx'[s].hand = tx[s].hand /\ tx'[s].moved = tx[s].moved
      /\ tx'[s].alloc = [tx[s].alloc EXCEPT ![a] = q]
      /\ tx'[s].held = [tx[s].held EXCEPT ![p] = tx[s].held[p] + q]
      /\ tx'[s].made = tx[s].made \cup {a}
  BY <1>3, <1>4, <1>5, <1>6, InsertFields
<1>9. /\ line' = [line EXCEPT ![a] = l] /\ active' = active /\ need' = need
      /\ \A b \in Allocs : Left(s, b)' = IF b = a THEN q ELSE Left(s, b)
      /\ \A b \in Allocs : lock'[Alloc(b)] = s <=> b = a \/ lock[Alloc(b)] = s
      /\ HeldBy(s, l)' = HeldBy(s, l) + q
      /\ New(s)' = Consumable(s)
      /\ SumFunctionOnSet(New(s)', Allocs) = SumFunctionOnSet(New(s), Allocs) + q
      /\ SumFunctionOnSet(tx'[s].alloc, Allocs) = SumFunctionOnSet(tx[s].alloc, Allocs) + q
  <2>1. /\ a \in Allocs /\ line[a] = Nobody /\ q \in Nat /\ q > 0
        /\ tx'[s].alloc = [tx[s].alloc EXCEPT ![a] = q] /\ tx'[s].line = l
    BY <1>7, <1>8 DEF Taking
  <2> QED
    BY <1>3, <1>5, <1>6, <2>1, InsertSums
<1>10. /\ a \in Allocs /\ p \in Places /\ q \in Nat /\ q > 0 /\ line[a] = Nobody
       /\ tx[s].alloc[a] = 0 /\ active[a] = 0 /\ a \notin tx[s].made
  BY <1>7, FreshIsClear DEF Taking
<1>11. /\ \A b \in Allocs : tx'[s].alloc[b] = IF b = a THEN q ELSE tx[s].alloc[b]
       /\ \A x \in Places : tx'[s].held[x] = IF x = p THEN tx[s].held[p] + q ELSE tx[s].held[x]
       /\ \A b \in Allocs : tx[s].alloc[b] \in Int
       /\ \A x \in Places : tx[s].held[x] \in Int /\ tx[s].moved[x] \in Int
  BY <1>2, <1>8, <1>10 DEF Request, Writes
<1>12. PICK m \in Nat, n \in Int : m = tx[s].amount /\ n = tx[s].n
  BY <1>2 DEF Request
<1>13. \/ /\ pc'[s] = "insert" \/ (pc'[s] = "commit" /\ ~Does(s, {"deliver"}))
          /\ tx'[s].amount = m - q /\ (pc'[s] = "insert" => m - q > 0)
          /\ tx'[s].listed = tx[s].listed
       \/ /\ Does(s, {"deliver"}) /\ pc'[s] = "alloc" /\ q = m
          /\ tx'[s].listed = Consumable(s)
          /\ tx'[s].amount = SumFunctionOnSet(Consumable(s), Allocs)
  BY <1>7, <1>12 DEF GoesOn
<1>14. /\ ~Given(s)' /\ ~Giving(s)' /\ ~Starting(s)' /\ (Reserving(s)' <=> pc'[s] = "insert")
       /\ pc'[s] # "claim"
  BY <1>13 DEF Given, Giving, Starting, Reserving
<1>15. /\ InHand(s)' = 0 /\ (\A b \in Allocs : HandOf(s, b)' = 0) /\ (\A x \in Places : HandAt(s, x)' = 0)
       /\ InHand(s) = 0 /\ (\A b \in Allocs : HandOf(s, b) = 0) /\ (\A x \in Places : HandAt(s, x) = 0)
  BY <1>1, <1>14 DEF InHand, HandOf, HandAt
<1>16. PICK h \in Int, o \in Int, d \in Int :
          h = HeldBy(s, l) /\ o = SumFunctionOnSet(New(s), Allocs) /\ d = need[l]
  <2>1. \A b \in Allocs : New(s)[b] \in Int
    BY <1>11 DEF New
  <2>2. SumFunctionOnSet(New(s), Allocs) \in Int
    BY <2>1, AllocsFinite, SumOfIntegers
  <2> QED
    BY <2>2, HeldTyped DEF TypeOK
<1>17. Ours(s) = o /\ (pc'[s] = "insert" => Ours(s)' = o + q) /\ (pc'[s] # "insert" => Ours(s)' = 0)
       /\ SumFunctionOnSet(Consumable(s), Allocs) = o + q
  BY <1>1, <1>9, <1>16 DEF Ours
<1>18. MovesOK(s)'
  <2> SUFFICES ASSUME NEW x \in Places, Does(s, {"deliver"})
               PROVE  tx[s].moved[x] <= 0 /\ tx[s].moved[x] <= tx'[s].held[x] + 0
    BY <1>2, <1>8, <1>14, <1>15 DEF MovesOK, Does
  <2>1. tx[s].moved[x] <= 0 /\ tx[s].moved[x] <= tx[s].held[x] + 0
    BY <1>2, <1>15 DEF MovesOK
  <2>2. tx'[s].held[x] \in Int /\ tx[s].held[x] <= tx'[s].held[x]
    BY <1>10, <1>11
  <2> QED
    BY <1>11, <2>1, <2>2
<1>19. SignsOK(s)'
  <2> SUFFICES ASSUME NEW b \in Allocs
               PROVE  /\ Does(s, {"reserve"}) => tx'[s].alloc[b] >= 0
                      /\ ~Does(s, {"release", "cancel", "free", "drop"})
                      /\ Does(s, {"deliver"}) =>
                            /\ b \in tx'[s].made \/ tx'[s].alloc[b] <= 0
                            /\ tx'[s].alloc[b] > 0 /\ pc'[s] # "insert" => tx'[s].listed[b] > 0
    BY <1>8, <1>14 DEF SignsOK, Does
  <2>1. ~Does(s, {"release", "cancel", "free", "drop"})
    BY <1>1 DEF Does, Keepers
  <2>2. /\ Does(s, {"reserve"}) => tx[s].alloc[b] >= 0
        /\ Does(s, {"deliver"}) => b \in tx[s].made \/ tx[s].alloc[b] <= 0
    BY <1>2 DEF SignsOK
  <2>3. Does(s, {"deliver"}) /\ tx'[s].alloc[b] > 0 /\ pc'[s] # "insert" => tx'[s].listed[b] > 0
    <3>1. Consumable(s)[b] = IF tx'[s].alloc[b] > 0 THEN tx'[s].alloc[b] ELSE 0
      <4>1. New(s)'[b] = IF tx'[s].alloc[b] > 0 THEN tx'[s].alloc[b] ELSE 0
        BY DEF New
      <4> QED
        BY <1>9, <4>1
    <3> QED
      BY <1>13, <3>1
  <2> QED
    BY <1>8, <1>10, <1>11, <2>1, <2>2, <2>3
<1>20. TakenOK(s)'
  <2> SUFFICES ASSUME Does(s, {"deliver"})
               PROVE  /\ pc'[s] = "insert" => \A b \in Allocs : tx'[s].listed[b] = 0
                      /\ pc'[s] # "insert" => \A b \in Allocs : tx'[s].listed[b] > 0 =>
                            lock'[Alloc(b)] = s /\ Left(s, b)' = tx'[s].listed[b] - 0
    BY <1>8, <1>14, <1>15 DEF TakenOK, Does
  <2>1. pc'[s] = "insert" => \A b \in Allocs : tx'[s].listed[b] = 0
    BY <1>1, <1>2, <1>13 DEF TakenOK
  <2>2. ASSUME pc'[s] # "insert", NEW b \in Allocs, tx'[s].listed[b] > 0
        PROVE  lock'[Alloc(b)] = s /\ Left(s, b)' = tx'[s].listed[b] - 0
    <3>1. tx'[s].listed[b] = IF tx'[s].alloc[b] > 0 THEN tx'[s].alloc[b] ELSE 0
      <4>1. New(s)'[b] = IF tx'[s].alloc[b] > 0 THEN tx'[s].alloc[b] ELSE 0
        BY DEF New
      <4> QED
        BY <1>9, <1>13, <2>2, <4>1
    <3>2. tx'[s].alloc[b] > 0 /\ tx'[s].listed[b] = tx'[s].alloc[b]
      BY <2>2, <3>1
    <3>3. CASE b = a
      BY <1>9, <1>10, <1>11, <3>2, <3>3
    <3>4. CASE b # a
      <4>1. tx[s].alloc[b] > 0 /\ tx'[s].listed[b] = tx[s].alloc[b] /\ tx[s].alloc[b] \in Int
        BY <1>11, <3>2, <3>4
      <4>2. b \in tx[s].made
        <5>1. b \in tx[s].made \/ tx[s].alloc[b] <= 0
          BY <1>2 DEF SignsOK
        <5> QED
          BY <4>1, <5>1
      <4>3. active[b] = 0 /\ lock[Alloc(b)] = s
        BY <1>1, <4>2 DEF OwnOK
      <4> QED
        BY <1>9, <3>4, <4>1, <4>3 DEF Left
    <3> QED
      BY <3>3, <3>4
  <2> QED
    BY <2>1, <2>2
<1>21. CountOK(s)'
  <2> SUFFICES ASSUME Does(s, {"deliver"})
               PROVE  /\ n = tx'[s].amount - SumFunctionOnSet(tx[s].moved, Places) + Ours(s)'
                      /\ pc'[s] # "insert" => tx'[s].amount = SumFunctionOnSet(tx'[s].listed, Allocs)
                      /\ pc'[s] # "commit"
    BY <1>8, <1>12 DEF CountOK, Does
  <2>1. PICK M \in Int : M = SumFunctionOnSet(tx[s].moved, Places)
    <3>1. SumFunctionOnSet(tx[s].moved, Places) \in Int
      BY <1>11, ConstantsOK, SumOfIntegers
    <3> QED
      BY <3>1
  <2>2. n = m - M + o
    BY <1>1, <1>2, <1>12, <1>17, <2>1 DEF CountOK
  <2>3. CASE pc'[s] = "insert"
    <3>1. tx'[s].amount = m - q /\ Ours(s)' = o + q
      BY <1>13, <1>17, <2>3
    <3> QED
      BY <1>10, <2>1, <2>2, <2>3, <3>1
  <2>4. CASE pc'[s] # "insert"
    <3>1. /\ q = m /\ tx'[s].amount = o + q /\ Ours(s)' = 0 /\ pc'[s] = "alloc"
          /\ tx'[s].listed = Consumable(s)
      BY <1>13, <1>17, <2>4
    <3> QED
      BY <1>10, <1>17, <2>1, <2>2, <3>1
  <2> QED
    BY <2>3, <2>4
<1>22. LineOK(s)'
  BY <1>1, <1>8 DEF LineOK, Does, Keepers
<1>23. WithinOK(s)'
  <2> SUFFICES ASSUME l \notin Shared
               PROVE  /\ Does(s, {"reserve"}) => (h + q) + tx'[s].amount <= d
                      /\ ~Does(s, {"cancel"})
                      /\ Does(s, {"deliver"}) =>
                           h + q <= d - n + (IF pc'[s] = "insert" THEN o + q ELSE tx'[s].amount - 0)
    BY <1>8, <1>9, <1>12, <1>14, <1>15, <1>16, <1>17 DEF WithinOK, Does
  <2>1. ~Does(s, {"cancel"})
    BY <1>1 DEF Does, Keepers
  <2>2. ASSUME Does(s, {"reserve"}) PROVE (h + q) + tx'[s].amount <= d
    <3>1. tx'[s].amount = m - q
      BY <1>13, <2>2 DEF Does
    <3>2. h + m <= d
      BY <1>1, <1>2, <1>6, <1>12, <1>16, <2>2 DEF WithinOK
    <3> QED
      BY <1>10, <3>1, <3>2
  <2>3. ASSUME Does(s, {"deliver"})
        PROVE  h + q <= d - n + (IF pc'[s] = "insert" THEN o + q ELSE tx'[s].amount - 0)
    <3>1. h <= d - n + o
      BY <1>1, <1>2, <1>6, <1>12, <1>16, <1>17, <2>3 DEF WithinOK, Does
    <3>2. pc'[s] # "insert" => tx'[s].amount = o + q
      BY <1>13, <1>17, <2>3
    <3>3. h + q <= d - n + (o + q) /\ (o + q) - 0 = o + q
      BY <1>10, <3>1
    <3> QED
      BY <3>2, <3>3
  <2> QED
    BY <2>1, <2>2, <2>3
<1>24. ShiftOK(s)'
  <2> SUFFICES ASSUME Does(s, {"reallocate"})
               PROVE  /\ pc'[s] # "insert"
                      /\ SumFunctionOnSet(tx'[s].alloc, Allocs) + 0 = 0
                      /\ tx'[s].listed = tx[s].listed
    BY <1>2, <1>8, <1>14, <1>15 DEF ShiftOK, Does
  <2>1. q = m
    <3>1. p = tx[s].place /\ Free(s, p) >= m
      BY <1>7, <1>12 DEF Taking, Suits, Does
    <3>2. q = Smaller(m, Free(s, p)) /\ Free(s, p) \in Int
      BY <1>4, <1>5, <1>10, <1>12, SeenTyped DEF TakenAmount
    <3> QED
      BY <3>1, <3>2 DEF Smaller
  <2>2. SumFunctionOnSet(tx[s].alloc, Allocs) + m = 0
    BY <1>1, <1>2, <1>12 DEF ShiftOK
  <2>3. pc'[s] # "insert" /\ tx'[s].listed = tx[s].listed
    BY <1>12, <1>13, <2>1 DEF Does
  <2>4. SumFunctionOnSet(tx[s].alloc, Allocs) \in Int
    BY <1>11, AllocsFinite, SumOfIntegers
  <2> QED
    BY <1>9, <2>1, <2>2, <2>3, <2>4
<1> QED
  BY <1>18, <1>19, <1>20, <1>21, <1>22, <1>23, <1>24 DEF BookOK

-----------------------------------------------------------------------------
(* What a commit makes of it.                                                  *)

\* After a commit all see what its session saw.
LEMMA CommitSees ==
  ASSUME TypeOK, NEW s \in Sessions, SessionOK(s), Commit(s)
  PROVE  /\ pc[s] = "commit" /\ tx'[s] = Idle /\ pc'[s] = "idle" /\ line' = line /\ place' = place
         /\ \A p \in Places : onHand'[p] = onHand[p] + tx[s].moved[p]
         /\ \A a \in Allocs : /\ active'[a] = Left(s, a) /\ active'[a] = active[a] + tx[s].alloc[a]
                              /\ active'[a] \in Nat /\ active[a] \in Nat /\ tx[s].alloc[a] \in Int
         /\ \A l \in Lines : need'[l] = IF l = tx[s].line /\ Does(s, {"cancel", "deliver"})
                                        THEN need[l] - tx[s].n ELSE need[l]
         /\ \A l : ActiveFor(l)' = HeldBy(s, l)
<1>1. /\ pc[s] = "commit" /\ End(s) /\ line' = line /\ place' = place
      /\ onHand' = [p \in Places |-> Hand(s, p)]
      /\ active' = [a \in Allocs |-> active[a] + tx[s].alloc[a]]
      /\ need' = [need EXCEPT ![tx[s].line] = IF Does(s, {"cancel", "deliver"}) THEN need[tx[s].line] - tx[s].n
                                              ELSE need[tx[s].line]]
  BY DEF Commit, At, Does
<1>2. tx'[s] = Idle /\ pc'[s] = "idle"
  BY <1>1, Ends
<1>3. \A p \in Places : onHand'[p] = onHand[p] + tx[s].moved[p]
  <2> SUFFICES ASSUME NEW p \in Places PROVE onHand'[p] = onHand[p] + tx[s].moved[p]
    OBVIOUS
  <2>1. /\ onHand'[p] = Hand(s, p) /\ onHand[p] \in Nat
        /\ tx[s].hand[p] = Unwritten => tx[s].moved[p] = 0
        /\ tx[s].hand[p] # Unwritten => tx[s].hand[p] = onHand[p] + tx[s].moved[p]
    BY <1>1, SeenTyped DEF SessionOK, BalanceOK
  <2> QED
    BY <2>1 DEF Hand
<1>4. \A a \in Allocs : /\ active'[a] = Left(s, a) /\ active'[a] = active[a] + tx[s].alloc[a]
                        /\ active'[a] \in Nat /\ active[a] \in Nat /\ tx[s].alloc[a] \in Int
  BY <1>1, SeenTyped DEF Left, SessionOK, OwnOK
<1>5. \A l \in Lines : need'[l] = IF l = tx[s].line /\ Does(s, {"cancel", "deliver"})
                                  THEN need[l] - tx[s].n ELSE need[l]
  BY <1>1 DEF TypeOK
<1>6. ASSUME NEW l PROVE ActiveFor(l)' = HeldBy(s, l)
  <2> DEFINE A == {a \in Allocs : line[a] = l}
             h == AllLeft(s)
             g == active'
  <2>1. IsFiniteSet(A)
    BY AllocsFinite, FS_Subset
  <2>2. ActiveFor(l)' = SumFunctionOnSet(g, A) /\ HeldBy(s, l) = SumFunctionOnSet(h, A)
    BY <1>1 DEF ActiveFor, HeldBy
  <2>3. \A a \in A : h[a] = g[a]
    BY <1>4 DEF AllLeft
  <2> HIDE DEF A, h, g
  <2> QED
    BY <2>1, <2>2, <2>3, SumOfEqual
<1> QED
  BY <1>1, <1>2, <1>3, <1>4, <1>5, <1>6

\* At its commit a transaction leaves its line no more than the line needs.
LEMMA SettledWithin ==
  ASSUME TypeOK, AllocsOK, NEW s \in Sessions, SessionOK(s), BookOK(s), pc[s] = "commit",
         NEW l \in Lines, l = tx[s].line, l \notin Shared, ActiveFor(l) <= need[l]
  PROVE  HeldBy(s, l) <= IF Does(s, {"cancel", "deliver"}) THEN need[l] - tx[s].n ELSE need[l]
<1>1. /\ RouteOK(s) /\ OrderOK(s) /\ Underway(s) /\ Listed0(s) /\ ~Reserving(s) /\ ~Given(s) /\ ~Starting(s)
      /\ tx[s] \in Request
  BY DEF SessionOK, Underway, Listed0, Reserving, Given, Giving, Starting, TypeOK
<1>2. SignsOK(s) /\ CountOK(s) /\ LineOK(s) /\ WithinOK(s)
  BY DEF BookOK
<1>3. InHand(s) = 0 /\ \A a \in Allocs : HandOf(s, a) = 0
  BY <1>1 DEF InHand, HandOf
<1>4. PICK m \in Nat, n \in Int, d \in Nat : m = tx[s].amount /\ n = tx[s].n /\ d = need[l]
  BY <1>1 DEF TypeOK, Request
<1>5. PICK h \in Int, v \in Int : h = HeldBy(s, l) /\ v = ActiveFor(l)
  <2>1. IsFiniteSet({a \in Allocs : line[a] = l}) /\ \A a \in {a \in Allocs : line[a] = l} : active[a] \in Int
    BY AllocsFinite, FS_Subset, SeenTyped
  <2>2. ActiveFor(l) \in Int
    BY <2>1, SumOfIntegers DEF ActiveFor
  <2> QED
    BY <2>2, HeldTyped
<1>6. Does(s, Sales \cup {"move"})
  BY <1>1 DEF RouteOK
<1>7. CASE Does(s, {"reserve"})
  <2>1. h + m <= d
    BY <1>1, <1>2, <1>4, <1>5, <1>7 DEF WithinOK
  <2>2. h <= d /\ ~Does(s, {"cancel", "deliver"})
    BY <1>4, <1>5, <1>7, <2>1 DEF Does
  <2> QED
    BY <1>4, <1>5, <2>2
<1>8. CASE Does(s, {"release"})
  <2>1. h <= v
    <3> DEFINE A == {a \in Allocs : line[a] = l}
               f == AllLeft(s)
               g == active
    <3>1. IsFiniteSet(A)
      BY AllocsFinite, FS_Subset
    <3>2. \A a \in A : f[a] \in Int /\ g[a] \in Int /\ f[a] <= g[a]
      <4> SUFFICES ASSUME NEW a \in Allocs
                   PROVE  Left(s, a) \in Int /\ active[a] \in Int /\ Left(s, a) <= active[a]
        BY DEF AllLeft
      <4>1. tx[s].alloc[a] <= 0
        BY <1>2, <1>8 DEF SignsOK, Does
      <4> QED
        BY <4>1, SeenTyped DEF Left
    <3>3. HeldBy(s, l) = SumFunctionOnSet(f, A) /\ ActiveFor(l) = SumFunctionOnSet(g, A)
      BY DEF HeldBy, ActiveFor
    <3> HIDE DEF A, f, g
    <3>4. SumFunctionOnSet(f, A) <= SumFunctionOnSet(g, A)
      BY <3>1, <3>2, SumOfLess
    <3> QED
      BY <1>5, <3>3, <3>4
  <2>2. h <= d /\ ~Does(s, {"cancel", "deliver"})
    BY <1>4, <1>5, <1>8, <2>1 DEF Does
  <2> QED
    BY <1>4, <1>5, <2>2
<1>9. CASE Does(s, {"move"})
  <2>1. NoneWritten(s)
    BY <1>1, <1>9 DEF OrderOK
  <2>2. HeldBy(s, l) = ActiveFor(l) /\ ~Does(s, {"cancel", "deliver"})
    BY <1>9, <2>1, SeesAll DEF Does
  <2> QED
    BY <2>2
<1>10. CASE Does(s, {"cancel", "deliver"})
  <2>1. h <= d - n + (m - 0)
    BY <1>1, <1>2, <1>3, <1>4, <1>5, <1>10 DEF WithinOK
  <2>2. n <= d
    BY <1>1, <1>4, <1>10 DEF OrderOK
  <2>3. h <= d - n
    <3>1. CASE m = 0
      BY <2>1, <3>1
    <3>2. CASE m > 0
      <4>1. Does(s, {"cancel"})
        BY <1>2, <1>4, <1>10, <3>2 DEF CountOK, Does
      <4>2. \A a \in Allocs : line[a] = l => Left(s, a) = tx[s].listed[a] - HandOf(s, a)
        BY <1>1, <1>2, <1>4, <3>2, <4>1 DEF LineOK
      <4>3. \A a \in Allocs : tx[s].listed[a] = 0
        BY <1>1, <1>2, <1>4, <3>2, <4>1 DEF LineOK
      <4>4. \A a \in Allocs : line[a] = l => Left(s, a) = 0
        BY <1>3, <4>2, <4>3
      <4>5. h = 0
        BY <1>5, <4>4, UsedUp
      <4> QED
        BY <1>4, <2>2, <4>5
    <3> QED
      BY <3>1, <3>2
  <2> QED
    BY <1>4, <1>5, <1>10, <2>3
<1> QED
  BY <1>6, <1>7, <1>8, <1>9, <1>10 DEF Does, Sales

\* A commit leaves every line that only sales touches within its need.
LEMMA CommitNeed ==
  ASSUME TypeOK, AllocsOK, NEW s \in Sessions, SessionOK(s), BookOK(s), NeedOK, Commit(s)
  PROVE  NeedOK'
<1> SUFFICES ASSUME NEW l \in Lines \ Shared
             PROVE  ActiveFor(l)' <= need'[l]
  BY DEF NeedOK
<1>1. /\ pc[s] = "commit" /\ line' = line
      /\ \A a \in Allocs : active'[a] = active[a] + tx[s].alloc[a] /\ active[a] \in Nat /\ tx[s].alloc[a] \in Int
      /\ need'[l] = IF l = tx[s].line /\ Does(s, {"cancel", "deliver"}) THEN need[l] - tx[s].n ELSE need[l]
      /\ ActiveFor(l)' = HeldBy(s, l)
  BY CommitSees
<1>2. ActiveFor(l) <= need[l]
  BY DEF NeedOK
<1>3. CASE l = tx[s].line
  <2>1. HeldBy(s, l) <= IF Does(s, {"cancel", "deliver"}) THEN need[l] - tx[s].n ELSE need[l]
    BY <1>1, <1>2, <1>3, SettledWithin
  <2> QED
    BY <1>1, <1>3, <2>1
<1>4. CASE l # tx[s].line
  <2> DEFINE A == {a \in Allocs : line[a] = l}
             f == active
             g == active'
  <2>1. IsFiniteSet(A)
    BY AllocsFinite, FS_Subset
  <2>2. \A a \in A : f[a] = g[a]
    <3>1. \A a \in A : tx[s].alloc[a] = 0
      BY <1>4 DEF SessionOK, OwnOK
    <3> QED
      BY <1>1, <3>1
  <2>3. ActiveFor(l) = SumFunctionOnSet(f, A) /\ ActiveFor(l)' = SumFunctionOnSet(g, A)
    BY <1>1 DEF ActiveFor
  <2> HIDE DEF A, f, g
  <2>4. ActiveFor(l)' = ActiveFor(l)
    BY <2>1, <2>2, <2>3, SumOfEqual
  <2> QED
    BY <1>1, <1>2, <1>4, <2>4
<1> QED
  BY <1>3, <1>4

\* What is reserved at a place for a line.
KeptOf(l, p) == SumFunctionOnSet(active, {a \in Allocs : line[a] = l /\ place[a] = p})

\* Only rows that hold nothing are made, or unmade.
LEMMA RowsHoldNothing ==
  ASSUME TypeOK, AllocsOK, NEW s \in Sessions, SessionOK(s), InsertReservation(s) \/ Rollback(s)
  PROVE  /\ UNCHANGED <<onHand, active, need>>
         /\ \A a \in Allocs : active[a] > 0 => place'[a] = place[a] /\ line'[a] = line[a]
<1>1. CASE InsertReservation(s)
  <2>1. PICK a \in Allocs : a = Min(Fresh) /\ line[a] = Nobody
    <3>1. Fresh # {}
      BY <1>1 DEF InsertReservation
    <3> QED
      BY <3>1, FreshTurn
  <2>2. /\ place' = [place EXCEPT ![a] = TakenPlace(s)] /\ line' = [line EXCEPT ![a] = tx[s].line]
        /\ UNCHANGED <<onHand, active, need>>
    BY <1>1, <2>1 DEF InsertReservation, balances, documents, TakenPlace
  <2>3. active[a] = 0
    BY <2>1 DEF AllocsOK
  <2> QED
    BY <2>2, <2>3 DEF TypeOK
<1>2. CASE Rollback(s)
  <2>1. /\ UNCHANGED <<onHand, active, need>>
        /\ place' = [a \in Allocs |-> IF a \in tx[s].made THEN Nobody ELSE place[a]]
        /\ line' = [a \in Allocs |-> IF a \in tx[s].made THEN Nobody ELSE line[a]]
    BY <1>2 DEF Rollback, balances, documents
  <2>2. \A a \in Allocs : a \in tx[s].made => active[a] = 0
    BY DEF SessionOK, OwnOK
  <2> QED
    BY <2>1, <2>2
<1> QED
  BY <1>1, <1>2

\* Then every line keeps what it had.
LEMMA RegroupedKept ==
  ASSUME TypeOK, active' = active,
         \A a \in Allocs : active[a] > 0 => place'[a] = place[a] /\ line'[a] = line[a]
  PROVE  /\ \A l : ActiveFor(l)' = ActiveFor(l)
         /\ \A p : ActiveAt(p)' = ActiveAt(p)
         /\ \A l, p : KeptOf(l, p)' = KeptOf(l, p)
<1>1. \A a \in Allocs : active[a] \in Nat
  BY DEF TypeOK
<1>2. ASSUME NEW A \in SUBSET Allocs, NEW B \in SUBSET Allocs,
             \A a \in Allocs : active[a] > 0 => (a \in A <=> a \in B)
      PROVE  SumFunctionOnSet(active, A) = SumFunctionOnSet(active, B)
  <2>1. \A a \in Allocs : IF a \in A /\ a \in B THEN active[a] = active[a]
                          ELSE IF a \in A THEN active[a] = 0 ELSE a \in B => active[a] = 0
    BY <1>1, <1>2
  <2>2. \A a \in Allocs : active[a] \in Int
    BY <1>1
  <2> QED
    BY <2>1, <2>2, SumOfGroup
<1>3. ASSUME NEW l PROVE ActiveFor(l)' = ActiveFor(l)
  <2> DEFINE A == {a \in Allocs : line[a] = l}
             B == {a \in Allocs : line'[a] = l}
  <2>1. A \in SUBSET Allocs /\ B \in SUBSET Allocs /\ \A a \in Allocs : active[a] > 0 => (a \in A <=> a \in B)
    OBVIOUS
  <2> HIDE DEF A, B
  <2>2. SumFunctionOnSet(active, A) = SumFunctionOnSet(active, B)
    BY <1>2, <2>1
  <2> QED
    BY <2>2 DEF ActiveFor, A, B
<1>4. ASSUME NEW p PROVE ActiveAt(p)' = ActiveAt(p)
  <2> DEFINE A == {a \in Allocs : place[a] = p}
             B == {a \in Allocs : place'[a] = p}
  <2>1. A \in SUBSET Allocs /\ B \in SUBSET Allocs /\ \A a \in Allocs : active[a] > 0 => (a \in A <=> a \in B)
    OBVIOUS
  <2> HIDE DEF A, B
  <2>2. SumFunctionOnSet(active, A) = SumFunctionOnSet(active, B)
    BY <1>2, <2>1
  <2> QED
    BY <2>2 DEF ActiveAt, A, B
<1>5. ASSUME NEW l, NEW p PROVE KeptOf(l, p)' = KeptOf(l, p)
  <2> DEFINE A == {a \in Allocs : line[a] = l /\ place[a] = p}
             B == {a \in Allocs : line'[a] = l /\ place'[a] = p}
  <2>1. A \in SUBSET Allocs /\ B \in SUBSET Allocs /\ \A a \in Allocs : active[a] > 0 => (a \in A <=> a \in B)
    OBVIOUS
  <2> HIDE DEF A, B
  <2>2. SumFunctionOnSet(active, A) = SumFunctionOnSet(active, B)
    BY <1>2, <2>1
  <2> QED
    BY <2>2 DEF KeptOf, A, B
<1> QED
  BY <1>3, <1>4, <1>5

-----------------------------------------------------------------------------
(* The invariant.                                                              *)

\* Of every session, with what a line may hold: the inductive invariant of the book.
BooksOK == \A s \in Sessions : BookOK(s)
BookInv == Inv /\ BooksOK /\ NeedOK

\* A statement that nobody else notices keeps its own session's part of the invariant.
LEMMA QuietBook ==
  ASSUME TypeOK, AllocsOK, NEW s \in Sessions, SessionOK(s), BookOK(s), NeedOK, Quiet(s)
  PROVE  BookOK(s)'
<1>1. CASE Ordering(s)
  BY <1>1, OrderingBook
<1>2. CASE LockReservation(s)
  BY <1>2, LockReservationBook
<1>3. CASE ListAllocations(s)
  BY <1>3, ListBook
<1>4. CASE ClaimAllocation(s)
  BY <1>4, ClaimBook
<1>5. CASE LockAllocation(s)
  BY <1>5, LockAllocationBook
<1>6. CASE GiveUpReserved(s)
  BY <1>6, GiveUpBook
<1>7. CASE WriteTotals(s) /\ ~Does(s, {"deliver"})
  BY <1>7, WriteBook
<1>8. CASE PostMovement(s) /\ tx[s].kind = "move"
  BY <1>8, MoveBook
<1>9. CASE PostMovement(s) /\ tx[s].kind # "move"
  BY <1>9, ConsumeBook
<1>10. CASE GoesOnOnly(s)
  BY <1>10, GoesOnBook
<1> QED
  BY <1>1, <1>2, <1>3, <1>4, <1>5, <1>6, <1>7, <1>8, <1>9, <1>10 DEF Quiet, GoesOnOnly

\* At the start nobody has made a request.
LEMMA InitBook ==
  ASSUME Init
  PROVE  BookInv
<1>1. Inv /\ \A l \in Lines : ActiveFor(l) <= need[l]
  BY InitInv
<1>2. NeedOK
  BY <1>1 DEF NeedOK
<1>3. ASSUME NEW s \in Sessions PROVE BookOK(s)
  <2>1. tx[s] = Idle /\ pc[s] = "idle"
    BY DEF Init
  <2>2. tx[s].kind = "move" /\ \A p \in Places : tx[s].hand[p] = Unwritten
    BY <2>1, IdleTyped
  <2>3. MovesOK(s) /\ SignsOK(s)
    BY <2>2 DEF MovesOK, SignsOK, Does
  <2> QED
    BY <2>2, <2>3, PlainBook DEF Does
<1> QED
  BY <1>1, <1>2, <1>3 DEF BookInv, BooksOK

\* Every step keeps it.
LEMMA StepKeepsBook ==
  ASSUME BookInv, [Next]_vars
  PROVE  BookInv'
<1>1. /\ Inv /\ TypeOK /\ AllocsOK /\ NeedOK
      /\ \A t \in Sessions : SessionOK(t) /\ BookOK(t)
  BY DEF BookInv, BooksOK, Inv, SessionsOK
<1>2. Inv'
  BY <1>1, StepKeepsInv
\* It is enough that who takes the step and what all see are as they should be.
<1>3. ASSUME NEW s \in Sessions, BookOK(s)', NeedOK', \A t \in Sessions \ {s} : Undisturbed(t),
             \A t \in Sessions \ {s} : LineStays(t)
      PROVE  BookInv'
  <2>1. ASSUME NEW t \in Sessions PROVE BookOK(t)'
    <3>1. CASE t = s
      BY <1>3, <3>1
    <3>2. CASE t # s
      <4>1. Undisturbed(t) /\ LineStays(t)
        BY <1>3, <3>2
      <4> QED
        BY <1>1, <4>1, UndisturbedBook
    <3> QED
      BY <3>1, <3>2
  <2>2. BooksOK'
    BY <2>1 DEF BooksOK
  <2> QED
    BY <1>2, <1>3, <2>2 DEF BookInv
\* Who writes nothing that others can see.
<1>4. ASSUME NEW s \in Sessions, Quietly(s), tx'[s].made \subseteq tx[s].made, BookOK(s)' PROVE BookInv'
  <2>1. \A t \in Sessions \ {s} : Undisturbed(t)
    BY <1>1, <1>4, QuietSpares
  <2>2. UNCHANGED database
    BY <1>4 DEF Quietly
  <2>3. \A t \in Sessions \ {s} : LineStays(t)
    BY <1>1, <2>2, OthersLineStays
  <2>4. NeedOK'
    BY <1>1, <2>2 DEF NeedOK, ActiveFor, database, allocations, documents
  <2> QED
    BY <1>3, <1>4, <2>1, <2>3, <2>4
<1>5. ASSUME NEW s \in Sessions, Request0(s) PROVE BookInv'
  <2>1. Quietly(s) /\ tx'[s].made \subseteq tx[s].made
    BY <1>1, <1>5, RequestIsQuiet, RequestFields DEF EmptyHanded
  <2>2. BookOK(s)'
    BY <1>1, <1>5, RequestBook
  <2> QED
    BY <1>4, <2>1, <2>2
<1>6. ASSUME NEW s \in Sessions, Fails(s) PROVE BookInv'
  <2>1. Quietly(s) /\ tx'[s].made \subseteq tx[s].made /\ pc'[s] = "rollback"
    BY <1>1, <1>6, FailIsQuiet
  <2>2. BookOK(s)'
    BY <2>1 DEF BookOK
  <2> QED
    BY <1>4, <2>1, <2>2
<1>7. ASSUME NEW s \in Sessions, Quiet(s) PROVE BookInv'
  <2>1. Quietly(s)
    BY <1>1, <1>7, QuietIsQuiet
  <2>2. tx'[s].made \subseteq tx[s].made
    <3>1. RouteOK(s) /\ GiveOK(s)
      BY <1>1 DEF SessionOK
    <3> QED
      BY <1>1, <1>7, <3>1, Fields
  <2>3. BookOK(s)'
    BY <1>1, <1>7, QuietBook
  <2> QED
    BY <1>4, <2>1, <2>2, <2>3
<1>8. ASSUME NEW s \in Sessions, InsertReservation(s) \/ Rollback(s) PROVE NeedOK'
  <2>1. /\ UNCHANGED <<active, need>>
        /\ \A a \in Allocs : active[a] > 0 => place'[a] = place[a] /\ line'[a] = line[a]
    BY <1>1, <1>8, RowsHoldNothing
  <2>2. \A l : ActiveFor(l)' = ActiveFor(l)
    BY <1>1, <2>1, RegroupedKept
  <2> QED
    BY <1>1, <2>1, <2>2 DEF NeedOK
<1>9. ASSUME NEW s \in Sessions, InsertReservation(s) PROVE BookInv'
  <2>1. \A t \in Sessions \ {s} : Undisturbed(t)
    BY <1>1, <1>9, InsertSpares
  <2>2. \A t \in Sessions \ {s} : LineStays(t)
    BY <1>1, <1>9, OthersLineStays
  <2>3. BookOK(s)'
    BY <1>1, <1>9, InsertBook
  <2> QED
    BY <1>3, <1>8, <1>9, <2>1, <2>2, <2>3
<1>10. ASSUME NEW s \in Sessions, Commit(s) PROVE BookInv'
  <2>1. \A t \in Sessions \ {s} : Undisturbed(t)
    BY <1>1, <1>10, CommitSpares
  <2>2. \A t \in Sessions \ {s} : LineStays(t)
    BY <1>1, <1>10, OthersLineStays
  <2>3. BookOK(s)'
    BY <1>1, <1>10, CommitSees, RestBook
  <2>4. NeedOK'
    BY <1>1, <1>10, CommitNeed
  <2> QED
    BY <1>3, <2>1, <2>2, <2>3, <2>4
<1>11. ASSUME NEW s \in Sessions, Rollback(s) PROVE BookInv'
  <2>1. \A t \in Sessions \ {s} : Undisturbed(t)
    BY <1>1, <1>11, RollbackSpares
  <2>2. \A t \in Sessions \ {s} : LineStays(t)
    BY <1>1, <1>11, OthersLineStays
  <2>3. BookOK(s)'
    <3>1. End(s)
      BY <1>11 DEF Rollback
    <3> QED
      BY <1>1, <3>1, Ends, RestBook
  <2> QED
    BY <1>3, <1>8, <1>11, <2>1, <2>2, <2>3
<1>12. ASSUME (\E p \in Places : StartCount(p) \/ CancelCount(p)) \/ UNCHANGED vars PROVE BookInv'
  <2>1. UNCHANGED <<active, line, need>>
    BY <1>12 DEF vars, StartCount, CancelCount, allocations, documents, database
  <2>2. ASSUME NEW t \in Sessions PROVE BookOK(t)'
    <3>1. Undisturbed(t)
      BY <1>1, <1>12, CountSpares
    <3>2. LineStays(t)
      BY <2>1 DEF LineStays
    <3> QED
      BY <1>1, <3>1, <3>2, UndisturbedBook
  <2>3. NeedOK'
    BY <1>1, <2>1 DEF NeedOK, ActiveFor
  <2> QED
    BY <1>2, <2>2, <2>3 DEF BookInv, BooksOK
<1>13. ASSUME NEW s \in Sessions, Statement(s) PROVE BookInv'
  BY <1>7, <1>9, <1>10, <1>11, <1>13, Steps
<1> QED
  BY <1>5, <1>6, <1>12, <1>13 DEF Next, Request0, Fails

\* What each transaction has moved, kept and given back agrees with what it was asked for,
\* at every step of it.
THEOREM BookInvariance == Spec => []BookInv
<1>1. Init => BookInv
  BY InitBook
<1>2. BookInv /\ [Next]_vars => BookInv'
  BY StepKeepsBook
<1> QED
  BY <1>1, <1>2, PTL DEF Spec

-----------------------------------------------------------------------------
(* A sum taken group by group. *)

\* The sum over two sets that share nothing is the sum of their sums.
LEMMA SumOfTwo ==
  ASSUME NEW P, NEW Q, IsFiniteSet(P), IsFiniteSet(Q), \A x \in P : x \notin Q,
         NEW f, \A x \in P \cup Q : f[x] \in Int
  PROVE  SumFunctionOnSet(f, P \cup Q) = SumFunctionOnSet(f, P) + SumFunctionOnSet(f, Q)
<1> DEFINE u == [x \in P \cup Q |-> IF x \in P THEN f[x] ELSE 0]
           v == [x \in P \cup Q |-> IF x \in P THEN 0 ELSE f[x]]
<1>1. IsFiniteSet(P \cup Q) /\ P \in SUBSET (P \cup Q) /\ Q \in SUBSET (P \cup Q)
  BY FS_Union
<1>2. \A x \in P \cup Q : u[x] \in Int /\ v[x] \in Int /\ f[x] = u[x] + v[x]
  OBVIOUS
<1>3. /\ \A x \in P : u[x] = f[x]
      /\ \A x \in (P \cup Q) \ P : u[x] = 0
  OBVIOUS
<1>4. /\ \A x \in Q : v[x] = f[x]
      /\ \A x \in (P \cup Q) \ Q : v[x] = 0
  OBVIOUS
<1> HIDE DEF u, v
<1>5. SumFunctionOnSet(f, P \cup Q) = SumFunctionOnSet(u, P \cup Q) + SumFunctionOnSet(v, P \cup Q)
  BY <1>1, <1>2, SumOfBoth
<1>6. SumFunctionOnSet(u, P \cup Q) = SumFunctionOnSet(u, P)
  BY <1>1, <1>2, <1>3, SumOfPart
<1>7. SumFunctionOnSet(v, P \cup Q) = SumFunctionOnSet(v, Q)
  BY <1>1, <1>2, <1>4, SumOfPart
<1>8. SumFunctionOnSet(u, P) = SumFunctionOnSet(f, P) /\ SumFunctionOnSet(v, Q) = SumFunctionOnSet(f, Q)
  BY <1>3, <1>4, SumOfEqual
<1> QED
  BY <1>5, <1>6, <1>7, <1>8

\* The elements of S that key k puts in one of the groups T.
In(S, k, T) == {x \in S : k[x] \in T}

\* h has the sums of f over the groups K, which key k tells.
Grouped(h, f, S, k, K) ==
    /\ \A x \in S : f[x] \in Int
    /\ \A y \in K : h[y] = SumFunctionOnSet(f, In(S, k, {y}))

\* A sum is the sum of the sums of its groups.
LEMMA SumOfGroups ==
  ASSUME NEW S, IsFiniteSet(S), NEW K, IsFiniteSet(K), NEW f, NEW k, NEW h, Grouped(h, f, S, k, K)
  PROVE  SumFunctionOnSet(h, K) = SumFunctionOnSet(f, In(S, k, K))
<1> DEFINE B == {T \in SUBSET K : SumFunctionOnSet(h, T) # SumFunctionOnSet(f, In(S, k, T))}
<1>0. /\ \A x \in S : f[x] \in Int
      /\ \A y \in K : h[y] = SumFunctionOnSet(f, In(S, k, {y}))
  BY DEF Grouped
<1>1. \A T : IsFiniteSet(In(S, k, T)) /\ In(S, k, T) \in SUBSET S
  <2>1. \A T : In(S, k, T) \in SUBSET S
    BY DEF In
  <2> QED
    BY <2>1, FS_Subset
<1>2. ASSUME B # {} PROVE FALSE
  <2>1. B \in SUBSET (SUBSET K)
    OBVIOUS
  <2>2. PICK T \in B : \A U \in B : U \subseteq T => U = T
    <3> HIDE DEF B
    <3> QED
      BY <1>2, <2>1, MinimalSubset
  <2>3. IsFiniteSet(T) /\ T # {}
    <3>1. In(S, k, {}) = {}
      BY DEF In
    <3>2. SumFunctionOnSet(h, {}) = SumFunctionOnSet(f, In(S, k, {}))
      BY <3>1, SumOfNone
    <3>3. T # {}
      BY <3>2
    <3> QED
      BY <3>3, FS_Subset
  <2> DEFINE c == First(T)
             U == T \ {c}
  <2>4. c \in T /\ U \notin B /\ U \in SUBSET K /\ IsFiniteSet(U) /\ T = U \cup {c} /\ c \notin U
    BY <2>2, <2>3, FirstIn, FS_Subset
  <2>5. SumFunctionOnSet(h, T) = h[c] + SumFunctionOnSet(h, U)
    BY <2>3, SumOfFirst
  <2> HIDE DEF c, U
  <2>6. SumFunctionOnSet(h, U) = SumFunctionOnSet(f, In(S, k, U))
    BY <2>4
  <2>7. h[c] = SumFunctionOnSet(f, In(S, k, {c}))
    BY <1>0, <2>4
  <2>8. SumFunctionOnSet(f, In(S, k, T)) = SumFunctionOnSet(f, In(S, k, {c})) + SumFunctionOnSet(f, In(S, k, U))
    <3> DEFINE P == In(S, k, {c})
               Q == In(S, k, U)
    <3>1. In(S, k, T) = P \cup Q /\ \A x \in P : x \notin Q
      BY <2>4 DEF In
    <3>2. IsFiniteSet(P) /\ IsFiniteSet(Q)
      BY <1>1
    <3>3. \A x \in P \cup Q : f[x] \in Int
      BY <1>0, <1>1
    <3> HIDE DEF P, Q
    <3>4. SumFunctionOnSet(f, P \cup Q) = SumFunctionOnSet(f, P) + SumFunctionOnSet(f, Q)
      BY <3>1, <3>2, <3>3, SumOfTwo
    <3> QED
      BY <3>1, <3>4 DEF P, Q
  <2>9. SumFunctionOnSet(h, T) = SumFunctionOnSet(f, In(S, k, T))
    BY <2>5, <2>6, <2>7, <2>8
  <2> QED
    BY <2>2, <2>9
<1>3. K \notin B
  BY <1>2
<1> QED
  BY <1>3

-----------------------------------------------------------------------------
(* What the book shows.                                                        *)

\* The sums of the book are sums.
LEMMA BookSum ==
  ASSUME NEW f, NEW S
  PROVE  Book!SumFunctionOnSet(f, S) = SumFunctionOnSet(f, S)
  BY DEF Book!SumFunctionOnSet, Book!FoldFunctionOnSet, Book!MapThenFoldSet,
     SumFunctionOnSet, FoldFunctionOnSet, MapThenFoldSet

\* What adds up by groups adds up to the whole.
LEMMA ByGroup ==
  ASSUME NEW S \in SUBSET Allocs, NEW K, IsFiniteSet(K), NEW f, NEW k, NEW h,
         Grouped(h, f, S, k, K), \A a \in S : k[a] \in K \/ f[a] = 0
  PROVE  SumFunctionOnSet(h, K) = SumFunctionOnSet(f, S)
<1>1. IsFiniteSet(S)
  BY AllocsFinite, FS_Subset
<1>4. SumFunctionOnSet(h, K) = SumFunctionOnSet(f, In(S, k, K))
  BY <1>1, SumOfGroups
<1>5. In(S, k, K) \in SUBSET S /\ \A a \in S \ In(S, k, K) : f[a] = 0
  BY DEF In
<1>6. SumFunctionOnSet(f, S) = SumFunctionOnSet(f, In(S, k, K))
  BY <1>1, <1>5, SumOfPart DEF Grouped
<1> QED
  BY <1>4, <1>6

\* The book shows at a place and for a line what the allocations hold.
Shown ==
    /\ \A p \in Places : Book!KeptAt(p) = ActiveAt(p)
    /\ \A l \in Lines : Book!KeptFor(l) = ActiveFor(l)
    /\ \A l \in Lines, p \in Places : KeptOf(l, p) \in Nat

\* What the rows of the allocations add up to is what the book shows.
LEMMA BookShows ==
  ASSUME TypeOK, AllocsOK
  PROVE  Shown
<1>1. \A a \in Allocs : /\ active[a] \in Nat
                        /\ line[a] \in Lines \/ active[a] = 0
                        /\ place[a] \in Places \/ active[a] = 0
  BY DEF TypeOK, AllocsOK
<1>2. ASSUME NEW p \in Places PROVE Book!KeptAt(p) = ActiveAt(p)
  <2> DEFINE S == {a \in Allocs : place[a] = p}
             h == [l \in Lines |-> KeptOf(l, p)]
  <2>1. Book!KeptAt(p) = SumFunctionOnSet(h, Lines)
    BY BookSum DEF Book!KeptAt, KeptOf
  <2>2. \A y \in Lines : h[y] = SumFunctionOnSet(active, In(S, line, {y}))
    <3> SUFFICES ASSUME NEW y \in Lines
                 PROVE  KeptOf(y, p) = SumFunctionOnSet(active, In(S, line, {y}))
      OBVIOUS
    <3>1. {a \in Allocs : line[a] = y /\ place[a] = p} = In(S, line, {y})
      BY DEF In
    <3> QED
      BY <3>1 DEF KeptOf
  <2>3. S \in SUBSET Allocs /\ \A a \in S : active[a] \in Int /\ (line[a] \in Lines \/ active[a] = 0)
    BY <1>1
  <2> HIDE DEF h, S
  <2>5. Grouped(h, active, S, line, Lines)
    BY <2>2, <2>3 DEF Grouped
  <2>4. SumFunctionOnSet(h, Lines) = SumFunctionOnSet(active, S)
    BY <2>3, <2>5, ConstantsOK, ByGroup
  <2> QED
    BY <2>1, <2>4 DEF ActiveAt, S
<1>3. ASSUME NEW l \in Lines PROVE Book!KeptFor(l) = ActiveFor(l)
  <2> DEFINE S == {a \in Allocs : line[a] = l}
             h == [p \in Places |-> KeptOf(l, p)]
  <2>1. Book!KeptFor(l) = SumFunctionOnSet(h, Places)
    BY BookSum DEF Book!KeptFor, Book!SumFunction, KeptOf
  <2>2. \A y \in Places : h[y] = SumFunctionOnSet(active, In(S, place, {y}))
    <3> SUFFICES ASSUME NEW y \in Places
                 PROVE  KeptOf(l, y) = SumFunctionOnSet(active, In(S, place, {y}))
      OBVIOUS
    <3>1. {a \in Allocs : line[a] = l /\ place[a] = y} = In(S, place, {y})
      BY DEF In
    <3> QED
      BY <3>1 DEF KeptOf
  <2>3. S \in SUBSET Allocs /\ \A a \in S : active[a] \in Int /\ (place[a] \in Places \/ active[a] = 0)
    BY <1>1
  <2> HIDE DEF h, S
  <2>5. Grouped(h, active, S, place, Places)
    BY <2>2, <2>3 DEF Grouped
  <2>4. SumFunctionOnSet(h, Places) = SumFunctionOnSet(active, S)
    BY <2>3, <2>5, ConstantsOK, ByGroup
  <2> QED
    BY <2>1, <2>4 DEF ActiveFor, S
<1>4. ASSUME NEW l \in Lines, NEW p \in Places PROVE KeptOf(l, p) \in Nat
  <2> DEFINE A == {a \in Allocs : line[a] = l /\ place[a] = p}
  <2>1. IsFiniteSet(A) /\ \A a \in A : active[a] \in Nat
    BY <1>1, AllocsFinite, FS_Subset
  <2> HIDE DEF A
  <2>2. SumFunctionOnSet(active, A) \in Nat
    BY <2>1, SumOfNaturals
  <2> QED
    BY <2>2 DEF KeptOf, A
<1> QED
  BY <1>2, <1>3, <1>4 DEF Shown

\* And so it does after a step.
LEMMA BookShowsNext ==
  TypeOK' /\ AllocsOK' => Shown'
<1>1. TypeOK /\ AllocsOK => Shown
  BY BookShows
<1> QED
  BY <1>1, PTL

\* Nobody's stock is missing after a step.
LEMMA BookCovered ==
  ASSUME Inv'
  PROVE  \A p \in Places : Book!Free(p)' >= 0
<1>1. Shown' /\ TypeOK'
  BY BookShowsNext DEF Inv
<1> SUFFICES ASSUME NEW p \in Places PROVE Book!Free(p)' >= 0
  OBVIOUS
<1>2. Book!Free(p)' = onHand'[p] - ActiveAt(p)'
  BY <1>1 DEF Book!Free, Shown
<1>3. ActiveAt(p)' = reserved'[p] /\ reserved'[p] <= onHand'[p]
  BY DEF Inv, ReservedIsActive, Covered
<1>4. reserved'[p] \in Nat /\ onHand'[p] \in Nat
  BY <1>1 DEF TypeOK
<1> QED
  BY <1>2, <1>3, <1>4

\* A step that concerns one line.
LEMMA BookFor ==
  ASSUME NEW l \in Lines, \A p \in Places : Book!Free(p)' >= 0, \A p \in Places : KeptOf(l, p)' >= 0,
         \A k \in Lines \ {l} : need'[k] = need[k],
         \A k \in Lines \ {l}, p \in Places : KeptOf(k, p)' = KeptOf(k, p)
  PROVE  Book!For(l)
<1>1. \A p \in Places : [k \in Lines |-> [x \in Places |-> KeptOf(k, x)']][l][p] >= 0
  OBVIOUS
<1>2. \A k \in Lines \ {l} : [j \in Lines |-> [x \in Places |-> KeptOf(j, x)']][k]
                             = [j \in Lines |-> [x \in Places |-> KeptOf(j, x)]][k]
  OBVIOUS
<1> QED
  BY <1>1, <1>2 DEF Book!For, KeptOf

\* What a commit changes of what is kept.
LEMMA CommitKept ==
  ASSUME TypeOK, NEW s \in Sessions, SessionOK(s), Commit(s), NEW l, l = tx[s].line
  PROVE  /\ \A k \in Lines \ {l}, p \in Places : KeptOf(k, p)' = KeptOf(k, p)
         /\ \A p \in Places : /\ KeptOf(l, p)' = KeptOf(l, p) + tx[s].held[p]
                              /\ KeptOf(l, p) \in Int /\ tx[s].held[p] \in Int
<1>1. /\ line' = line /\ place' = place
      /\ \A a \in Allocs : active'[a] = active[a] + tx[s].alloc[a] /\ active[a] \in Nat /\ tx[s].alloc[a] \in Int
  BY CommitSees
<1>2. \A a \in Allocs : tx[s].alloc[a] # 0 => line[a] = l
  BY DEF SessionOK, OwnOK
<1>3. ASSUME NEW k \in Lines \ {l}, NEW p \in Places PROVE KeptOf(k, p)' = KeptOf(k, p)
  <2> DEFINE A == {a \in Allocs : line[a] = k /\ place[a] = p}
             f == active
             g == active'
  <2>1. IsFiniteSet(A)
    BY AllocsFinite, FS_Subset
  <2>2. \A a \in A : g[a] = f[a]
    BY <1>1, <1>2
  <2>3. KeptOf(k, p) = SumFunctionOnSet(f, A) /\ KeptOf(k, p)' = SumFunctionOnSet(g, A)
    BY <1>1 DEF KeptOf
  <2> HIDE DEF A, f, g
  <2> QED
    BY <2>1, <2>2, <2>3, SumOfEqual
<1>4. ASSUME NEW p \in Places
      PROVE  /\ KeptOf(l, p)' = KeptOf(l, p) + tx[s].held[p]
             /\ KeptOf(l, p) \in Int /\ tx[s].held[p] \in Int
  <2> DEFINE S == {a \in Allocs : place[a] = p}
             A == {a \in Allocs : line[a] = l /\ place[a] = p}
             f == active
             g == tx[s].alloc
             h == active'
  <2>1. IsFiniteSet(A) /\ IsFiniteSet(S) /\ A \in SUBSET S
    BY AllocsFinite, FS_Subset
  <2>2. \A a \in A : f[a] \in Int /\ g[a] \in Int /\ h[a] = f[a] + g[a]
    BY <1>1
  <2>3. (\A a \in S : g[a] \in Int) /\ \A a \in S \ A : g[a] = 0
    BY <1>1, <1>2
  <2>4. KeptOf(l, p) = SumFunctionOnSet(f, A) /\ KeptOf(l, p)' = SumFunctionOnSet(h, A)
    BY <1>1 DEF KeptOf
  <2>5. tx[s].held[p] = SumFunctionOnSet(g, S)
    BY DEF SessionOK, SumsOK
  <2> HIDE DEF S, A, f, g, h
  <2>6. SumFunctionOnSet(h, A) = SumFunctionOnSet(f, A) + SumFunctionOnSet(g, A)
    BY <2>1, <2>2, SumOfBoth
  <2>7. SumFunctionOnSet(g, S) = SumFunctionOnSet(g, A)
    BY <2>1, <2>3, SumOfPart
  <2>8. \A a \in A : f[a] \in Int
    BY <2>2
  <2>9. SumFunctionOnSet(f, A) \in Int
    BY <2>1, <2>8, SumOfIntegers
  <2>10. SumFunctionOnSet(g, S) \in Int
    BY <2>1, <2>3, SumOfIntegers
  <2> QED
    BY <2>4, <2>5, <2>6, <2>7, <2>9, <2>10
<1> QED
  BY <1>3, <1>4

\* What is given back, or kept, at each place has the sign of what is at each allocation.
LEMMA HeldSigns ==
  ASSUME TypeOK, NEW s \in Sessions, SessionOK(s)
  PROVE  /\ (\A a \in Allocs : tx[s].alloc[a] >= 0) => \A p \in Places : tx[s].held[p] >= 0
         /\ (\A a \in Allocs : tx[s].alloc[a] <= 0) => \A p \in Places : tx[s].held[p] <= 0
<1> SUFFICES ASSUME NEW p \in Places
             PROVE  /\ (\A a \in Allocs : tx[s].alloc[a] >= 0) => tx[s].held[p] >= 0
                    /\ (\A a \in Allocs : tx[s].alloc[a] <= 0) => tx[s].held[p] <= 0
  OBVIOUS
<1> DEFINE S == {a \in Allocs : place[a] = p}
           g == tx[s].alloc
           z == [a \in Allocs |-> 0]
<1>1. IsFiniteSet(S) /\ \A a \in S : g[a] \in Int /\ z[a] \in Int /\ z[a] = 0
  BY AllocsFinite, FS_Subset, SeenTyped
<1>2. tx[s].held[p] = SumFunctionOnSet(g, S) /\ S \in SUBSET Allocs
  BY DEF SessionOK, SumsOK
<1>3. (\A a \in Allocs : tx[s].alloc[a] >= 0) => \A a \in S : z[a] <= g[a]
  BY <1>1
<1>4. (\A a \in Allocs : tx[s].alloc[a] <= 0) => \A a \in S : g[a] <= z[a]
  BY <1>1
<1> HIDE DEF S, g, z
<1>5. SumFunctionOnSet(z, S) = 0
  BY <1>1, SumOfNothing
<1>6. ASSUME \A a \in Allocs : tx[s].alloc[a] >= 0 PROVE tx[s].held[p] >= 0
  <2>1. \A a \in S : z[a] \in Int /\ g[a] \in Int /\ z[a] <= g[a]
    BY <1>1, <1>3, <1>6
  <2>2. SumFunctionOnSet(z, S) <= SumFunctionOnSet(g, S)
    BY <1>1, <2>1, SumOfLess
  <2> QED
    BY <1>2, <1>5, <2>2
<1>7. ASSUME \A a \in Allocs : tx[s].alloc[a] <= 0 PROVE tx[s].held[p] <= 0
  <2>1. \A a \in S : g[a] \in Int /\ z[a] \in Int /\ g[a] <= z[a]
    BY <1>1, <1>4, <1>7
  <2>2. SumFunctionOnSet(g, S) <= SumFunctionOnSet(z, S)
    BY <1>1, <2>1, SumOfLess
  <2> QED
    BY <1>2, <1>5, <2>2
<1> QED
  BY <1>6, <1>7

-----------------------------------------------------------------------------
(* Every commit is a step of the book.                                         *)

\* At its commit a transaction has nothing in hand.
LEMMA ReadyToCommit ==
  ASSUME TypeOK, NEW s \in Sessions, SessionOK(s), BookOK(s), pc[s] = "commit"
  PROVE  /\ InHand(s) = 0 /\ Ours(s) = 0 /\ ~Reserving(s) /\ Underway(s)
         /\ \A p \in Places : /\ HandAt(s, p) = 0
                              /\ tx[s].moved[p] # 0 =>
                                    Does(s, {"deliver"}) \/ (Does(s, {"move"}) /\ p = tx[s].place)
         /\ MovesOK(s) /\ SignsOK(s) /\ CountOK(s) /\ ShiftOK(s)
<1>1. ~Given(s) /\ ~Reserving(s) /\ Underway(s)
  BY DEF Given, Giving, Reserving, Underway
<1>2. MovesOK(s) /\ SignsOK(s) /\ CountOK(s) /\ ShiftOK(s)
  BY DEF BookOK
<1>3. InHand(s) = 0 /\ Ours(s) = 0 /\ \A p \in Places : HandAt(s, p) = 0
  BY <1>1 DEF InHand, HandAt, Ours
<1>4. ASSUME NEW p \in Places, tx[s].moved[p] # 0
      PROVE  Does(s, {"deliver"}) \/ (Does(s, {"move"}) /\ p = tx[s].place)
  <2>1. tx[s].hand[p] # Unwritten
    BY <1>4 DEF SessionOK, BalanceOK
  <2> QED
    BY <1>2, <2>1 DEF MovesOK
<1> QED
  BY <1>1, <1>2, <1>3, <1>4

\* What a delivery that commits has done.
LEMMA Delivered ==
  ASSUME TypeOK, NEW s \in Sessions, SessionOK(s), BookOK(s), pc[s] = "commit", Does(s, {"deliver"})
  PROVE  /\ \A p \in Places : /\ tx[s].moved[p] \in Int /\ tx[s].held[p] \in Int
                              /\ tx[s].moved[p] <= 0 /\ tx[s].moved[p] <= tx[s].held[p] /\ tx[s].held[p] <= 0
         /\ SumFunctionOnSet(tx[s].moved, Places) \in Int
         /\ tx[s].n = 0 - SumFunctionOnSet(tx[s].moved, Places)
<1>1. /\ InHand(s) = 0 /\ Ours(s) = 0 /\ Underway(s) /\ \A p \in Places : HandAt(s, p) = 0
      /\ MovesOK(s) /\ SignsOK(s) /\ CountOK(s)
  BY ReadyToCommit
<1>2. /\ \A p \in Places : tx[s].moved[p] \in Int /\ tx[s].held[p] \in Int
      /\ \A a \in Allocs : tx[s].alloc[a] \in Int /\ tx[s].listed[a] \in Nat
      /\ tx[s].amount \in Nat /\ tx[s].n \in Int
  BY SeenTyped DEF Request
<1>3. ASSUME NEW p \in Places
      PROVE  tx[s].moved[p] <= 0 /\ tx[s].moved[p] <= tx[s].held[p]
  <2>1. tx[s].moved[p] <= 0 /\ tx[s].moved[p] <= tx[s].held[p] + HandAt(s, p)
    BY <1>1 DEF MovesOK
  <2>2. HandAt(s, p) = 0 /\ tx[s].held[p] \in Int
    BY <1>1, <1>2
  <2> QED
    BY <2>1, <2>2
<1>4. SumFunctionOnSet(tx[s].moved, Places) \in Int
  BY <1>2, ConstantsOK, SumOfIntegers
<1>5. tx[s].amount = 0 /\ tx[s].n = tx[s].amount - SumFunctionOnSet(tx[s].moved, Places) + Ours(s)
  BY <1>1 DEF CountOK
<1>6. tx[s].n = 0 - SumFunctionOnSet(tx[s].moved, Places)
  BY <1>1, <1>4, <1>5
<1>7. \A a \in Allocs : tx[s].alloc[a] <= 0
  <2> SUFFICES ASSUME NEW a \in Allocs, tx[s].alloc[a] > 0 PROVE FALSE
    BY <1>2
  <2>1. a \in tx[s].made /\ tx[s].listed[a] > 0
    BY <1>1, <1>2 DEF SignsOK
  <2>2. SumFunctionOnSet(tx[s].listed, Allocs) = 0
    BY <1>1, <1>5, <2>1 DEF CountOK
  <2>3. tx[s].listed \in [Allocs -> Nat]
    BY SeenTyped DEF Request
  <2>4. tx[s].listed[a] <= SumFunctionOnSet(tx[s].listed, Allocs)
    <3>1. PICK f : f = tx[s].listed
      OBVIOUS
    <3>2. \A b \in Allocs : f[b] \in Nat
      BY <2>3, <3>1
    <3>3. \A b \in Allocs : f[b] \in Int
      BY <3>2
    <3>4. SumFunctionOnSet(f, Allocs) = f[a] + SumFunctionOnSet(f, Allocs \ {a})
      BY <3>3, AllocsFinite, SumTakesOut
    <3>5. SumFunctionOnSet(f, Allocs \ {a}) \in Nat
      <4>1. IsFiniteSet(Allocs \ {a}) /\ \A b \in Allocs \ {a} : f[b] \in Nat
        BY <3>2, AllocsFinite, FS_Subset
      <4> QED
        BY <4>1, SumOfNaturals
    <3>6. f[a] \in Nat
      BY <3>2
    <3> QED
      BY <3>1, <3>4, <3>5, <3>6
  <2>5. tx[s].listed[a] \in Nat
    BY <1>2
  <2> QED
    BY <2>1, <2>2, <2>4, <2>5
<1>8. \A p \in Places : tx[s].held[p] <= 0
  BY <1>7, HeldSigns
<1> QED
  BY <1>2, <1>3, <1>4, <1>6, <1>8

\* A reallocation keeps for its line what the line had.
LEMMA Shifted ==
  ASSUME TypeOK, NEW s \in Sessions, SessionOK(s), BookOK(s), pc[s] = "commit", Does(s, {"reallocate"})
  PROVE  HeldBy(s, tx[s].line) = ActiveFor(tx[s].line)
<1> DEFINE A == {a \in Allocs : line[a] = tx[s].line}
           f == active
           g == tx[s].alloc
           h == AllLeft(s)
<1>1. IsFiniteSet(A) /\ A \in SUBSET Allocs /\ IsFiniteSet(Allocs)
  BY AllocsFinite, FS_Subset
<1>2. \A a \in A : f[a] \in Int /\ g[a] \in Int /\ h[a] = f[a] + g[a]
  BY SeenTyped DEF AllLeft, Left
<1>3. (\A a \in Allocs : g[a] \in Int) /\ \A a \in Allocs \ A : g[a] = 0
  BY SeenTyped DEF SessionOK, OwnOK
<1>4. SumFunctionOnSet(g, Allocs) + 0 = 0
  BY ReadyToCommit DEF ShiftOK
<1>5. HeldBy(s, tx[s].line) = SumFunctionOnSet(h, A) /\ ActiveFor(tx[s].line) = SumFunctionOnSet(f, A)
  BY DEF HeldBy, ActiveFor
<1> HIDE DEF A, f, g, h
<1>6. SumFunctionOnSet(h, A) = SumFunctionOnSet(f, A) + SumFunctionOnSet(g, A)
  BY <1>1, <1>2, SumOfBoth
<1>7. SumFunctionOnSet(g, Allocs) = SumFunctionOnSet(g, A)
  BY <1>1, <1>3, SumOfPart
<1>8. SumFunctionOnSet(g, Allocs) \in Int
  BY <1>1, <1>3, SumOfIntegers
<1>9. \A a \in A : f[a] \in Int
  BY <1>2
<1>10. SumFunctionOnSet(f, A) \in Int
  BY <1>1, <1>9, SumOfIntegers
<1> QED
  BY <1>4, <1>5, <1>6, <1>7, <1>8, <1>10

\* What the book sees of a commit.
LEMMA CommitShown ==
  ASSUME BookInv, BookInv', NEW s \in Sessions, Commit(s), NEW l \in Lines, l = tx[s].line
  PROVE  /\ Book!For(l) \/ Does(s, {"cancel", "deliver"})
         /\ Does(s, {"cancel", "deliver"}) => need'[l] = need[l] - tx[s].n
         /\ \A k \in Lines \ {l} : need'[k] = need[k]
         /\ ~Does(s, {"cancel", "deliver"}) => need' = need
         /\ \A p \in Places : Book!Free(p)' >= 0
         /\ \A k \in Lines \ {l}, p \in Places : KeptOf(k, p)' = KeptOf(k, p)
         /\ \A p \in Places : /\ KeptOf(l, p)' = KeptOf(l, p) + tx[s].held[p]
                              /\ KeptOf(l, p) \in Int /\ tx[s].held[p] \in Int
                              /\ KeptOf(l, p)' >= 0
         /\ \A p \in Places : onHand'[p] = onHand[p] + tx[s].moved[p]
         /\ (\A p \in Places : tx[s].moved[p] = 0) => onHand' = onHand
         /\ Book!WithinNeed(l)'
         /\ Book!For(l)
<1>1. /\ TypeOK /\ AllocsOK /\ SessionOK(s) /\ BookOK(s) /\ Inv' /\ TypeOK' /\ AllocsOK' /\ NeedOK'
  BY DEF BookInv, BooksOK, Inv, SessionsOK
<1>2. /\ \A p \in Places : onHand'[p] = onHand[p] + tx[s].moved[p]
      /\ \A k \in Lines : need'[k] = IF k = tx[s].line /\ Does(s, {"cancel", "deliver"})
                                     THEN need[k] - tx[s].n ELSE need[k]
  BY <1>1, CommitSees
<1>3. /\ \A k \in Lines \ {l}, p \in Places : KeptOf(k, p)' = KeptOf(k, p)
      /\ \A p \in Places : /\ KeptOf(l, p)' = KeptOf(l, p) + tx[s].held[p]
                           /\ KeptOf(l, p) \in Int /\ tx[s].held[p] \in Int
  BY <1>1, CommitKept
<1>4. Shown'
  BY <1>1, BookShowsNext
<1>5. \A p \in Places : Book!Free(p)' >= 0
  BY <1>1, BookCovered
<1>6. \A p \in Places : KeptOf(l, p)' >= 0
  BY <1>4 DEF Shown
<1>7. /\ need \in [Lines -> Nat] /\ need' \in [Lines -> Nat]
      /\ onHand \in [Places -> Nat] /\ onHand' \in [Places -> Nat]
  BY <1>1 DEF TypeOK
<1>8. \A k \in Lines \ {l} : need'[k] = need[k]
  BY <1>2
<1>9. ~Does(s, {"cancel", "deliver"}) => need' = need
  BY <1>2, <1>7
<1>10. (\A p \in Places : tx[s].moved[p] = 0) => onHand' = onHand
  BY <1>2, <1>7
<1>11. Book!WithinNeed(l)'
  <2>1. Book!KeptFor(l)' = ActiveFor(l)'
    BY <1>4 DEF Shown
  <2>2. l \notin Shared => ActiveFor(l)' <= need'[l]
    BY <1>1 DEF NeedOK
  <2> QED
    BY <2>1, <2>2 DEF Book!WithinNeed
<1>12. Book!For(l)
  BY <1>3, <1>5, <1>6, <1>8, BookFor
<1> QED
  BY <1>2, <1>3, <1>5, <1>6, <1>8, <1>9, <1>10, <1>11, <1>12

\* A posting takes only what is free.
LEMMA MoveIsPosted ==
  ASSUME BookInv, BookInv', NEW s \in Sessions, Commit(s), Does(s, {"move"})
  PROVE  \E p \in Places : Book!Post(p)
<1>1. TypeOK /\ AllocsOK /\ SessionOK(s) /\ BookOK(s) /\ pc[s] = "commit" /\ tx[s] \in Request /\ TypeOK'
  BY DEF BookInv, BooksOK, Inv, SessionsOK, TypeOK, Commit, At
<1>2. PICK l \in Lines, p \in Places : l = tx[s].line /\ p = tx[s].place
  BY <1>1 DEF Request
<1>3. /\ need' = need /\ Book!Free(p)' >= 0
      /\ \A k \in Lines \ {l}, q \in Places : KeptOf(k, q)' = KeptOf(k, q)
      /\ \A q \in Places : KeptOf(l, q)' = KeptOf(l, q) + tx[s].held[q] /\ KeptOf(l, q) \in Int
      /\ \A q \in Places : onHand'[q] = onHand[q] + tx[s].moved[q]
  BY <1>2, CommitShown DEF Does
<1>4. \A q \in Places : tx[s].held[q] = 0
  <2>1. \A a \in Allocs : tx[s].alloc[a] = 0
    BY <1>1 DEF SessionOK, OrderOK, NoneWritten
  <2>2. \A a \in Allocs : tx[s].alloc[a] >= 0 /\ tx[s].alloc[a] <= 0
    BY <2>1
  <2>3. \A q \in Places : tx[s].held[q] >= 0 /\ tx[s].held[q] <= 0 /\ tx[s].held[q] \in Int
    BY <1>1, <2>2, HeldSigns, SeenTyped
  <2> QED
    BY <2>3
<1>5. \A k \in Lines, q \in Places : KeptOf(k, q)' = KeptOf(k, q)
  BY <1>3, <1>4
<1>6. onHand' = [onHand EXCEPT ![p] = onHand'[p]]
  <2>1. \A q \in Places \ {p} : tx[s].moved[q] = 0
    BY <1>1, <1>2, ReadyToCommit DEF Does
  <2>2. onHand \in [Places -> Nat] /\ onHand' \in [Places -> Nat]
    BY <1>1 DEF TypeOK
  <2>3. \A q \in Places \ {p} : onHand'[q] = onHand[q]
    BY <1>3, <2>1, <2>2
  <2> QED
    BY <2>2, <2>3
<1>7. Book!Post(p)
  BY <1>3, <1>5, <1>6 DEF Book!Post, KeptOf
<1> QED
  BY <1>7

\* What is kept at the places for a line, as the book writes it.
LEMMA BookKept ==
  /\ \A l \in Lines, p \in Places :
        [k \in Lines |-> [q \in Places |-> KeptOf(k, q)]][l][p] = KeptOf(l, p)
  /\ \A l \in Lines, p \in Places :
        [k \in Lines |-> [q \in Places |-> KeptOf(k, q)']][l][p] = KeptOf(l, p)'
  OBVIOUS

\* A reservation only adds, and stays within what the line needs.
LEMMA ReserveIsKept ==
  ASSUME BookInv, BookInv', NEW s \in Sessions, Commit(s), Does(s, {"reserve"}),
         NEW l \in Lines, l = tx[s].line
  PROVE  Book!Keep(l)
<1>1. TypeOK /\ SessionOK(s) /\ BookOK(s) /\ pc[s] = "commit"
  BY DEF BookInv, BooksOK, Inv, SessionsOK, Commit, At
<1>2. /\ Book!For(l) /\ Book!WithinNeed(l)' /\ need' = need
      /\ \A p \in Places : /\ KeptOf(l, p)' = KeptOf(l, p) + tx[s].held[p]
                           /\ KeptOf(l, p) \in Int /\ tx[s].held[p] \in Int
      /\ (\A p \in Places : tx[s].moved[p] = 0) => onHand' = onHand
  BY CommitShown DEF Does
<1>3. onHand' = onHand
  BY <1>1, <1>2, ReadyToCommit DEF Does
<1>4. \A p \in Places : tx[s].held[p] >= 0
  <2>1. \A a \in Allocs : tx[s].alloc[a] >= 0
    BY <1>1, ReadyToCommit DEF SignsOK
  <2> QED
    BY <1>1, <2>1, HeldSigns
<1>5. \A p \in Places : KeptOf(l, p)' >= KeptOf(l, p)
  BY <1>2, <1>4
<1> QED
  BY <1>2, <1>3, <1>5, BookKept DEF Book!Keep, KeptOf

\* A release gives back, at every place.
LEMMA ReleaseIsGivenBack ==
  ASSUME BookInv, BookInv', NEW s \in Sessions, Commit(s), Does(s, {"release", "free", "drop"}),
         NEW l \in Lines, l = tx[s].line
  PROVE  Book!GiveBack(l)
<1>1. TypeOK /\ SessionOK(s) /\ BookOK(s) /\ pc[s] = "commit"
  BY DEF BookInv, BooksOK, Inv, SessionsOK, Commit, At
<1>2. /\ Book!For(l) /\ need' = need
      /\ \A p \in Places : /\ KeptOf(l, p)' = KeptOf(l, p) + tx[s].held[p]
                           /\ KeptOf(l, p) \in Int /\ tx[s].held[p] \in Int
      /\ (\A p \in Places : tx[s].moved[p] = 0) => onHand' = onHand
  BY CommitShown DEF Does
<1>3. onHand' = onHand
  BY <1>1, <1>2, ReadyToCommit DEF Does
<1>4. \A p \in Places : tx[s].held[p] <= 0
  <2>1. \A a \in Allocs : tx[s].alloc[a] <= 0
    BY <1>1, ReadyToCommit DEF SignsOK, Does
  <2> QED
    BY <1>1, <2>1, HeldSigns
<1>5. \A p \in Places : KeptOf(l, p)' <= KeptOf(l, p)
  BY <1>2, <1>4
<1> QED
  BY <1>2, <1>3, <1>5, BookKept DEF Book!GiveBack, KeptOf

\* A reallocation moves what is kept to another place, and loses none of it.
LEMMA ReallocateIsShift ==
  ASSUME BookInv, BookInv', NEW s \in Sessions, Commit(s), Does(s, {"reallocate"}),
         NEW l \in Lines, l = tx[s].line
  PROVE  Book!Shift(l)
<1>1. /\ TypeOK /\ AllocsOK /\ SessionOK(s) /\ BookOK(s) /\ pc[s] = "commit"
      /\ TypeOK' /\ AllocsOK'
  BY DEF BookInv, BooksOK, Inv, SessionsOK, Commit, At
<1>2. /\ Book!For(l) /\ need' = need
      /\ (\A p \in Places : tx[s].moved[p] = 0) => onHand' = onHand
  BY CommitShown DEF Does
<1>3. onHand' = onHand
  BY <1>1, <1>2, ReadyToCommit DEF Does
<1>4. l \in Shared
  BY <1>1 DEF SessionOK, RouteOK, Does, Sales
<1>5. Book!KeptFor(l)' = Book!KeptFor(l)
  <2>1. Book!KeptFor(l)' = ActiveFor(l)'
    BY <1>1, BookShowsNext DEF Shown
  <2>2. Book!KeptFor(l) = ActiveFor(l)
    BY <1>1, BookShows DEF Shown
  <2>3. ActiveFor(l)' = HeldBy(s, l)
    BY <1>1, CommitSees
  <2>4. HeldBy(s, l) = ActiveFor(l)
    BY <1>1, Shifted
  <2> QED
    BY <2>1, <2>2, <2>3, <2>4
<1> QED
  BY <1>2, <1>3, <1>4, <1>5 DEF Book!Shift

\* A cancellation withdraws the demand, and gives back what is kept beyond the rest.
LEMMA CancelIsCancel ==
  ASSUME BookInv, BookInv', NEW s \in Sessions, Commit(s), Does(s, {"cancel"}),
         NEW l \in Lines, l = tx[s].line
  PROVE  Book!Cancel(l)
<1>1. /\ TypeOK /\ SessionOK(s) /\ BookOK(s) /\ pc[s] = "commit" /\ TypeOK'
      /\ tx[s] \in Request /\ Underway(s)
  BY DEF BookInv, BooksOK, Inv, SessionsOK, Commit, At, TypeOK, Underway
<1>2. /\ Book!For(l) /\ Book!WithinNeed(l)' /\ need'[l] = need[l] - tx[s].n
      /\ \A p \in Places : /\ KeptOf(l, p)' = KeptOf(l, p) + tx[s].held[p]
                           /\ KeptOf(l, p) \in Int /\ tx[s].held[p] \in Int
      /\ (\A p \in Places : tx[s].moved[p] = 0) => onHand' = onHand
  BY CommitShown DEF Does
<1>3. onHand' = onHand
  BY <1>1, <1>2, ReadyToCommit DEF Does
<1>4. need'[l] \in 0 .. need[l]
  <2>1. PICK n \in Int, d \in Nat : n = tx[s].n /\ d = need[l]
    BY <1>1 DEF TypeOK, Request
  <2>2. n > 0
    BY <1>1, <2>1 DEF SessionOK, OrderOK, Does, Sales
  <2>3. need'[l] \in Nat
    BY <1>1 DEF TypeOK
  <2> QED
    BY <1>2, <2>1, <2>2, <2>3
<1>5. \A p \in Places : tx[s].held[p] <= 0
  <2>1. \A a \in Allocs : tx[s].alloc[a] <= 0
    BY <1>1, ReadyToCommit DEF SignsOK, Does
  <2> QED
    BY <1>1, <2>1, HeldSigns
<1>6. \A p \in Places : KeptOf(l, p)' <= KeptOf(l, p)
  BY <1>2, <1>5
<1> QED
  BY <1>2, <1>3, <1>4, <1>6, BookKept DEF Book!Cancel, KeptOf

\* What a delivery takes from the places adds up to what it was asked for.
LEMMA GoneAddsUp ==
  ASSUME TypeOK, NEW s \in Sessions, SessionOK(s), BookOK(s), pc[s] = "commit", Does(s, {"deliver"}),
         NEW gone, \A p \in Places : gone[p] = 0 - tx[s].moved[p]
  PROVE  SumFunctionOnSet(gone, Places) = tx[s].n
<1> DEFINE f == tx[s].moved
           z == [p \in Places |-> 0]
<1>1. /\ \A p \in Places : f[p] \in Int
      /\ SumFunctionOnSet(f, Places) \in Int /\ tx[s].n = 0 - SumFunctionOnSet(f, Places)
  BY Delivered
<1>2. \A p \in Places : f[p] \in Int /\ gone[p] \in Int /\ z[p] = f[p] + gone[p]
  BY <1>1
<1>3. \A p \in Places : z[p] = 0
  OBVIOUS
<1> HIDE DEF f, z
<1>4. SumFunctionOnSet(z, Places) = SumFunctionOnSet(f, Places) + SumFunctionOnSet(gone, Places)
  BY <1>2, ConstantsOK, SumOfBoth
<1>5. SumFunctionOnSet(z, Places) = 0
  BY <1>3, ConstantsOK, SumOfNothing
<1>6. \A p \in Places : gone[p] \in Int
  BY <1>2
<1>7. SumFunctionOnSet(gone, Places) \in Int
  BY <1>6, ConstantsOK, SumOfIntegers
<1> QED
  BY <1>1, <1>4, <1>5, <1>7

\* A delivery takes all of it from the stock, from what its line kept first.
LEMMA DeliveryIsDelivered ==
  ASSUME BookInv, BookInv', NEW s \in Sessions, Commit(s), Does(s, {"deliver"}),
         NEW l \in Lines, l = tx[s].line
  PROVE  Book!Deliver(l)
<1> DEFINE gone == [p \in Places |-> onHand[p] - onHand'[p]]
<1>1. /\ TypeOK /\ SessionOK(s) /\ BookOK(s) /\ pc[s] = "commit" /\ TypeOK' /\ tx[s] \in Request
  BY DEF BookInv, BooksOK, Inv, SessionsOK, Commit, At, TypeOK
<1>2. /\ Book!For(l) /\ Book!WithinNeed(l)' /\ need'[l] = need[l] - tx[s].n
      /\ \A p \in Places : /\ KeptOf(l, p)' = KeptOf(l, p) + tx[s].held[p]
                           /\ KeptOf(l, p) \in Int /\ tx[s].held[p] \in Int
      /\ \A p \in Places : onHand'[p] = onHand[p] + tx[s].moved[p]
  BY CommitShown DEF Does
<1>3. \A p \in Places : /\ tx[s].moved[p] \in Int
                        /\ tx[s].moved[p] <= 0 /\ tx[s].moved[p] <= tx[s].held[p] /\ tx[s].held[p] <= 0
  BY <1>1, Delivered
<1>4. \A p \in Places : onHand[p] \in Nat /\ onHand'[p] \in Nat
  BY <1>1 DEF TypeOK
<1>5. \A p \in Places : gone[p] = 0 - tx[s].moved[p] /\ gone[p] >= 0
  BY <1>2, <1>3, <1>4
<1>6. \A p \in Places : KeptOf(l, p)' <= KeptOf(l, p) /\ KeptOf(l, p) - KeptOf(l, p)' <= gone[p]
  BY <1>2, <1>3, <1>5
<1>7. DOMAIN gone = Places
  OBVIOUS
<1>8. Book!SumFunction(gone) = need[l] - need'[l]
  <2> HIDE DEF gone
  <2>1. SumFunctionOnSet(gone, Places) = tx[s].n
    BY <1>1, <1>5, GoneAddsUp
  <2>2. Book!SumFunction(gone) = SumFunctionOnSet(gone, Places)
    BY <1>7, BookSum DEF Book!SumFunction
  <2>3. tx[s].n \in Int /\ need[l] \in Nat
    BY <1>1 DEF TypeOK, Request
  <2> QED
    BY <1>2, <2>1, <2>2, <2>3
<1> QED
  BY <1>2, <1>5, <1>6, <1>8, BookKept DEF Book!Deliver, KeptOf

\* Whatever the request was, the book sees its commit as one step.
LEMMA CommitIsBooked ==
  ASSUME BookInv, BookInv', NEW s \in Sessions, Commit(s)
  PROVE  Book!Next
<1>1. tx[s] \in Request
  BY DEF BookInv, Inv, TypeOK
<1>2. PICK l \in Lines : l = tx[s].line
  BY <1>1 DEF Request
<1>3. tx[s].kind \in Kinds
  BY <1>1 DEF Request
<1>4. CASE Does(s, {"reserve"})
  BY <1>2, <1>4, ReserveIsKept DEF Book!Next
<1>5. CASE Does(s, {"release", "free", "drop"})
  BY <1>2, <1>5, ReleaseIsGivenBack DEF Book!Next
<1>6. CASE Does(s, {"cancel"})
  BY <1>2, <1>6, CancelIsCancel DEF Book!Next
<1>7. CASE Does(s, {"deliver"})
  BY <1>2, <1>7, DeliveryIsDelivered DEF Book!Next
<1>8. CASE Does(s, {"reallocate"})
  BY <1>2, <1>8, ReallocateIsShift DEF Book!Next
<1>9. CASE Does(s, {"move"})
  BY <1>9, MoveIsPosted DEF Book!Next
<1> QED
  BY <1>3, <1>4, <1>5, <1>6, <1>7, <1>8, <1>9 DEF Kinds, Does

\* When the allocations hold what they held, the book stays as it was.
LEMMA BookStays ==
  ASSUME onHand' = onHand, need' = need,
         \A l \in Lines, p \in Places : KeptOf(l, p)' = KeptOf(l, p)
  PROVE  UNCHANGED Book!vars
<1>1. [l \in Lines |-> [p \in Places |-> KeptOf(l, p)]]' = [l \in Lines |-> [p \in Places |-> KeptOf(l, p)]]
  OBVIOUS
<1> QED
  BY <1>1 DEF Book!vars, KeptOf

\* No other step is seen in it: not a request, a statement, a failure, a rollback or a count.
LEMMA OthersUnseen ==
  ASSUME BookInv, [Next]_vars, \A s \in Sessions : ~Commit(s)
  PROVE  UNCHANGED Book!vars
<1>1. TypeOK /\ AllocsOK /\ \A s \in Sessions : SessionOK(s)
  BY DEF BookInv, Inv, SessionsOK
<1>2. ASSUME UNCHANGED <<onHand, active, line, place, need>> PROVE UNCHANGED Book!vars
  <2>1. \A l \in Lines, p \in Places : KeptOf(l, p)' = KeptOf(l, p)
    BY <1>2 DEF KeptOf
  <2> QED
    BY <1>2, <2>1, BookStays
<1>3. ASSUME NEW s \in Sessions, Request0(s) \/ Fails(s) \/ Quiet(s) PROVE UNCHANGED Book!vars
  <2>1. Quietly(s)
    BY <1>1, <1>3, RequestIsQuiet, FailIsQuiet, QuietIsQuiet
  <2> QED
    BY <1>2, <2>1 DEF Quietly, database, balances, allocations, documents
<1>4. ASSUME NEW s \in Sessions, InsertReservation(s) \/ Rollback(s) PROVE UNCHANGED Book!vars
  <2>1. /\ UNCHANGED <<onHand, active, need>>
        /\ \A a \in Allocs : active[a] > 0 => place'[a] = place[a] /\ line'[a] = line[a]
    BY <1>1, <1>4, RowsHoldNothing
  <2>2. \A l \in Lines, p \in Places : KeptOf(l, p)' = KeptOf(l, p)
    BY <1>1, <2>1, RegroupedKept
  <2> QED
    BY <2>1, <2>2, BookStays
<1>5. ASSUME (\E p \in Places : StartCount(p) \/ CancelCount(p)) \/ UNCHANGED vars
      PROVE  UNCHANGED Book!vars
  BY <1>2, <1>5 DEF StartCount, CancelCount, vars, database, balances, allocations, documents
<1>6. ASSUME NEW s \in Sessions, Statement(s) PROVE UNCHANGED Book!vars
  BY <1>3, <1>4, <1>6, Steps
<1> QED
  BY <1>3, <1>5, <1>6 DEF Next, Request0, Fails

\* The book opens with stock enough for what is kept, and need enough for each line.
LEMMA InitIsBooked ==
  ASSUME Init
  PROVE  Book!Init
<1>1. BookInv /\ \A l \in Lines : ActiveFor(l) <= need[l]
  BY InitBook, InitInv
<1>2. TypeOK /\ AllocsOK /\ Covered /\ ReservedIsActive
  BY <1>1 DEF BookInv, Inv
<1>3. Shown
  BY <1>2, BookShows
<1>4. \A p \in Places : Book!Free(p) >= 0
  <2> SUFFICES ASSUME NEW p \in Places PROVE Book!Free(p) >= 0
    OBVIOUS
  <2>1. Book!Free(p) = onHand[p] - ActiveAt(p)
    BY <1>3 DEF Book!Free, Shown
  <2>2. ActiveAt(p) = reserved[p] /\ reserved[p] <= onHand[p]
    BY <1>2 DEF ReservedIsActive, Covered
  <2>3. reserved[p] \in Nat /\ onHand[p] \in Nat
    BY <1>2 DEF TypeOK
  <2> QED
    BY <2>1, <2>2, <2>3
<1>5. \A l \in Lines : Book!KeptFor(l) <= need[l]
  BY <1>1, <1>3 DEF Shown
<1>6. [l \in Lines |-> [p \in Places |-> KeptOf(l, p)]] \in [Lines -> [Places -> Nat]]
  BY <1>3 DEF Shown
<1>7. onHand \in [Places -> Nat] /\ need \in [Lines -> Nat]
  BY <1>2 DEF TypeOK
<1> QED
  BY <1>4, <1>5, <1>6, <1>7 DEF Book!Init, KeptOf

\* What is kept for a line that only sales touches never exceeds what the line still needs.
THEOREM WithinNeeds == Spec => []NeedOK
<1>1. BookInv => NeedOK
  BY DEF BookInv
<1> QED
  BY <1>1, BookInvariance, PTL

\* The reservation engine keeps the book: every request that commits is one of its entries,
\* made at its commit, and nothing else that happens is seen in it.
THEOREM Refines == Spec => KeepsBook
<1>1. Init => Book!Init
  BY InitIsBooked
<1>2. BookInv /\ BookInv' /\ [Next]_vars => [Book!Next]_Book!vars
  <2> SUFFICES ASSUME BookInv, BookInv', [Next]_vars
               PROVE  Book!Next \/ UNCHANGED Book!vars
    OBVIOUS
  <2>1. CASE \E s \in Sessions : Commit(s)
    BY <2>1, CommitIsBooked
  <2>2. CASE \A s \in Sessions : ~Commit(s)
    BY <2>2, OthersUnseen
  <2> QED
    BY <2>1, <2>2
<1> QED
  BY <1>1, <1>2, BookInvariance, PTL DEF Spec, KeepsBook, Book!Spec
=============================================================================

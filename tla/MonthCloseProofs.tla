-------------------------- MODULE MonthCloseProofs --------------------------
(***************************************************************************)
(* Theorems about MonthClose, for any number of sessions, months, sales    *)
(* and journals, and for requests that meet in any combination.            *)
(***************************************************************************)
EXTENDS MonthClose, TLAPS

Transactions == [kind : Kinds, e : Entries, m : Months, year : {"open", "closed"},
                 seen : SUBSET Lines]

-----------------------------------------------------------------------------
(* The inductive invariant: where a transaction is says what it holds, and *)
(* what it holds says what nobody else can have changed.                   *)

\* The way of each request through the code, and what it is about.
RouteOK(s) ==
    /\ At(s, "idle") => tx[s] = Idle
    /\ Does(s, {"sale", "retry"}) =>
          pc[s] \in {"row", "sale", "period", "posting", "number", "insert", "post", "failed", "commit"}
    /\ Does(s, {"scan"}) => pc[s] \in {"idle", "failed"}
    /\ Does(s, {"draft"}) => pc[s] \in {"period", "number", "insert"}
    /\ Does(s, {"redate"}) => pc[s] \in {"entry", "period", "insert"}
    /\ Does(s, {"post"}) => pc[s] \in {"entry", "period", "update", "commit"}
    /\ Does(s, {"reverse"}) => pc[s] \in {"entry", "period", "number", "insert", "post", "commit"}
    /\ Does(s, {"close"}) => pc[s] \in {"month", "others", "journals", "postings", "balance", "commit"}
    /\ Does(s, {"lock", "reopen"}) => pc[s] \in {"month", "others", "commit"}
    /\ Does(s, {"year"}) => pc[s] \in {"year", "number", "commit"}
    /\ ~At(s, "idle") /\ Does(s, {"sale", "retry", "scan"}) =>
          tx[s].e \in Sales /\ tx[s].m = SoldIn[tx[s].e]
    /\ Does(s, {"draft", "redate", "post", "reverse"}) => tx[s].e \in Manual

\* The sale's row is not held yet, or the entry was given up.
Ahead == {"sale", "row", "failed"}
Closers == {"close", "lock", "reopen"}
Writing == {"sale", "retry", "reverse"}

LocksHeld(s) ==
    /\ Does(s, {"sale", "retry"}) /\ pc[s] \notin Ahead => lock[Sale(tx[s].e)] = s
    /\ Does(s, {"redate", "post", "reverse"}) /\ pc[s] # "entry" => lock[Entry(tx[s].e)] = s
    /\ Does(s, Closers) /\ pc[s] # "month" => lock[Month(tx[s].m)] = s
    /\ Does(s, {"year"}) /\ pc[s] # "year" => \A m \in Months : lock[Month(m)] = s

\* Only closers hold a month, only those who have an entry written into it share it.
MonthsHeld(s) ==
    \A m \in Months :
        /\ lock[Month(m)] = s => Does(s, Closers \cup {"year"}) /\ pc[s] \notin {"month", "year"}
        /\ s \in share[m] <=> Does(s, Writing) /\ pc[s] \in {"post", "commit"} /\ tx[s].m = m

\* What a request found its document to be is what it is until the request ends.
DocumentOK(s) ==
    /\ Does(s, {"sale", "retry"}) /\ pc[s] \notin Ahead => state[tx[s].e] # "posted"
    /\ Does(s, {"draft"}) => state[tx[s].e] = "absent"
    /\ Does(s, {"redate"}) /\ pc[s] # "entry" => state[tx[s].e] \in Editable
    /\ Does(s, {"post"}) => /\ state[tx[s].e] \in {"approved", "posted", "reversed"}
                            /\ dated[tx[s].e] = tx[s].m
                            /\ pc[s] # "entry" => state[tx[s].e] = "approved"
    /\ Does(s, {"reverse"}) /\ pc[s] # "entry" =>
          state[tx[s].e] = "posted" /\ dated[tx[s].e] <= tx[s].m

\* So is the month, once it is held or shared; a manual journal keeps it from closing.
MonthOK(s) ==
    /\ Does(s, {"close"}) /\ pc[s] # "month" => month[tx[s].m] = "review"
    /\ Does(s, {"lock"}) /\ pc[s] # "month" => month[tx[s].m] = "closed"
    /\ Does(s, {"reopen"}) /\ pc[s] # "month" => Closed(tx[s].m)
    /\ Does(s, {"year"}) /\ pc[s] # "year" => \A m \in Months : Closed(m)
    /\ Does(s, Writing) /\ pc[s] = "commit" => month[tx[s].m] = "open"
    /\ Does(s, {"post"}) /\ pc[s] = "commit" => ~Closed(tx[s].m)

\* The manual journals that keep a month from closing: neither posted nor given up.
Pending == {"draft", "pending_approval", "rejected", "approved"}
Blocking(m) == {x \in Manual : state[x] \in Pending /\ dated[x] = m}

\* What a closer has checked and read still holds when it commits.  After the first
\* check alone it would not: a rejected journal may be submitted again.
CloserOK(s) ==
    /\ Does(s, {"close"}) /\ pc[s] \in {"balance", "commit"} => Blocking(tx[s].m) = {}
    /\ Does(s, {"close"}) /\ pc[s] = "commit" => tx[s].seen = Books(tx[s].m)
    /\ Does(s, {"year"}) /\ pc[s] # "year" => tx[s].seen = Result /\ year = "open"

SessionOK(s) ==
    /\ RouteOK(s) /\ LocksHeld(s) /\ MonthsHeld(s)
    /\ DocumentOK(s) /\ MonthOK(s) /\ CloserOK(s)

SessionsOK == \A s \in Sessions : SessionOK(s)

\* A new journal is one request's own.
DraftsApart ==
    \A s, t \in Sessions : s # t /\ Does(s, {"draft"}) /\ Does(t, {"draft"}) => tx[s].e # tx[t].e

\* A month that is shared is not held.
SharedNotHeld == \A m \in Months : share[m] = {} \/ lock[Month(m)] = Nobody

EntriesOK ==
    /\ \A x \in Sales : state[x] \in {"absent", "posted"} /\ dated[x] = SoldIn[x]
    /\ \A x \in Entries : reversal[x] # 0 <=> state[x] = "reversed"

\* Nothing is carried over before the year is closed.
CarriedOK == year = "open" => closing = {}

Inv ==
    /\ TypeOK
    /\ SessionsOK
    /\ DraftsApart
    /\ SharedNotHeld
    /\ EntriesOK
    /\ CarriedOK
    /\ SnapshotStands
    /\ PostingFollowsJournal

-----------------------------------------------------------------------------
(* Rows. *)

\* The rows of the model, and that a month's row is none of the others.
LEMMA RowsAre ==
  /\ \A x \in Sales : Sale(x) \in Rows /\ Posting(x) \in Rows
  /\ \A x \in Manual : Entry(x) \in Rows
  /\ \A m \in Months : Month(m) \in Rows
  /\ Numbers \in Rows
BY DEF Rows

\* The row of a month is no other row.
LEMMA MonthsApart ==
  ASSUME NEW m
  PROVE  /\ \A x : Month(m) # Sale(x) /\ Month(m) # Posting(x) /\ Month(m) # Entry(x)
         /\ Month(m) # Numbers
         /\ \A k : Month(k) = Month(m) => k = m
<1>1. Month(m)[1] = "month"
  BY DEF Month
<1>2. \A x : Sale(x)[1] = "sale" /\ Posting(x)[1] = "posting" /\ Entry(x)[1] = "entry"
  BY DEF Sale, Posting, Entry
<1>3. Numbers[1] = "numbers"
  BY DEF Numbers
<1>4. \A k : Month(k)[2] = k
  BY DEF Month
<1>5. \A k : Month(k) = Month(m) => k = m
  BY <1>4
<1> QED
  BY <1>1, <1>2, <1>3, <1>5

\* A session without a request has a transaction record too.
LEMMA IdleTyped ==
  Idle \in Transactions /\ Idle.kind = "scan" /\ Idle.e \in Entries /\ Idle.m \in Months
<1>1. AnyEntry \in Entries
  BY ConstantsOK DEF AnyEntry
<1>2. 1 \in Months
  BY ConstantsOK DEF Months
<1> QED
  BY <1>1, <1>2 DEF Idle, Transactions, Kinds

\* The initial state has the types.
LEMMA InitTyped == Init => TypeOK
<1> SUFFICES ASSUME Init PROVE TypeOK
  OBVIOUS
<1>1. 1 \in Months /\ 0 \in 0 .. MonthCount
  BY ConstantsOK DEF Months
<1>2. dated \in [Entries -> Months]
  BY <1>1, ConstantsOK DEF Init
<1>3. tx \in [Sessions -> Transactions]
  BY IdleTyped DEF Init
<1> QED
  BY <1>1, <1>2, <1>3 DEF Init, TypeOK, Transactions, Places, JournalStates

-----------------------------------------------------------------------------
(* What a step does to rows and to the transactions of others.             *)

SessionStep(s) == Request(s) \/ Statement(s) \/ PostingFails(s) \/ Abort(s) \/ DetectDeadlock(s)

\* A statement that takes a row did not have to wait for it.
Takes(s) == Take(s) /\ Blockers(s) = {} /\ ~At(s, "insert") /\ UNCHANGED share

Shares(s) ==
    /\ At(s, "insert") /\ Blockers(s) = {} /\ ~Does(s, {"draft", "redate"})
    /\ share' = [share EXCEPT ![tx[s].m] = @ \cup {s}]
    /\ Go(s, "post")
    /\ UNCHANGED <<lock, tx>>

\* What a session does to locks.
LEMMA LockMoves ==
  ASSUME NEW s \in Sessions, SessionStep(s)
  PROVE  \/ UNCHANGED locks
         \/ Takes(s)
         \/ LetGo(s)
         \/ BackToSavepoint(s) /\ Does(s, {"sale", "retry"})
         \/ Shares(s)
<1> DEFINE Goal == \/ UNCHANGED locks \/ Takes(s) \/ LetGo(s)
                   \/ BackToSavepoint(s) /\ Does(s, {"sale", "retry"})
                   \/ Shares(s)
<1>1. CASE Request(s)
  BY <1>1 DEF Request, BeginSale, BeginRetry, BeginScan, BeginDraft, BeginRedate, BeginPost,
     BeginReverse, BeginMonth, BeginYear, Begin
<1>2. CASE PostingFails(s) \/ Abort(s) \/ DetectDeadlock(s)
  BY <1>2 DEF PostingFails, Abort, DetectDeadlock, Guarded, Does, Refuse
<1>3. CASE LockPosSale(s) \/ RetryPosting(s) \/ LockEntry(s) \/ OpenPosting(s) \/ AllocateNumber(s)
           \/ LoadPeriod(s) \/ LoadYear(s)
  BY <1>3 DEF LockPosSale, RetryPosting, LockEntry, OpenPosting, AllocateNumber, LoadPeriod, LoadYear,
     Ready, At, Takes, Refuse
<1>4. CASE GetOpenPeriod(s) \/ PostEntry(s) \/ UpdateEntry(s) \/ CheckOthers(s) \/ CheckJournals(s)
           \/ CheckPostings(s) \/ ReadTrialBalance(s)
  BY <1>4 DEF GetOpenPeriod, PostEntry, UpdateEntry, CheckOthers, CheckJournals, CheckPostings,
     ReadTrialBalance, Refuse
<1>5. CASE InsertEntry(s)
  BY <1>5 DEF InsertEntry, Ready, Shares
<1>6. CASE RecordPostingFailure(s) \/ CommitEntry(s) \/ CommitReversal(s) \/ ClosePeriod(s)
           \/ LockPeriod(s) \/ ReopenPeriod(s) \/ CloseFinancialYear(s)
  BY <1>6 DEF RecordPostingFailure, CommitEntry, CommitReversal, ClosePeriod, LockPeriod, ReopenPeriod,
     CloseFinancialYear
<1> QED
  BY <1>1, <1>2, <1>3, <1>4, <1>5, <1>6 DEF SessionStep, Statement

\* A row that is taken was free, or the session's own.
LEMMA Taking ==
  ASSUME TypeOK, NEW s \in Sessions, Blockers(s) = {}
  PROVE  \A r \in Wanted(s) : lock[r] \in {Nobody, s}
BY DEF Blockers

\* Nothing a session does takes a row, or a share, from another, or gives it one.
LEMMA OthersKeep ==
  ASSUME TypeOK, NEW s \in Sessions, SessionStep(s), NEW t \in Sessions \ {s}
  PROVE  /\ \A r \in Rows : lock'[r] = t <=> lock[r] = t
         /\ \A m \in Months : t \in share'[m] <=> t \in share[m]
<1>0. t # Nobody /\ s # Nobody
  BY ConstantsOK
<1>1. CASE UNCHANGED locks
  BY <1>1 DEF locks
<1>2. CASE Takes(s)
  BY <1>0, <1>2, Taking DEF Takes, Take
<1>3. CASE LetGo(s)
  BY <1>0, <1>3 DEF LetGo
<1>4. CASE BackToSavepoint(s)
  <2>1. lock' = [r \in Rows |-> IF lock[r] = s /\ r \in (IF Does(s, {"retry"}) THEN {Numbers} ELSE {Numbers, Posting(tx[s].e)})
                                THEN Nobody ELSE lock[r]]
    BY <1>4 DEF BackToSavepoint
  <2>2. share' = [m \in Months |-> share[m] \ {s}]
    BY <1>4 DEF BackToSavepoint
  <2> QED
    BY <1>0, <2>1, <2>2
<1>5. CASE Shares(s)
  BY <1>5 DEF Shares, TypeOK
<1> QED
  BY <1>1, <1>2, <1>3, <1>4, <1>5, LockMoves

\* What is carried over are lines of entries that earned.
LEMMA ResultTyped == Result \in SUBSET Lines /\ Result \subseteq {"closing"} \X Earning
BY ConstantsOK DEF Result, Lines

\* A session moves only itself.
LEMMA OthersWait ==
  ASSUME TypeOK, NEW s \in Sessions, SessionStep(s)
  PROVE  /\ \E p \in Places : pc' = [pc EXCEPT ![s] = p]
         /\ \E q \in Transactions : tx' = [tx EXCEPT ![s] = q]
<1> DEFINE Goal == /\ \E p \in Places : pc' = [pc EXCEPT ![s] = p]
                   /\ \E q \in Transactions : tx' = [tx EXCEPT ![s] = q]
<1>0. tx[s] \in Transactions /\ tx = [tx EXCEPT ![s] = tx[s]]
  BY DEF TypeOK, Transactions
<1>1. ASSUME NEW p \in Places, Go(s, p), UNCHANGED tx PROVE Goal
  BY <1>0, <1>1 DEF Go
<1>2. ASSUME LetGo(s) PROVE Goal
  BY <1>2, IdleTyped DEF LetGo, Go, Places
<1>3. ASSUME BackToSavepoint(s) PROVE Goal
  BY <1>1, <1>3 DEF BackToSavepoint, Places
<1>4. ASSUME NEW kind \in Kinds, NEW p \in Places, NEW x \in Entries, NEW m \in Months, Begin(s, kind, p, x, m)
      PROVE  Goal
  <2>1. [Idle EXCEPT !.kind = kind, !.e = x, !.m = m, !.year = year] \in Transactions
    BY IdleTyped DEF Transactions, TypeOK
  <2> QED
    BY <1>4, <2>1 DEF Begin, Go
<1>5. CASE Request(s)
  <2>1. AnyEntry \in Entries /\ MonthCount \in Months
    BY ConstantsOK DEF AnyEntry, Months
  <2>2. \A x \in Sales : x \in Entries /\ SoldIn[x] \in Months
    BY ConstantsOK DEF Entries
  <2>3. \A x \in Manual : x \in Entries /\ dated[x] \in Months
    BY DEF Entries, TypeOK
  <2>4. {"sale", "row", "failed", "period", "entry", "month", "year"} \subseteq Places
    BY DEF Places
  <2>5. CASE BeginSale(s) \/ BeginRetry(s) \/ BeginScan(s)
    BY <1>4, <2>2, <2>4, <2>5 DEF BeginSale, BeginRetry, BeginScan, Kinds
  <2>6. CASE BeginDraft(s) \/ BeginRedate(s) \/ BeginPost(s) \/ BeginReverse(s)
    BY <1>4, <2>3, <2>4, <2>6 DEF BeginDraft, BeginRedate, BeginPost, BeginReverse, Kinds
  <2>7. CASE BeginMonth(s) \/ BeginYear(s)
    BY <1>4, <2>1, <2>4, <2>7 DEF BeginMonth, BeginYear, Kinds
  <2> QED
    BY <1>5, <2>5, <2>6, <2>7 DEF Request
<1>6. CASE PostingFails(s) \/ Abort(s) \/ DetectDeadlock(s)
  BY <1>2, <1>3, <1>6 DEF PostingFails, Abort, DetectDeadlock, Refuse
<1>7. CASE LockPosSale(s) \/ RetryPosting(s) \/ LockEntry(s) \/ LoadPeriod(s)
  BY <1>1, <1>2, <1>7 DEF LockPosSale, RetryPosting, LockEntry, LoadPeriod, Refuse, Places
<1>13. CASE LoadYear(s)
  <2>1. CASE LetGo(s)
    BY <1>2, <2>1
  <2>2. CASE ~LetGo(s)
    <3>1. [tx[s] EXCEPT !.seen = Result] \in Transactions
      BY <1>0, ResultTyped DEF Transactions
    <3>2. /\ tx' = [tx EXCEPT ![s] = [tx[s] EXCEPT !.seen = Result]]
          /\ Go(s, IF Result = {} THEN "commit" ELSE "number")
      BY <1>13, <2>2 DEF LoadYear, Refuse
    <3> QED
      BY <3>1, <3>2 DEF Go, Places
  <2> QED
    BY <2>1, <2>2
<1>8. CASE OpenPosting(s) \/ AllocateNumber(s) \/ GetOpenPeriod(s)
  <2>1. AfterPeriod(s) \in Places
    BY DEF AfterPeriod, Places
  <2> QED
    BY <1>1, <1>2, <1>8, <2>1 DEF OpenPosting, AllocateNumber, GetOpenPeriod, Refuse, Places
<1>9. CASE PostEntry(s) \/ UpdateEntry(s) \/ CheckOthers(s) \/ CheckJournals(s) \/ CheckPostings(s)
  BY <1>1, <1>2, <1>3, <1>9 DEF PostEntry, UpdateEntry, CheckOthers, CheckJournals, CheckPostings,
     Refuse, Places
<1>10. CASE ReadTrialBalance(s)
  <2>1. Books(tx[s].m) \subseteq Lines
    BY ConstantsOK DEF Books, Lines, TypeOK
  <2>2. [tx[s] EXCEPT !.seen = Books(tx[s].m)] \in Transactions
    BY <1>0, <2>1 DEF Transactions
  <2>3. tx' = [tx EXCEPT ![s] = [tx[s] EXCEPT !.seen = Books(tx[s].m)]]
    BY <1>10 DEF ReadTrialBalance
  <2> QED
    BY <1>10, <2>2, <2>3 DEF ReadTrialBalance, Go, Places
<1>11. CASE InsertEntry(s)
  BY <1>1, <1>2, <1>11 DEF InsertEntry, Places
<1>12. CASE RecordPostingFailure(s) \/ CommitEntry(s) \/ CommitReversal(s) \/ ClosePeriod(s)
            \/ LockPeriod(s) \/ ReopenPeriod(s) \/ CloseFinancialYear(s)
  BY <1>2, <1>12 DEF RecordPostingFailure, CommitEntry, CommitReversal, ClosePeriod, LockPeriod, ReopenPeriod,
     CloseFinancialYear
<1> QED
  BY <1>5, <1>6, <1>7, <1>8, <1>9, <1>10, <1>11, <1>12, <1>13 DEF SessionStep, Statement

\* A draft is written or dated anew: the entry it becomes is in no books.
WritesDraft(s) == InsertEntry(s) /\ Does(s, {"draft", "redate"})

\* What a session does to the database.
LEMMA DataMoves ==
  ASSUME NEW s \in Sessions, SessionStep(s)
  PROVE  \/ UNCHANGED database
         \/ WritesDraft(s) \/ RecordPostingFailure(s) \/ CommitEntry(s) \/ CommitReversal(s)
         \/ ClosePeriod(s) \/ LockPeriod(s) \/ ReopenPeriod(s) \/ CloseFinancialYear(s)
<1>1. CASE Request(s)
  BY <1>1 DEF Request, BeginSale, BeginRetry, BeginScan, BeginDraft, BeginRedate, BeginPost,
     BeginReverse, BeginMonth, BeginYear, Begin
<1>2. CASE PostingFails(s) \/ Abort(s) \/ DetectDeadlock(s)
  BY <1>2 DEF PostingFails, Abort, DetectDeadlock, Refuse, BackToSavepoint
<1>3. CASE LockPosSale(s) \/ RetryPosting(s) \/ LockEntry(s) \/ OpenPosting(s) \/ AllocateNumber(s)
           \/ LoadPeriod(s) \/ LoadYear(s)
  BY <1>3 DEF LockPosSale, RetryPosting, LockEntry, OpenPosting, AllocateNumber, LoadPeriod, LoadYear, Refuse
<1>4. CASE GetOpenPeriod(s) \/ PostEntry(s) \/ UpdateEntry(s) \/ CheckOthers(s) \/ CheckJournals(s)
           \/ CheckPostings(s) \/ ReadTrialBalance(s)
  BY <1>4 DEF GetOpenPeriod, PostEntry, UpdateEntry, CheckOthers, CheckJournals, CheckPostings,
     ReadTrialBalance, Refuse, BackToSavepoint
<1>5. CASE InsertEntry(s)
  BY <1>5 DEF InsertEntry, WritesDraft
<1> QED
  BY <1>1, <1>2, <1>3, <1>4, <1>5 DEF SessionStep, Statement

-----------------------------------------------------------------------------
(* Types. *)

\* The locks stay locks of sessions.
LEMMA LocksTyped ==
  ASSUME TypeOK, NEW s \in Sessions, SessionStep(s)
  PROVE  lock' \in [Rows -> Sessions \cup {Nobody}] /\ share' \in [Months -> SUBSET Sessions]
<1>1. CASE UNCHANGED locks
  BY <1>1 DEF locks, TypeOK
<1>2. CASE Takes(s)
  BY <1>2 DEF Takes, Take, TypeOK
<1>3. CASE LetGo(s)
  BY <1>3 DEF LetGo, TypeOK
<1>4. CASE BackToSavepoint(s)
  BY <1>4 DEF BackToSavepoint, TypeOK
<1>5. CASE Shares(s)
  BY <1>5 DEF Shares, TypeOK
<1> QED
  BY <1>1, <1>2, <1>3, <1>4, <1>5, LockMoves

\* Statements of nobody's request: one row, one transaction.
PassStep(x) ==
    \/ SubmitJournalEntry(x) \/ ApproveJournalEntry(x) \/ RejectJournalApproval(x)
    \/ DiscardManualJournal(x)

OutsideStep ==
    \/ \E x \in Manual : PassStep(x)
    \/ \E x \in Sales : DismissPosting(x)
    \/ \E m \in Months : StartPeriodReview(m) \/ ReturnPeriodToOpen(m)

\* A manual journal that passes from a status to another was pending, and not approved.
LEMMA Passes ==
  ASSUME TypeOK, NEW x \in Manual, PassStep(x)
  PROVE  /\ x \in Entries /\ lock[Entry(x)] = Nobody
         /\ state[x] \in Pending /\ state[x] # "approved"
         /\ state'[x] \in Pending \cup {"cancelled"}
         /\ \A y \in Entries \ {x} : state'[y] = state[y]
         /\ state' \in [Entries -> JournalStates]
         /\ UNCHANGED <<month, year, snapshot, closing, dated, reversal, posting, lock, share, pc, tx>>
<1>1. PICK from \in SUBSET {"draft", "pending_approval", "rejected"},
           to \in {"pending_approval", "rejected", "approved", "cancelled"} : Pass(x, from, to)
  BY DEF PassStep, SubmitJournalEntry, ApproveJournalEntry, RejectJournalApproval, DiscardManualJournal, Editable
<1>2. /\ state[x] \in from /\ lock[Entry(x)] = Nobody /\ state' = [state EXCEPT ![x] = to]
      /\ UNCHANGED <<month, year, snapshot, closing, dated, reversal, posting, lock, share, pc, tx>>
  BY <1>1 DEF Pass, periods, locks
<1>3. x \in Entries /\ to \in JournalStates
  BY DEF Entries, JournalStates
<1> QED
  BY <1>2, <1>3 DEF TypeOK, Pending

\* Every step keeps the types.
LEMMA TypeStep == Inv /\ [Next]_vars => TypeOK'
<1> SUFFICES ASSUME Inv, [Next]_vars PROVE TypeOK'
  OBVIOUS
<1> TypeOK
  BY DEF Inv
<1>0. 1 \in Months /\ Months \subseteq 0 .. MonthCount
  BY ConstantsOK DEF Months
<1>1. CASE UNCHANGED vars
  BY <1>1 DEF vars, database, periods, journals, locks, TypeOK
<1>2. CASE OutsideStep
  <2>1. CASE \E x \in Manual : PassStep(x)
    BY <2>1, Passes DEF TypeOK
  <2>2. CASE ~\E x \in Manual : PassStep(x)
    BY <1>2, <2>2 DEF OutsideStep, DismissPosting, StartPeriodReview, ReturnPeriodToOpen, journals, periods, locks, TypeOK
  <2> QED
    BY <2>1, <2>2
<1>3. ASSUME NEW s \in Sessions, SessionStep(s) PROVE TypeOK'
  <2>1. lock' \in [Rows -> Sessions \cup {Nobody}] /\ share' \in [Months -> SUBSET Sessions]
    BY <1>3, LocksTyped
  <2>2. pc' \in [Sessions -> Places]
    BY <1>3, OthersWait DEF TypeOK
  <2>3. tx' \in [Sessions -> Transactions]
    <3>1. tx \in [Sessions -> Transactions]
      BY DEF TypeOK, Transactions
    <3> QED
      BY <1>3, <3>1, OthersWait
  <2>4. tx[s] \in Transactions /\ tx[s].m \in Months /\ tx[s].e \in Entries /\ tx[s].seen \in SUBSET Lines
    BY DEF TypeOK, Transactions
  <2> DEFINE Data ==
        /\ month' \in [Months -> {"open", "review", "closed", "locked"}]
        /\ year' \in {"open", "closed"}
        /\ snapshot' \in [Months -> SUBSET Lines]
        /\ closing' \subseteq {"closing"} \X Earning
        /\ state' \in [Entries -> JournalStates]
        /\ dated' \in [Entries -> Months]
        /\ reversal' \in [Entries -> 0 .. MonthCount]
        /\ posting' \in [Sales -> {"none", "FAILED", "POSTED"}]
  <2>5. ASSUME UNCHANGED database PROVE Data
    BY <2>5 DEF database, periods, journals, TypeOK
  <2>6. ASSUME WritesDraft(s) PROVE Data
    BY <2>4, <2>6 DEF WritesDraft, InsertEntry, periods, TypeOK, JournalStates
  <2>7. ASSUME RecordPostingFailure(s) PROVE Data
    BY <2>7 DEF RecordPostingFailure, periods, journals, TypeOK
  <2>8. ASSUME CommitEntry(s) PROVE Data
    BY <2>8 DEF CommitEntry, periods, TypeOK, JournalStates
  <2>9. ASSUME CommitReversal(s) PROVE Data
    BY <1>0, <2>4, <2>9 DEF CommitReversal, periods, TypeOK, JournalStates
  <2>10. ASSUME ClosePeriod(s) \/ LockPeriod(s) \/ ReopenPeriod(s) PROVE Data
    BY <2>4, <2>10 DEF ClosePeriod, LockPeriod, ReopenPeriod, journals, TypeOK
  <2>12. ASSUME CloseFinancialYear(s) PROVE Data
    <3>1. tx[s].seen = Result
      BY <2>12 DEF CloseFinancialYear, Inv, SessionsOK, SessionOK, CloserOK, At
    <3> QED
      BY <2>12, <3>1, ResultTyped DEF CloseFinancialYear, journals, TypeOK
  <2>11. Data
    BY <1>3, <2>5, <2>6, <2>7, <2>8, <2>9, <2>10, <2>12, DataMoves
  <2> QED
    BY <2>1, <2>2, <2>3, <2>11 DEF TypeOK, Transactions
<1> QED
  BY <1>1, <1>2, <1>3 DEF Next, SessionStep, OutsideStep, PassStep

\* An open year with no entries satisfies the invariant.
LEMMA InvInit == Init => Inv
<1> SUFFICES ASSUME Init PROVE Inv
  OBVIOUS
<1>1. TypeOK
  BY InitTyped
<1>2. \A r \in Rows : lock[r] = Nobody
  BY DEF Init
<1>3. ASSUME NEW s \in Sessions PROVE SessionOK(s)
  <2>1. pc[s] = "idle" /\ tx[s] = Idle /\ tx[s].kind = "scan" /\ s # Nobody
    BY IdleTyped, ConstantsOK DEF Init
  <2>2. \A m \in Months : lock[Month(m)] # s /\ s \notin share[m]
    BY <1>2, <2>1, RowsAre DEF Init
  <2> QED
    BY <2>1, <2>2 DEF SessionOK, RouteOK, LocksHeld, MonthsHeld, DocumentOK, MonthOK, CloserOK, At, Does,
       Closers, Writing, Ahead
<1>4. DraftsApart /\ SharedNotHeld
  BY IdleTyped DEF Init, DraftsApart, SharedNotHeld, Does
<1>5. EntriesOK
  BY DEF EntriesOK, Init, Entries
<1>6. SnapshotStands /\ PostingFollowsJournal /\ CarriedOK
  BY DEF Init, SnapshotStands, PostingFollowsJournal, CarriedOK, Closed, Entries
<1> QED
  BY <1>1, <1>3, <1>4, <1>5, <1>6 DEF Inv, SessionsOK

-----------------------------------------------------------------------------
(* What a session's own step leaves it with. *)

\* Ended, it holds nothing and claims nothing.
LEMMA EndedOK ==
  ASSUME TypeOK, NEW s \in Sessions, LetGo(s)
  PROVE  SessionOK(s)'
<1>1. pc'[s] = "idle" /\ tx'[s] = Idle /\ tx'[s].kind = "scan" /\ s # Nobody
  BY IdleTyped, ConstantsOK DEF LetGo, Go, TypeOK
<1>2. \A m \in Months : lock'[Month(m)] # s /\ s \notin share'[m]
  BY <1>1, RowsAre DEF LetGo
<1> QED
  BY <1>1, <1>2 DEF SessionOK, RouteOK, LocksHeld, MonthsHeld, DocumentOK, MonthOK, CloserOK, At, Does,
     Closers, Writing, Ahead

\* Back at the savepoint, a poster claims nothing of its sale any more.
LEMMA BackOK ==
  ASSUME TypeOK, NEW s \in Sessions, SessionOK(s), BackToSavepoint(s), Does(s, {"sale", "retry"})
  PROVE  SessionOK(s)'
<1>1. pc'[s] = "failed" /\ tx' = tx /\ tx[s].kind \in {"sale", "retry"} /\ s # Nobody
  BY ConstantsOK DEF BackToSavepoint, Go, TypeOK, Does
<1>2. pc[s] # "idle"
  BY <1>1, IdleTyped DEF SessionOK, RouteOK, At
<1>3. \A m \in Months : lock[Month(m)] # s
  BY <1>1 DEF SessionOK, MonthsHeld, Does, Closers
<1>4. \A m \in Months : lock'[Month(m)] # s /\ s \notin share'[m]
  <2>1. lock' = [r \in Rows |-> IF lock[r] = s /\ r \in (IF Does(s, {"retry"}) THEN {Numbers} ELSE {Numbers, Posting(tx[s].e)})
                                THEN Nobody ELSE lock[r]]
    BY DEF BackToSavepoint
  <2>2. share' = [m \in Months |-> share[m] \ {s}]
    BY DEF BackToSavepoint
  <2> QED
    BY <1>1, <1>3, <2>1, <2>2, RowsAre
<1>5. tx[s].e \in Sales /\ tx[s].m = SoldIn[tx[s].e]
  BY <1>1, <1>2 DEF SessionOK, RouteOK, At, Does
<1> QED
  BY <1>1, <1>4, <1>5 DEF SessionOK, RouteOK, LocksHeld, MonthsHeld, DocumentOK, MonthOK, CloserOK, At, Does,
     Closers, Writing, Ahead

\* A request begins where its route does, about what it saw.
LEMMA BegunOK ==
  ASSUME TypeOK, EntriesOK, NEW s \in Sessions, SessionOK(s), Request(s)
  PROVE  SessionOK(s)'
<1>1. pc[s] = "idle" /\ UNCHANGED <<database, locks>>
  BY DEF Request, BeginSale, BeginRetry, BeginScan, BeginDraft, BeginRedate, BeginPost,
     BeginReverse, BeginMonth, BeginYear, Begin, At
<1>2. tx[s] = Idle /\ tx[s].kind = "scan"
  BY <1>1, IdleTyped DEF SessionOK, RouteOK, At
<1>3. \A m \in Months : lock'[Month(m)] # s /\ s \notin share'[m]
  BY <1>1, <1>2 DEF SessionOK, MonthsHeld, Does, Closers, Writing, locks
<1>4. UNCHANGED <<state, dated>>
  BY <1>1 DEF database, journals
<1>5. ASSUME NEW kind, NEW where, NEW x, NEW m, Begin(s, kind, where, x, m)
      PROVE  pc'[s] = where /\ tx'[s].kind = kind /\ tx'[s].e = x /\ tx'[s].m = m
  BY <1>5, IdleTyped DEF Begin, Go, TypeOK, Transactions
<1>6. CASE BeginSale(s) \/ BeginRetry(s) \/ BeginScan(s)
  <2>1. /\ tx'[s].kind \in {"sale", "retry", "scan"}
        /\ tx'[s].kind \in {"sale", "retry"} => pc'[s] \in {"sale", "row"}
        /\ tx'[s].kind = "scan" => pc'[s] = "failed"
        /\ pc'[s] # "idle"
        /\ tx'[s].e \in Sales /\ tx'[s].m = SoldIn[tx'[s].e]
    BY <1>5, <1>6 DEF BeginSale, BeginRetry, BeginScan
  <2> QED
    BY <1>3, <2>1 DEF SessionOK, RouteOK, LocksHeld, MonthsHeld, DocumentOK, MonthOK, CloserOK, At, Does,
       Closers, Writing, Ahead
<1>7. CASE BeginDraft(s)
  <2>1. tx'[s].kind = "draft" /\ pc'[s] = "period" /\ tx'[s].e \in Manual /\ state[tx'[s].e] = "absent"
    BY <1>5, <1>7 DEF BeginDraft
  <2> QED
    BY <1>3, <1>4, <2>1 DEF SessionOK, RouteOK, LocksHeld, MonthsHeld, DocumentOK, MonthOK, CloserOK, At, Does,
       Closers, Writing, Ahead
<1>8. CASE BeginRedate(s) \/ BeginReverse(s)
  <2>1. tx'[s].kind \in {"redate", "reverse"} /\ pc'[s] = "entry" /\ tx'[s].e \in Manual
    BY <1>5, <1>8 DEF BeginRedate, BeginReverse
  <2> QED
    BY <1>3, <1>4, <2>1 DEF SessionOK, RouteOK, LocksHeld, MonthsHeld, DocumentOK, MonthOK, CloserOK, At, Does,
       Closers, Writing, Ahead
<1>9. CASE BeginPost(s)
  <2>1. /\ tx'[s].kind = "post" /\ pc'[s] = "entry" /\ tx'[s].e \in Manual
        /\ state[tx'[s].e] = "approved" /\ dated[tx'[s].e] = tx'[s].m
    BY <1>5, <1>9 DEF BeginPost
  <2> QED
    BY <1>3, <1>4, <2>1 DEF SessionOK, RouteOK, LocksHeld, MonthsHeld, DocumentOK, MonthOK, CloserOK, At, Does,
       Closers, Writing, Ahead
<1>10. CASE BeginMonth(s) \/ BeginYear(s)
  <2>1. \/ tx'[s].kind \in Closers /\ pc'[s] = "month"
        \/ tx'[s].kind = "year" /\ pc'[s] = "year"
    BY <1>5, <1>10 DEF BeginMonth, BeginYear, Closers
  <2> QED
    BY <1>3, <2>1 DEF SessionOK, RouteOK, LocksHeld, MonthsHeld, DocumentOK, MonthOK, CloserOK, At, Does,
       Closers, Writing, Ahead
<1> QED
  BY <1>6, <1>7, <1>8, <1>9, <1>10 DEF Request

\* A statement that takes rows of documents, of postings or of numbers takes no month's.
LEMMA TakesNoMonth ==
  ASSUME TypeOK, NEW s \in Sessions, Take(s), pc[s] \notin {"insert", "month", "year"}
  PROVE  \A m \in Months : lock'[Month(m)] = lock[Month(m)]
<1>1. \A m \in Months : Month(m) \notin Wanted(s)
  BY MonthsApart DEF Wanted
<1> QED
  BY <1>1, RowsAre DEF Take

\* What it held it holds.
LEMMA TakesKeep ==
  ASSUME NEW s \in Sessions, Take(s)
  PROVE  \A r \in Rows : lock[r] = s => lock'[r] = s
BY DEF Take

\* A statement that goes on keeps what it had, and has what it took.
LEMMA GoesOn ==
  ASSUME TypeOK, NEW s \in Sessions, SessionOK(s), Take(s), UNCHANGED <<database, share, tx>>,
         pc[s] \notin {"insert", "month", "year"}
  PROVE  /\ tx'[s] = tx[s] /\ UNCHANGED <<month, year, state, dated, share>> /\ Result' = Result
         /\ \A m \in Months : lock'[Month(m)] = lock[Month(m)]
         /\ \A r \in Rows : lock[r] = s => lock'[r] = s
         /\ \A r \in Wanted(s) : r \in Rows => lock'[r] = s
BY TakesNoMonth, TakesKeep DEF database, periods, journals, Take, Result

\* What every session knows of its request.
LEMMA Requested ==
  ASSUME TypeOK, NEW s \in Sessions, SessionOK(s)
  PROVE  /\ s # Nobody /\ tx[s].m \in Months /\ tx[s].e \in Entries /\ tx[s].kind \in Kinds
         /\ pc[s] = "idle" => tx[s].kind = "scan"
BY ConstantsOK, IdleTyped DEF TypeOK, SessionOK, RouteOK, At

\* The rows of documents are taken by requests for what they then say.
LEMMA DocumentTakenOK ==
  ASSUME TypeOK, NEW s \in Sessions, SessionOK(s), ~LetGo(s),
         LockPosSale(s) \/ RetryPosting(s) \/ LockEntry(s) \/ OpenPosting(s)
  PROVE  SessionOK(s)'
<1> DEFINE k == tx[s].kind
<1>0. s # Nobody /\ k \in Kinds /\ tx[s].m \in Months /\ tx[s].e \in Entries
  BY Requested
<1>1. CASE LockPosSale(s)
  <2>1. pc[s] = "sale" /\ k \in {"sale", "retry"} /\ tx[s].e \in Sales /\ tx[s].m = SoldIn[tx[s].e]
    BY <1>0, <1>1 DEF LockPosSale, Ready, At, SessionOK, RouteOK, Does, Kinds
  <2>2. Take(s) /\ state[tx[s].e] # "posted" /\ pc'[s] = "period" /\ UNCHANGED <<database, share, tx>>
    BY <1>1 DEF LockPosSale, Go, Refuse, TypeOK
  <2>3. Sale(tx[s].e) \in Wanted(s) /\ Sale(tx[s].e) \in Rows
    BY <2>1, RowsAre DEF Wanted
  <2> QED
    BY <1>0, <2>1, <2>2, <2>3, GoesOn DEF SessionOK, RouteOK, LocksHeld, MonthsHeld, DocumentOK,
       MonthOK, CloserOK, At, Does, Closers, Writing, Ahead
<1>2. CASE RetryPosting(s)
  <2>1. pc[s] = "row" /\ k \in {"sale", "retry"} /\ tx[s].e \in Sales /\ tx[s].m = SoldIn[tx[s].e]
    BY <1>0, <1>2 DEF RetryPosting, Ready, At, SessionOK, RouteOK, Does, Kinds
  <2>2. Take(s) /\ pc'[s] = "sale" /\ UNCHANGED <<database, share, tx>>
    BY <1>2 DEF RetryPosting, Go, Refuse, TypeOK
  <2> QED
    BY <1>0, <2>1, <2>2, GoesOn DEF SessionOK, RouteOK, LocksHeld, MonthsHeld, DocumentOK,
       MonthOK, CloserOK, At, Does, Closers, Writing, Ahead
<1>3. CASE OpenPosting(s)
  <2>1. pc[s] = "posting" /\ k \in {"sale", "retry"} /\ tx[s].e \in Sales /\ tx[s].m = SoldIn[tx[s].e]
    BY <1>0, <1>3 DEF OpenPosting, Ready, At, SessionOK, RouteOK, Does, Kinds
  <2>2. Take(s) /\ pc'[s] \in {"failed", "number"} /\ UNCHANGED <<database, share, tx>>
    BY <1>3 DEF OpenPosting, Go, TypeOK
  <2>3. lock[Sale(tx[s].e)] = s /\ Sale(tx[s].e) \in Rows /\ state[tx[s].e] # "posted"
    BY <2>1, RowsAre DEF SessionOK, LocksHeld, DocumentOK, Does, Ahead
  <2> QED
    BY <1>0, <2>1, <2>2, <2>3, GoesOn DEF SessionOK, RouteOK, LocksHeld, MonthsHeld, DocumentOK,
       MonthOK, CloserOK, At, Does, Closers, Writing, Ahead
<1>4. CASE LockEntry(s)
  <2>1. pc[s] = "entry" /\ k \in {"redate", "post", "reverse"} /\ tx[s].e \in Manual
    BY <1>0, <1>4 DEF LockEntry, Ready, At, SessionOK, RouteOK, Does, Kinds
  <2>2. Take(s) /\ Fit(s) /\ pc'[s] = "period" /\ UNCHANGED <<database, share, tx>>
    BY <1>4 DEF LockEntry, Go, Refuse, TypeOK
  <2>3. Entry(tx[s].e) \in Wanted(s) /\ Entry(tx[s].e) \in Rows
    BY <2>1, RowsAre DEF Wanted
  <2>4. /\ k = "redate" => state[tx[s].e] \in Editable
        /\ k = "post" => state[tx[s].e] = "approved" /\ dated[tx[s].e] = tx[s].m
        /\ k = "reverse" => state[tx[s].e] = "posted" /\ dated[tx[s].e] <= tx[s].m
    BY <2>1, <2>2 DEF Fit, SessionOK, DocumentOK, Does
  <2> QED
    BY <1>0, <2>1, <2>2, <2>3, <2>4, GoesOn DEF SessionOK, RouteOK, LocksHeld, MonthsHeld, DocumentOK,
       MonthOK, CloserOK, At, Does, Closers, Writing, Ahead
<1> QED
  BY <1>1, <1>2, <1>3, <1>4

\* So are the numbers, and the months of those who close them.
LEMMA OtherTakenOK ==
  ASSUME TypeOK, NEW s \in Sessions, SessionOK(s), ~LetGo(s),
         AllocateNumber(s) \/ LoadPeriod(s) \/ LoadYear(s)
  PROVE  SessionOK(s)'
<1> DEFINE k == tx[s].kind
<1>0. s # Nobody /\ k \in Kinds /\ tx[s].m \in Months /\ tx[s].e \in Entries
  BY Requested
<1>1. CASE AllocateNumber(s)
  <2>1. /\ pc[s] = "number" /\ k \in {"sale", "retry", "draft", "reverse", "year"}
        /\ k \in {"sale", "retry"} => tx[s].e \in Sales /\ tx[s].m = SoldIn[tx[s].e]
        /\ k \in {"draft", "reverse"} => tx[s].e \in Manual
    BY <1>0, <1>1 DEF AllocateNumber, Ready, At, SessionOK, RouteOK, Does, Kinds
  <2>2. Take(s) /\ pc'[s] = (IF k = "year" THEN "commit" ELSE "insert") /\ UNCHANGED <<database, share, tx>>
    BY <1>1 DEF AllocateNumber, Go, TypeOK, Does
  <2>3. /\ k \in {"sale", "retry"} => lock[Sale(tx[s].e)] = s /\ Sale(tx[s].e) \in Rows
        /\ k = "reverse" => lock[Entry(tx[s].e)] = s /\ Entry(tx[s].e) \in Rows
        /\ k = "year" => \A m \in Months : lock[Month(m)] = s
    BY <2>1, RowsAre DEF SessionOK, LocksHeld, Does, Ahead
  <2>4. /\ k \in {"sale", "retry"} => state[tx[s].e] # "posted"
        /\ k = "draft" => state[tx[s].e] = "absent"
        /\ k = "reverse" => state[tx[s].e] = "posted" /\ dated[tx[s].e] <= tx[s].m
        /\ k = "year" => \A m \in Months : Closed(m)
        /\ k = "year" => tx[s].seen = Result /\ year = "open"
    BY <2>1 DEF SessionOK, DocumentOK, MonthOK, CloserOK, Does, Ahead
  <2> QED
    BY <1>0, <2>1, <2>2, <2>3, <2>4, GoesOn DEF SessionOK, RouteOK, LocksHeld, MonthsHeld, DocumentOK,
       MonthOK, CloserOK, At, Does, Closers, Writing, Ahead, Closed
<1>2. CASE LoadPeriod(s) \/ LoadYear(s)
  <2>1. \/ LoadPeriod(s) /\ pc[s] = "month" /\ k \in Closers
        \/ LoadYear(s) /\ pc[s] = "year" /\ k = "year"
    BY <1>0, <1>2 DEF LoadPeriod, LoadYear, Ready, At, SessionOK, RouteOK, Does, Kinds, Closers
  <2>2. /\ Take(s) /\ UNCHANGED <<database, share>> /\ tx'[s].kind = k /\ tx'[s].m = tx[s].m
        /\ k \in Closers => Movable(s) /\ pc'[s] = "others"
        /\ k = "year" => pc'[s] \in {"number", "commit"} /\ \A m \in Months : Closed(m)
        /\ k = "year" => tx'[s].seen = Result /\ year = "open"
    BY <2>1 DEF LoadPeriod, LoadYear, Go, Refuse, TypeOK, Closers
  <2>3. /\ k \in Closers => lock'[Month(tx[s].m)] = s
        /\ k = "year" => \A m \in Months : lock'[Month(m)] = s
    BY <1>0, <2>1, <2>2, RowsAre DEF Take, Wanted
  <2>4. \A m \in Months : s \notin share[m]
    BY <2>1 DEF SessionOK, MonthsHeld, Does, Closers, Writing
  <2>5. /\ k = "close" => month[tx[s].m] = "review"
        /\ k = "lock" => month[tx[s].m] = "closed"
        /\ k = "reopen" => Closed(tx[s].m)
    BY <2>2 DEF Movable, Closers
  <2>6. UNCHANGED <<month, year, state, dated, share>> /\ Result' = Result
    BY <2>2 DEF database, periods, journals, Result
  <2> QED
    BY <1>0, <2>1, <2>2, <2>3, <2>4, <2>5, <2>6 DEF SessionOK, RouteOK, LocksHeld, MonthsHeld, DocumentOK,
       MonthOK, CloserOK, At, Does, Closers, Writing, Ahead, Closed
<1> QED
  BY <1>1, <1>2

\* A month is read, at the beginning and at the end; and what a closer reads is so while it holds it.
LEMMA ReadOK ==
  ASSUME TypeOK, NEW s \in Sessions, SessionOK(s), ~LetGo(s), ~(BackToSavepoint(s) /\ Does(s, {"sale", "retry"})),
         \/ GetOpenPeriod(s) \/ PostEntry(s) \/ UpdateEntry(s) \/ CheckOthers(s) \/ CheckJournals(s)
         \/ CheckPostings(s) \/ ReadTrialBalance(s)
  PROVE  SessionOK(s)'
<1> DEFINE k == tx[s].kind
<1>0. s # Nobody /\ k \in Kinds /\ tx[s].m \in Months /\ tx[s].e \in Entries
  BY Requested
<1>1. UNCHANGED <<database, locks>>
  BY DEF GetOpenPeriod, PostEntry, UpdateEntry, CheckOthers, CheckJournals, CheckPostings, ReadTrialBalance, Refuse
<1>2. UNCHANGED <<month, year, closing, state, dated, reversal, lock, share>> /\ Result' = Result
  BY <1>1 DEF database, periods, journals, locks, Result
<1>3. CASE GetOpenPeriod(s)
  <2>1. pc[s] = "period" /\ k \in {"sale", "retry", "draft", "redate", "post", "reverse"}
    BY <1>0, <1>3 DEF GetOpenPeriod, At, SessionOK, RouteOK, Does, Kinds
  <2>2. /\ tx' = tx
        /\ k \in {"sale", "retry"} => pc'[s] \in {"posting", "failed"}
        /\ k \in {"draft", "reverse"} => pc'[s] = "number"
        /\ k = "redate" => pc'[s] = "insert"
        /\ k = "post" => pc'[s] = "update"
    BY <1>3, <2>1 DEF GetOpenPeriod, Go, Refuse, TypeOK, AfterPeriod, Does
  <2> QED
    BY <1>0, <1>2, <2>1, <2>2 DEF SessionOK, RouteOK, LocksHeld, MonthsHeld, DocumentOK,
       MonthOK, CloserOK, At, Does, Closers, Writing, Ahead
<1>4. CASE PostEntry(s) \/ UpdateEntry(s)
  <2>1. \/ pc[s] = "post" /\ k \in Writing
        \/ pc[s] = "update" /\ k = "post"
    BY <1>0, <1>4 DEF PostEntry, UpdateEntry, At, SessionOK, RouteOK, Does, Kinds, Writing
  <2>2. tx' = tx /\ pc'[s] = "commit" /\ month[tx[s].m] = "open"
    BY <1>4 DEF PostEntry, UpdateEntry, Go, Refuse, TypeOK, Does
  <2> QED
    BY <1>0, <1>2, <2>1, <2>2 DEF SessionOK, RouteOK, LocksHeld, MonthsHeld, DocumentOK,
       MonthOK, CloserOK, At, Does, Closers, Writing, Ahead, Closed
<1>5. CASE CheckOthers(s)
  <2>1. pc[s] = "others" /\ k \in Closers
    BY <1>0, <1>5 DEF CheckOthers, At, SessionOK, RouteOK, Does, Kinds, Closers
  <2>2. tx' = tx /\ pc'[s] = (IF k = "close" THEN "journals" ELSE "commit")
    BY <1>5 DEF CheckOthers, Go, Refuse, TypeOK, Does
  <2> QED
    BY <1>0, <1>2, <2>1, <2>2 DEF SessionOK, RouteOK, LocksHeld, MonthsHeld, DocumentOK,
       MonthOK, CloserOK, At, Does, Closers, Writing, Ahead, Closed
<1>6. CASE CheckJournals(s) \/ CheckPostings(s)
  <2>1. pc[s] \in {"journals", "postings"} /\ k = "close"
    BY <1>0, <1>6 DEF CheckJournals, CheckPostings, At, SessionOK, RouteOK, Does, Kinds
  <2>2. /\ tx' = tx /\ pc'[s] \in {"postings", "balance"}
        /\ pc'[s] = "balance" => NotInBooks(tx[s].m) = {}
    BY <1>6, <2>1 DEF CheckJournals, CheckPostings, Go, Refuse, TypeOK, At
  <2>3. pc'[s] = "balance" => Blocking(tx[s].m)' = {}
    BY <1>2, <2>2 DEF Blocking, NotInBooks, Pending, Waiting, Editable
  <2> QED
    BY <1>0, <1>2, <2>1, <2>2, <2>3 DEF SessionOK, RouteOK, LocksHeld, MonthsHeld, DocumentOK,
       MonthOK, CloserOK, At, Does, Closers, Writing, Ahead, Closed
<1>7. CASE ReadTrialBalance(s)
  <2>1. pc[s] = "balance" /\ k = "close"
    BY <1>0, <1>7 DEF ReadTrialBalance, At, SessionOK, RouteOK, Does, Kinds
  <2>2. /\ pc'[s] = "commit" /\ tx'[s].kind = "close" /\ tx'[s].m = tx[s].m
        /\ tx'[s].seen = Books(tx[s].m)
    BY <1>7, <2>1 DEF ReadTrialBalance, Go, TypeOK
  <2>3. Blocking(tx[s].m)' = {} /\ Books(tx[s].m)' = Books(tx[s].m)
    BY <1>2, <2>1, <2>2 DEF Blocking, Books, Booked, SessionOK, CloserOK, Does
  <2> QED
    BY <1>0, <1>2, <2>1, <2>2, <2>3 DEF SessionOK, RouteOK, LocksHeld, MonthsHeld, DocumentOK,
       MonthOK, CloserOK, At, Does, Closers, Writing, Ahead, Closed
<1> QED
  BY <1>3, <1>4, <1>5, <1>6, <1>7

\* The entry is written into a month that the session shares from then on.
LEMMA SharedOK ==
  ASSUME TypeOK, NEW s \in Sessions, SessionOK(s), Shares(s), UNCHANGED database
  PROVE  SessionOK(s)'
<1>0. s # Nobody /\ tx[s].kind \in Kinds /\ tx[s].m \in Months /\ tx[s].e \in Entries
  BY Requested
<1>1. pc[s] = "insert" /\ tx[s].kind \in Writing
  BY <1>0 DEF Shares, At, SessionOK, RouteOK, Does, Kinds, Writing
<1>2. /\ pc'[s] = "post" /\ UNCHANGED <<lock, tx, month, state, dated>>
      /\ \A m \in Months : s \in share'[m] <=> (s \in share[m] \/ m = tx[s].m)
  BY DEF Shares, Go, TypeOK, database, periods, journals
<1> QED
  BY <1>0, <1>1, <1>2 DEF SessionOK, RouteOK, LocksHeld, MonthsHeld, DocumentOK,
     MonthOK, CloserOK, At, Does, Closers, Writing, Ahead

\* All that a session does leaves it in order.
LEMMA OwnStep ==
  ASSUME TypeOK, EntriesOK, NEW s \in Sessions, SessionOK(s), SessionStep(s)
  PROVE  SessionOK(s)'
<1>1. CASE LetGo(s)
  BY <1>1, EndedOK
<1>2. CASE BackToSavepoint(s) /\ Does(s, {"sale", "retry"})
  BY <1>2, BackOK
<1>3. CASE Request(s)
  BY <1>3, BegunOK
<1> SUFFICES ASSUME Statement(s), ~LetGo(s), ~(BackToSavepoint(s) /\ Does(s, {"sale", "retry"}))
             PROVE  SessionOK(s)'
  BY <1>1, <1>2, <1>3 DEF SessionStep, PostingFails, Abort, DetectDeadlock, Refuse, Guarded, Does
<1>4. CASE LockPosSale(s) \/ RetryPosting(s) \/ LockEntry(s) \/ OpenPosting(s)
  BY <1>4, DocumentTakenOK
<1>5. CASE AllocateNumber(s) \/ LoadPeriod(s) \/ LoadYear(s)
  BY <1>5, OtherTakenOK
<1>6. CASE \/ GetOpenPeriod(s) \/ PostEntry(s) \/ UpdateEntry(s) \/ CheckOthers(s) \/ CheckJournals(s)
           \/ CheckPostings(s) \/ ReadTrialBalance(s)
  BY <1>6, ReadOK
<1>7. CASE InsertEntry(s)
  BY <1>7, SharedOK DEF InsertEntry, Shares, Ready, database
<1>8. CASE RecordPostingFailure(s) \/ CommitEntry(s) \/ CommitReversal(s) \/ ClosePeriod(s)
           \/ LockPeriod(s) \/ ReopenPeriod(s) \/ CloseFinancialYear(s)
  BY <1>8 DEF RecordPostingFailure, CommitEntry, CommitReversal, ClosePeriod, LockPeriod, ReopenPeriod,
     CloseFinancialYear
<1> QED
  BY <1>4, <1>5, <1>6, <1>7, <1>8 DEF Statement

-----------------------------------------------------------------------------
(* What one session's step leaves of the others. *)

\* Where they are and what they hold.
LEMMA OthersStay ==
  ASSUME TypeOK, NEW s \in Sessions, SessionStep(s), NEW t \in Sessions \ {s}, SessionOK(t)
  PROVE  /\ pc'[t] = pc[t] /\ tx'[t] = tx[t]
         /\ RouteOK(t)' /\ LocksHeld(t)' /\ MonthsHeld(t)'
<1>1. pc'[t] = pc[t] /\ tx'[t] = tx[t]
  BY OthersWait DEF TypeOK
<1>2. /\ \A r \in Rows : lock'[r] = t <=> lock[r] = t
      /\ \A m \in Months : t \in share'[m] <=> t \in share[m]
  BY OthersKeep
<1>3. /\ \A x \in Sales : Sale(x) \in Rows
      /\ \A x \in Manual : Entry(x) \in Rows
      /\ \A m \in Months : Month(m) \in Rows
  BY RowsAre
<1>4. tx[t].m \in Months /\ tx[t].kind \in Kinds /\ (pc[t] = "idle" => tx[t].kind = "scan")
  BY Requested
<1>5. RouteOK(t)'
  BY <1>1 DEF SessionOK, RouteOK, At, Does
<1>6. LocksHeld(t)'
  BY <1>1, <1>2, <1>3, <1>4 DEF SessionOK, RouteOK, LocksHeld, At, Does
<1>7. MonthsHeld(t)'
  BY <1>1, <1>2, <1>3, <1>4 DEF SessionOK, MonthsHeld, At, Does
<1> QED
  BY <1>1, <1>5, <1>6, <1>7

\* Who holds a month, and who has an entry written into it.
Holds(s, m) == \/ Does(s, Closers) /\ pc[s] # "month" /\ tx[s].m = m
               \/ Does(s, {"year"}) /\ pc[s] # "year"
WritesInto(s, m) == Does(s, Writing) /\ pc[s] \in {"post", "commit"} /\ tx[s].m = m

\* A month has one holder, and none while an entry is written into it.
LEMMA HoldersApart ==
  ASSUME TypeOK, SharedNotHeld, NEW s \in Sessions, NEW t \in Sessions \ {s}, SessionOK(s), SessionOK(t),
         NEW m \in Months, Holds(s, m)
  PROVE  lock[Month(m)] = s /\ ~Holds(t, m) /\ ~WritesInto(t, m)
<1>0. s # Nobody /\ t # s
  BY ConstantsOK
<1>1. lock[Month(m)] = s
  BY DEF Holds, SessionOK, LocksHeld
<1>2. Holds(t, m) => lock[Month(m)] = t
  BY DEF Holds, SessionOK, LocksHeld
<1>3. WritesInto(t, m) => t \in share[m]
  BY DEF WritesInto, SessionOK, MonthsHeld
<1> QED
  BY <1>0, <1>1, <1>2, <1>3 DEF SharedNotHeld

\* The books of a month are the same when only one entry moved, and not in that month.
LEMMA BooksKept ==
  ASSUME NEW m, NEW e \in Entries, UNCHANGED closing,
         \A x \in Entries \ {e} : state'[x] = state[x] /\ dated'[x] = dated[x] /\ reversal'[x] = reversal[x],
         (Booked(e) /\ dated[e] = m) <=> (state'[e] \in {"posted", "reversed"} /\ dated'[e] = m),
         reversal[e] = m <=> reversal'[e] = m
  PROVE  Books(m)' = Books(m)
<1>1. \A y \in Entries : (Booked(y)' /\ dated'[y] = m) <=> (Booked(y) /\ dated[y] = m)
  BY DEF Booked
<1>2. \A y \in Entries : reversal'[y] = m <=> reversal[y] = m
  OBVIOUS
<1> QED
  BY <1>1, <1>2 DEF Books

\* Nothing pending comes into a month when only one entry moved, and not into that month.
LEMMA BlockingKept ==
  ASSUME NEW m, NEW e \in Entries, Blocking(m) = {},
         \A x \in Entries \ {e} : state'[x] = state[x] /\ dated'[x] = dated[x],
         state'[e] \notin Pending \/ dated'[e] # m
  PROVE  Blocking(m)' = {}
BY DEF Blocking, Entries

\* The year's result changes only when an entry is posted or reversed.
LEMMA ResultKept ==
  ASSUME \A x \in Entries : state'[x] = "posted" <=> state[x] = "posted"
  PROVE  Result' = Result
BY ConstantsOK DEF Result

\* A closer of another month loses nothing.
LEMMA CloserStays ==
  ASSUME NEW t, CloserOK(t), pc'[t] = pc[t], tx'[t] = tx[t], NEW m, m = tx[t].m,
         Does(t, {"close"}) /\ pc[t] \in {"balance", "commit"} /\ Blocking(m) = {} => Blocking(m)' = {},
         Does(t, {"close"}) /\ pc[t] = "commit" => Books(m)' = Books(m),
         Does(t, {"year"}) /\ pc[t] # "year" => Result' = Result /\ year' = year
  PROVE  CloserOK(t)'
<1>1. (Does(t, {"close"})' <=> Does(t, {"close"})) /\ (Does(t, {"year"})' <=> Does(t, {"year"}))
  BY DEF Does
<1>2. Blocking(tx[t].m)' = Blocking(m)' /\ Books(tx[t].m)' = Books(m)'
  BY DEF Blocking, Books
<1> QED
  BY <1>1, <1>2 DEF CloserOK

\* A draft written, or dated anew, is nobody else's, and comes into no month that is held.
LEMMA DraftBeside ==
  ASSUME Inv, NEW s \in Sessions, WritesDraft(s), NEW t \in Sessions \ {s}, pc'[t] = pc[t], tx'[t] = tx[t]
  PROVE  DocumentOK(t)' /\ MonthOK(t)' /\ CloserOK(t)'
<1>0. TypeOK /\ SessionOK(s) /\ SessionOK(t) /\ s # t /\ s # Nobody /\ t # Nobody
  BY ConstantsOK DEF Inv, SessionsOK
<1> DEFINE e == tx[s].e
           m == tx[s].m
           et == tx[t].e
           mt == tx[t].m
<1>1. /\ e \in Manual /\ e \in Entries /\ m \in Months /\ mt \in Months /\ et \in Entries
      /\ tx[t].kind \in Kinds /\ (pc[t] = "idle" => tx[t].kind = "scan")
      /\ pc[s] = "insert" /\ Blockers(s) = {}
  BY <1>0, Requested DEF WritesDraft, InsertEntry, Ready, At, SessionOK, RouteOK, Does
<1>2. /\ state' = [state EXCEPT ![e] = "draft"] /\ dated' = [dated EXCEPT ![e] = m]
      /\ UNCHANGED <<month, year, closing, reversal>>
  BY DEF WritesDraft, InsertEntry, periods
<1>3. \/ Does(s, {"draft"}) /\ state[e] = "absent"
      \/ Does(s, {"redate"}) /\ state[e] \in {"draft", "rejected"} /\ lock[Entry(e)] = s
  BY <1>0, <1>1 DEF WritesDraft, Does, SessionOK, DocumentOK, LocksHeld, Editable
<1>4. lock[Month(m)] # t \/ (dated[e] = m /\ state[e] \in Pending)
  <2>1. CASE Does(s, {"redate"}) /\ dated[e] = m
    BY <1>3, <2>1 DEF Does, Pending
  <2>2. CASE ~(Does(s, {"redate"}) /\ dated[e] = m)
    BY <1>0, <1>1, <2>2, RowsAre, Taking DEF Wanted
  <2> QED
    BY <2>1, <2>2
<1>5. Does(t, {"close"}) /\ pc[t] \in {"balance", "commit"} => mt # m
  <2> SUFFICES ASSUME Does(t, {"close"}), pc[t] \in {"balance", "commit"}, mt = m PROVE FALSE
    OBVIOUS
  <2>1. lock[Month(m)] = t
    BY <1>0 DEF SessionOK, LocksHeld, Does, Closers
  <2>2. Blocking(m) = {}
    BY <1>0 DEF SessionOK, CloserOK
  <2> QED
    BY <1>1, <1>4, <2>1, <2>2 DEF Blocking
<1>6. DocumentOK(t)'
  <2>1. Does(t, {"sale", "retry"}) => et \in Sales /\ et # e
    BY <1>0, <1>1, ConstantsOK DEF SessionOK, RouteOK, Does, At
  <2>2. Does(t, {"draft"}) => et # e
    <3>1. Does(t, {"draft"}) /\ Does(s, {"draft"}) => et # e
      BY <1>0 DEF Inv, DraftsApart
    <3>2. Does(t, {"draft"}) => state[et] = "absent"
      BY <1>0 DEF SessionOK, DocumentOK
    <3> QED
      BY <1>3, <3>1, <3>2
  <2>3. Does(t, {"redate"}) /\ pc[t] # "entry" => et # e
    <3>1. Does(t, {"redate"}) /\ pc[t] # "entry" => lock[Entry(et)] = t /\ state[et] # "absent"
      BY <1>0 DEF SessionOK, DocumentOK, LocksHeld, Does, Editable
    <3> QED
      BY <1>0, <1>3, <3>1
  <2>4. Does(t, {"post"}) => et # e
    BY <1>0, <1>3 DEF SessionOK, DocumentOK
  <2>5. Does(t, {"reverse"}) /\ pc[t] # "entry" => et # e
    BY <1>0, <1>3 DEF SessionOK, DocumentOK
  <2> QED
    BY <1>0, <1>1, <1>2, <2>1, <2>2, <2>3, <2>4, <2>5 DEF SessionOK, DocumentOK, Does, TypeOK
<1>7. MonthOK(t)'
  BY <1>0, <1>2 DEF SessionOK, MonthOK, Does, Closed
<1>8. CloserOK(t)'
  <2>1. PICK k \in Months : k = mt
    BY <1>1
  <2>2. \A x \in Entries \ {e} : state'[x] = state[x] /\ dated'[x] = dated[x] /\ reversal'[x] = reversal[x]
    BY <1>0, <1>2 DEF TypeOK
  <2>3. state'[e] = "draft" /\ dated'[e] = m /\ reversal'[e] = reversal[e]
    BY <1>0, <1>1, <1>2 DEF TypeOK
  <2>4. ~Booked(e)
    BY <1>3 DEF Booked
  <2>5. Books(k)' = Books(k)
    BY <1>1, <1>2, <2>2, <2>3, <2>4, BooksKept
  <2>6. Does(t, {"close"}) /\ pc[t] \in {"balance", "commit"} => k # m
    BY <1>5, <2>1
  <2>7. ASSUME Does(t, {"close"}), pc[t] \in {"balance", "commit"}, Blocking(k) = {}
        PROVE  Blocking(k)' = {}
    BY <1>1, <2>2, <2>3, <2>6, <2>7, BlockingKept
  <2>8. CloserOK(t)
    BY <1>0 DEF SessionOK
  <2>9. Result' = Result /\ year' = year
    BY <1>2, <2>2, <2>3, <2>4, ResultKept DEF Booked
  <2> QED
    BY <2>1, <2>5, <2>7, <2>8, <2>9, CloserStays
<1> QED
  BY <1>6, <1>7, <1>8

\* A step that leaves months and journals alone leaves every claim about them.
LEMMA NothingBeside ==
  ASSUME NEW t \in Sessions, SessionOK(t), pc'[t] = pc[t], tx'[t] = tx[t],
         UNCHANGED <<month, year, closing, state, dated, reversal>>
  PROVE  DocumentOK(t)' /\ MonthOK(t)' /\ CloserOK(t)'
<1>1. DocumentOK(t)'
  BY DEF SessionOK, DocumentOK, Does
<1>2. MonthOK(t)'
  BY DEF SessionOK, MonthOK, Does, Closed
<1>3. CloserOK(t)'
  BY DEF SessionOK, CloserOK, Does, Blocking, Books, Booked, Result
<1> QED
  BY <1>1, <1>2, <1>3

\* An entry is posted in a month that is not held, or that nobody has found free of journals.
LEMMA EntryBeside ==
  ASSUME Inv, NEW s \in Sessions, CommitEntry(s), NEW t \in Sessions \ {s}, pc'[t] = pc[t], tx'[t] = tx[t]
  PROVE  DocumentOK(t)' /\ MonthOK(t)' /\ CloserOK(t)'
<1>0. TypeOK /\ SessionOK(s) /\ SessionOK(t) /\ SharedNotHeld /\ s # t /\ s # Nobody /\ t # Nobody
  BY ConstantsOK DEF Inv, SessionsOK
<1> DEFINE e == tx[s].e
           m == tx[s].m
           et == tx[t].e
           mt == tx[t].m
<1>1. /\ e \in Entries /\ m \in Months /\ mt \in Months /\ et \in Entries
      /\ tx[t].kind \in Kinds /\ (pc[t] = "idle" => tx[t].kind = "scan")
      /\ pc[s] = "commit"
      /\ \/ Does(s, {"sale", "retry"}) /\ e \in Sales /\ m = SoldIn[e]
         \/ Does(s, {"post"}) /\ e \in Manual
  BY <1>0, Requested DEF CommitEntry, At, SessionOK, RouteOK, Does
<1>2. /\ state' = [state EXCEPT ![e] = "posted"] /\ UNCHANGED <<month, year, closing, dated, reversal>>
  BY DEF CommitEntry, periods
<1>3. /\ \/ Does(s, {"sale", "retry"}) /\ lock[Sale(e)] = s /\ state[e] = "absent"
         \/ Does(s, {"post"}) /\ state[e] = "approved" /\ lock[Entry(e)] = s
      /\ dated[e] = m
  BY <1>0, <1>1 DEF Does, SessionOK, DocumentOK, LocksHeld, Ahead, Inv, EntriesOK
<1>4. DocumentOK(t)'
  <2>1. Does(t, {"sale", "retry"}) /\ pc[t] \notin Ahead => et # e
    <3>1. Does(t, {"sale", "retry"}) => et \in Sales
      BY <1>0, <1>1 DEF SessionOK, RouteOK, Does, At
    <3>2. Does(t, {"sale", "retry"}) /\ pc[t] \notin Ahead => lock[Sale(et)] = t
      BY <1>0 DEF SessionOK, LocksHeld
    <3> QED
      BY <1>0, <1>1, <1>3, <3>1, <3>2, ConstantsOK DEF Does
  <2>2. Does(t, {"draft"}) => et # e
    <3>1. Does(t, {"draft"}) => state[et] = "absent" /\ et \in Manual
      BY <1>0 DEF SessionOK, DocumentOK, RouteOK, Does
    <3> QED
      BY <1>1, <1>3, <3>1, ConstantsOK DEF Does
  <2>3. Does(t, {"redate", "post", "reverse"}) /\ pc[t] # "entry" => et # e
    <3>1. Does(t, {"redate", "post", "reverse"}) /\ pc[t] # "entry" => lock[Entry(et)] = t /\ et \in Manual
      BY <1>0 DEF SessionOK, LocksHeld, RouteOK, Does
    <3> QED
      BY <1>0, <1>1, <1>3, <3>1, ConstantsOK DEF Does
  <2> QED
    BY <1>0, <1>1, <1>2, <2>1, <2>2, <2>3 DEF SessionOK, DocumentOK, Does, TypeOK
<1>5. MonthOK(t)'
  BY <1>0, <1>2 DEF SessionOK, MonthOK, Does, Closed
<1>6. CloserOK(t)'
  <2>1. PICK k \in Months : k = mt
    BY <1>1
  <2>2. \A x \in Entries \ {e} : state'[x] = state[x] /\ dated'[x] = dated[x] /\ reversal'[x] = reversal[x]
    BY <1>0, <1>2 DEF TypeOK
  <2>3. state'[e] = "posted" /\ dated'[e] = m /\ reversal'[e] = reversal[e]
    BY <1>0, <1>1, <1>2, <1>3 DEF TypeOK
  <2>4. ASSUME Does(t, {"close"}), pc[t] \in {"balance", "commit"} PROVE k # m
    <3>1. CASE Does(s, {"sale", "retry"})
      <4>1. WritesInto(s, m) /\ Holds(t, mt)
        BY <1>1, <2>4, <3>1 DEF WritesInto, Holds, Does, Writing, Closers
      <4> QED
        BY <1>0, <1>1, <2>1, <4>1, HoldersApart
    <3>2. CASE Does(s, {"post"})
      <4>1. e \in Blocking(m)
        BY <1>1, <1>3, <3>2, ConstantsOK DEF Blocking, Pending, Does
      <4>2. Blocking(mt) = {}
        BY <1>0, <2>4 DEF SessionOK, CloserOK
      <4> QED
        BY <2>1, <4>1, <4>2
    <3> QED
      BY <1>1, <3>1, <3>2
  <2>5. Does(t, {"close"}) /\ pc[t] = "commit" => Books(k)' = Books(k)
    BY <1>1, <1>2, <1>3, <2>2, <2>3, <2>4, BooksKept
  <2>6. ASSUME Does(t, {"close"}), pc[t] \in {"balance", "commit"}, Blocking(k) = {}
        PROVE  Blocking(k)' = {}
    BY <1>1, <2>2, <2>3, <2>6, BlockingKept DEF Pending
  <2>7. CloserOK(t)
    BY <1>0 DEF SessionOK
  <2>8. ~(Does(t, {"year"}) /\ pc[t] # "year")
    BY <1>0, <1>1 DEF SessionOK, MonthOK, Does, Writing, Closed
  <2> QED
    BY <2>1, <2>5, <2>6, <2>7, <2>8, CloserStays
<1> QED
  BY <1>4, <1>5, <1>6

\* An entry is reversed in a month that is not held.
LEMMA ReversalBeside ==
  ASSUME Inv, NEW s \in Sessions, CommitReversal(s), NEW t \in Sessions \ {s}, pc'[t] = pc[t], tx'[t] = tx[t]
  PROVE  DocumentOK(t)' /\ MonthOK(t)' /\ CloserOK(t)'
<1>0. TypeOK /\ SessionOK(s) /\ SessionOK(t) /\ SharedNotHeld /\ s # t /\ s # Nobody /\ t # Nobody
  BY ConstantsOK DEF Inv, SessionsOK
<1> DEFINE e == tx[s].e
           m == tx[s].m
           et == tx[t].e
           mt == tx[t].m
<1>1. /\ e \in Entries /\ e \in Manual /\ m \in Months /\ mt \in Months /\ et \in Entries
      /\ tx[t].kind \in Kinds /\ (pc[t] = "idle" => tx[t].kind = "scan")
      /\ pc[s] = "commit" /\ Does(s, {"reverse"})
  BY <1>0, Requested DEF CommitReversal, At, SessionOK, RouteOK, Does
<1>2. /\ state' = [state EXCEPT ![e] = "reversed"] /\ reversal' = [reversal EXCEPT ![e] = m]
      /\ UNCHANGED <<month, year, closing, dated>>
  BY DEF CommitReversal, periods
<1>3. state[e] = "posted" /\ lock[Entry(e)] = s /\ reversal[e] = 0
  BY <1>0, <1>1 DEF Does, SessionOK, DocumentOK, LocksHeld, Inv, EntriesOK
<1>4. DocumentOK(t)'
  <2>1. Does(t, {"sale", "retry"}) => et # e
    BY <1>0, <1>1, ConstantsOK DEF SessionOK, RouteOK, Does, At
  <2>2. Does(t, {"draft"}) => et # e
    BY <1>0, <1>3 DEF SessionOK, DocumentOK
  <2>3. Does(t, {"redate", "post", "reverse"}) /\ pc[t] # "entry" => et # e
    <3>1. Does(t, {"redate", "post", "reverse"}) /\ pc[t] # "entry" => lock[Entry(et)] = t
      BY <1>0 DEF SessionOK, LocksHeld
    <3> QED
      BY <1>0, <1>3, <3>1
  <2> QED
    BY <1>0, <1>1, <1>2, <2>1, <2>2, <2>3 DEF SessionOK, DocumentOK, Does, TypeOK
<1>5. MonthOK(t)'
  BY <1>0, <1>2 DEF SessionOK, MonthOK, Does, Closed
<1>6. CloserOK(t)'
  <2>1. PICK k \in Months : k = mt
    BY <1>1
  <2>2. \A x \in Entries \ {e} : state'[x] = state[x] /\ dated'[x] = dated[x] /\ reversal'[x] = reversal[x]
    BY <1>0, <1>2 DEF TypeOK
  <2>3. state'[e] = "reversed" /\ dated'[e] = dated[e] /\ reversal'[e] = m /\ Booked(e)
    BY <1>0, <1>1, <1>2, <1>3 DEF TypeOK, Booked
  <2>4. ASSUME Does(t, {"close"}), pc[t] \in {"balance", "commit"} PROVE k # m
    <3>1. WritesInto(s, m) /\ Holds(t, mt)
      BY <1>1, <2>4 DEF WritesInto, Holds, Does, Writing, Closers
    <3> QED
      BY <1>0, <1>1, <2>1, <3>1, HoldersApart
  <2>5. k # 0
    BY ConstantsOK DEF Months
  <2>6. Does(t, {"close"}) /\ pc[t] = "commit" => Books(k)' = Books(k)
    BY <1>1, <1>2, <1>3, <2>2, <2>3, <2>4, <2>5, BooksKept
  <2>7. ASSUME Does(t, {"close"}), pc[t] \in {"balance", "commit"}, Blocking(k) = {}
        PROVE  Blocking(k)' = {}
    BY <1>1, <2>2, <2>3, <2>7, BlockingKept DEF Pending
  <2>8. CloserOK(t)
    BY <1>0 DEF SessionOK
  <2>9. ~(Does(t, {"year"}) /\ pc[t] # "year")
    BY <1>0, <1>1 DEF SessionOK, MonthOK, Does, Writing, Closed
  <2> QED
    BY <2>1, <2>6, <2>7, <2>8, <2>9, CloserStays
<1> QED
  BY <1>4, <1>5, <1>6

\* A month moves only under its holder, and no other request has relied on it.
LEMMA MonthBeside ==
  ASSUME Inv, NEW s \in Sessions, ClosePeriod(s) \/ LockPeriod(s) \/ ReopenPeriod(s) \/ CloseFinancialYear(s),
         NEW t \in Sessions \ {s}, pc'[t] = pc[t], tx'[t] = tx[t]
  PROVE  DocumentOK(t)' /\ MonthOK(t)' /\ CloserOK(t)'
<1>0. TypeOK /\ SessionOK(s) /\ SessionOK(t) /\ SharedNotHeld /\ s # t /\ s # Nobody /\ t # Nobody
  BY ConstantsOK DEF Inv, SessionsOK
<1> DEFINE m == tx[s].m
           mt == tx[t].m
<1>1. /\ m \in Months /\ mt \in Months /\ tx[t].e \in Entries /\ tx[t].kind \in Kinds /\ pc[s] = "commit"
      /\ UNCHANGED <<state, dated, reversal>>
  BY <1>0, Requested DEF ClosePeriod, LockPeriod, ReopenPeriod, CloseFinancialYear, journals, At
<1>2. DocumentOK(t)'
  BY <1>0, <1>1 DEF SessionOK, DocumentOK, Does
<1>3. UNCHANGED <<year, closing>> => CloserOK(t)'
  BY <1>0, <1>1 DEF SessionOK, CloserOK, Does, Blocking, Books, Booked, Result
<1>4. Holds(t, mt) \/ WritesInto(t, mt) => ~Holds(s, mt)
  BY <1>0, <1>1, HoldersApart
<1>5. Does(t, {"year"}) /\ pc[t] # "year" => ~Holds(s, m)
  BY <1>0, <1>1, HoldersApart DEF Holds
<1>6. CASE ClosePeriod(s) \/ LockPeriod(s) \/ ReopenPeriod(s)
  <2>1. Holds(s, m) /\ (Does(s, {"close"}) \/ Does(s, {"lock"}) \/ Does(s, {"reopen"}))
    BY <1>1, <1>6 DEF ClosePeriod, LockPeriod, ReopenPeriod, Holds, Does, Closers
  <2>2. Holds(t, mt) \/ WritesInto(t, mt) => mt # m
    BY <1>4, <2>1
  <2>3. ~(Does(t, {"year"}) /\ pc[t] # "year")
    BY <1>5, <2>1
  <2>4. \A k \in Months \ {m} : month'[k] = month[k]
    BY <1>0, <1>6 DEF ClosePeriod, LockPeriod, ReopenPeriod, TypeOK
  <2>5. Does(t, {"post"}) /\ pc[t] = "commit" => month'[mt] \notin {"closed", "locked"}
    <3> SUFFICES ASSUME Does(t, {"post"}), pc[t] = "commit" PROVE month'[mt] \notin {"closed", "locked"}
      OBVIOUS
    <3>1. month[mt] \notin {"closed", "locked"}
      BY <1>0 DEF SessionOK, MonthOK, Closed
    <3>2. tx[t].e \in Blocking(mt)
      BY <1>0 DEF SessionOK, DocumentOK, RouteOK, Does, Blocking, Pending
    <3>3. CASE ClosePeriod(s)
      <4>1. Blocking(m) = {}
        BY <1>0, <3>3 DEF ClosePeriod, SessionOK, CloserOK, Does, At
      <4>2. mt # m
        BY <3>2, <4>1
      <4> QED
        BY <1>1, <2>4, <3>1, <4>2
    <3>4. CASE LockPeriod(s)
      <4>1. month[m] = "closed"
        BY <1>0, <3>4 DEF LockPeriod, SessionOK, MonthOK, Does, At
      <4> QED
        BY <1>1, <2>4, <3>1, <4>1
    <3>5. CASE ReopenPeriod(s)
      <4>1. month'[m] = "open"
        BY <1>0, <1>1, <3>5 DEF ReopenPeriod, TypeOK
      <4> QED
        BY <1>1, <2>4, <3>1, <4>1
    <3> QED
      BY <1>6, <3>3, <3>4, <3>5
  <2>6. MonthOK(t)
    BY <1>0 DEF SessionOK
  <2> HIDE DEF m, mt
  <2>7. mt = tx[t].m
    BY DEF mt
  <2>8. /\ Does(t, Closers) /\ pc[t] # "month" => month'[mt] = month[mt]
        /\ Does(t, Writing) /\ pc[t] = "commit" => month'[mt] = month[mt]
    BY <1>1, <2>2, <2>4, <2>7 DEF Holds, WritesInto
  <2>9. MonthOK(t)'
    BY <2>3, <2>5, <2>6, <2>7, <2>8 DEF MonthOK, Closed, Does, Closers
  <2>10. UNCHANGED <<year, closing>>
    BY <1>6 DEF ClosePeriod, LockPeriod, ReopenPeriod
  <2> QED
    BY <1>2, <1>3, <2>9, <2>10
<1>7. CASE CloseFinancialYear(s)
  <2>1. Does(s, {"year"}) /\ pc[s] # "year" /\ \A k \in Months : month'[k] = "locked" /\ Holds(s, k)
    BY <1>1, <1>7 DEF CloseFinancialYear, Holds
  <2>2. ~Holds(t, mt) /\ ~WritesInto(t, mt)
    BY <1>0, <1>1, <2>1, HoldersApart
  <2>3. Does(t, {"post"}) => pc[t] # "commit"
    BY <1>0, <1>1, <2>1 DEF SessionOK, MonthOK
  <2>4. MonthOK(t)'
    BY <2>1, <2>2, <2>3 DEF MonthOK, Holds, WritesInto, Does, Closers, Writing, Closed
  <2>5. CloserOK(t)'
    BY <2>2 DEF CloserOK, Holds, Does, Closers
  <2> QED
    BY <1>2, <2>4, <2>5
<1> QED
  BY <1>6, <1>7

\* One session's step leaves every other one in order.
LEMMA OthersStep ==
  ASSUME Inv, NEW s \in Sessions, SessionStep(s), NEW t \in Sessions \ {s}
  PROVE  SessionOK(t)'
<1>0. TypeOK /\ SessionOK(t)
  BY DEF Inv, SessionsOK
<1>1. /\ pc'[t] = pc[t] /\ tx'[t] = tx[t]
      /\ RouteOK(t)' /\ LocksHeld(t)' /\ MonthsHeld(t)'
  BY <1>0, OthersStay
<1>2. DocumentOK(t)' /\ MonthOK(t)' /\ CloserOK(t)'
  <2>1. CASE UNCHANGED database \/ RecordPostingFailure(s)
    <3>1. UNCHANGED <<month, year, closing, state, dated, reversal>>
      BY <2>1 DEF database, periods, journals, RecordPostingFailure
    <3> QED
      BY <1>0, <1>1, <3>1, NothingBeside
  <2>2. CASE WritesDraft(s)
    BY <1>1, <2>2, DraftBeside
  <2>3. CASE CommitEntry(s)
    BY <1>1, <2>3, EntryBeside
  <2>4. CASE CommitReversal(s)
    BY <1>1, <2>4, ReversalBeside
  <2>5. CASE ClosePeriod(s) \/ LockPeriod(s) \/ ReopenPeriod(s) \/ CloseFinancialYear(s)
    BY <1>1, <2>5, MonthBeside
  <2> QED
    BY <2>1, <2>2, <2>3, <2>4, <2>5, DataMoves
<1> QED
  BY <1>1, <1>2 DEF SessionOK

\* A statement that waits for one row finds nobody relying on it.
LEMMA OutsideBeside ==
  ASSUME Inv, OutsideStep, NEW t \in Sessions
  PROVE  SessionOK(t)'
<1>0. TypeOK /\ SessionOK(t) /\ t # Nobody
  BY ConstantsOK DEF Inv, SessionsOK
<1>1. UNCHANGED <<year, closing, lock, share, pc, tx>>
  BY <1>0, Passes DEF OutsideStep, DismissPosting, StartPeriodReview, ReturnPeriodToOpen, locks, periods
<1>2. RouteOK(t)' /\ LocksHeld(t)' /\ MonthsHeld(t)'
  BY <1>0, <1>1 DEF SessionOK, RouteOK, LocksHeld, MonthsHeld, At, Does
<1>3. tx[t].m \in Months /\ tx[t].e \in Entries
  BY <1>0, Requested
<1>4. CASE \E x \in Manual : PassStep(x)
  <2>1. PICK x \in Manual : PassStep(x)
    BY <1>4
  <2>2. /\ state[x] \in {"draft", "pending_approval", "rejected"} /\ lock[Entry(x)] = Nobody /\ x \in Entries
        /\ UNCHANGED <<month, dated, reversal>>
        /\ \A y \in Entries \ {x} : state'[y] = state[y]
        /\ state'[x] \in {"draft", "pending_approval", "rejected", "approved", "cancelled"}
    BY <1>0, <2>1, Passes DEF Pending
  <2>3. DocumentOK(t)'
    <3>1. Does(t, {"sale", "retry"}) /\ pc[t] \notin Ahead => state'[tx[t].e] # "posted"
      BY <1>0, <1>3, <2>2 DEF SessionOK, DocumentOK
    <3>2. Does(t, {"draft"}) \/ Does(t, {"post"}) => tx[t].e # x
      BY <1>0, <2>2 DEF SessionOK, DocumentOK
    <3>3. Does(t, {"redate", "post", "reverse"}) /\ pc[t] # "entry" => tx[t].e # x
      BY <1>0, <2>2 DEF SessionOK, LocksHeld
    <3> QED
      BY <1>0, <1>1, <1>3, <2>2, <3>1, <3>2, <3>3 DEF SessionOK, DocumentOK, Does
  <2>4. MonthOK(t)'
    BY <1>0, <1>1, <2>2 DEF SessionOK, MonthOK, Does, Closed
  <2>5. CloserOK(t)'
    <3>1. PICK k \in Months : k = tx[t].m
      BY <1>3
    <3>2. Books(k)' = Books(k)
      BY <1>1, <2>2, BooksKept DEF Booked
    <3>3. ASSUME Blocking(k) = {} PROVE Blocking(k)' = {}
      <4>1. dated[x] # k
        BY <2>2, <3>3 DEF Blocking, Pending
      <4> QED
        BY <2>2, <3>3, <4>1, BlockingKept
    <3>4. CloserOK(t)
      BY <1>0 DEF SessionOK
    <3>5. Result' = Result /\ year' = year
      BY <1>1, <2>2, ResultKept
    <3> QED
      BY <1>1, <3>1, <3>2, <3>3, <3>4, <3>5, CloserStays
  <2> QED
    BY <1>2, <2>3, <2>4, <2>5 DEF SessionOK
<1>5. CASE \E x \in Sales : DismissPosting(x)
  <2>1. UNCHANGED <<month, year, closing, state, dated, reversal>>
    BY <1>5 DEF DismissPosting, periods, journals
  <2> QED
    BY <1>0, <1>1, <1>2, <2>1, NothingBeside DEF SessionOK
<1>6. CASE \E m \in Months : StartPeriodReview(m) \/ ReturnPeriodToOpen(m)
  <2>1. PICK m \in Months : StartPeriodReview(m) \/ ReturnPeriodToOpen(m)
    BY <1>6
  <2>2. /\ lock[Month(m)] = Nobody /\ share[m] = {}
        /\ UNCHANGED <<state, dated, reversal>>
        /\ \A k \in Months \ {m} : month'[k] = month[k]
        /\ month'[m] \in {"review", "open"}
    BY <1>0, <2>1 DEF StartPeriodReview, ReturnPeriodToOpen, Unheld, journals, TypeOK
  <2>3. DocumentOK(t)'
    BY <1>0, <1>1, <2>2 DEF SessionOK, DocumentOK, Does
  <2>4. CloserOK(t)'
    BY <1>0, <1>1, <2>2 DEF SessionOK, CloserOK, Does, Blocking, Books, Booked, Result
  <2>5. /\ Does(t, Closers) /\ pc[t] # "month" => tx[t].m # m
        /\ ~(Does(t, {"year"}) /\ pc[t] # "year")
        /\ Does(t, Writing) /\ pc[t] = "commit" => tx[t].m # m
    BY <1>0, <1>3, <2>2 DEF SessionOK, LocksHeld, MonthsHeld
  <2>6. MonthOK(t)'
    BY <1>0, <1>1, <1>3, <2>2, <2>5 DEF SessionOK, MonthOK, Does, Closers, Closed
  <2> QED
    BY <1>2, <2>3, <2>4, <2>6 DEF SessionOK
<1> QED
  BY <1>4, <1>5, <1>6 DEF OutsideStep

-----------------------------------------------------------------------------
(* The parts of the invariant about the whole. *)

\* A month is shared only while nobody holds it, and taken only while nobody shares it.
LEMMA SharedStep ==
  ASSUME Inv, NEW s \in Sessions, SessionStep(s)
  PROVE  SharedNotHeld'
<1>0. TypeOK /\ SessionOK(s) /\ SharedNotHeld /\ s # Nobody /\ tx[s].m \in Months
  BY ConstantsOK, Requested DEF Inv, SessionsOK
<1> SUFFICES ASSUME NEW m \in Months PROVE share'[m] = {} \/ lock'[Month(m)] = Nobody
  BY DEF SharedNotHeld
<1>1. Month(m) \in Rows /\ (share[m] = {} \/ lock[Month(m)] = Nobody)
  BY <1>0, RowsAre DEF SharedNotHeld
<1>2. CASE UNCHANGED locks
  BY <1>1, <1>2 DEF locks
<1>3. CASE LetGo(s)
  BY <1>1, <1>3 DEF LetGo
<1>4. CASE BackToSavepoint(s)
  <2>1. lock' = [r \in Rows |-> IF lock[r] = s /\ r \in (IF Does(s, {"retry"}) THEN {Numbers} ELSE {Numbers, Posting(tx[s].e)})
                                THEN Nobody ELSE lock[r]]
    BY <1>4 DEF BackToSavepoint
  <2>2. share' = [k \in Months |-> share[k] \ {s}]
    BY <1>4 DEF BackToSavepoint
  <2> QED
    BY <1>1, <2>1, <2>2
<1>5. CASE Shares(s)
  <2>1. lock[Month(tx[s].m)] \in {Nobody, s} /\ tx[s].kind \in Kinds
    BY <1>0, <1>5, Taking, Requested DEF Shares, Wanted, At, Does
  <2>2. lock[Month(tx[s].m)] # s
    BY <1>0, <1>5 DEF SessionOK, RouteOK, MonthsHeld, Shares, Does, Closers, At
  <2>3. lock' = lock /\ share' = [share EXCEPT ![tx[s].m] = @ \cup {s}]
    BY <1>5 DEF Shares
  <2>4. m # tx[s].m => share'[m] = share[m]
    BY <1>0, <2>3 DEF TypeOK
  <2> QED
    BY <1>1, <2>1, <2>2, <2>3, <2>4
<1>6. CASE Takes(s)
  <2>1. share' = share /\ Blockers(s) = {} /\ Take(s)
    BY <1>6 DEF Takes
  <2>2. CASE Month(m) \notin Wanted(s)
    BY <1>1, <2>1, <2>2 DEF Take
  <2>3. CASE Month(m) \in Wanted(s)
    <3>1. \/ pc[s] = "insert"
          \/ pc[s] = "month" /\ Writers(s) = share[m]
          \/ pc[s] = "year" /\ share[m] \subseteq Writers(s)
      BY <2>3, MonthsApart DEF Wanted, Writers
    <3>2. pc[s] # "insert"
      BY <1>6 DEF Takes, At
    <3>3. s \notin share[m]
      BY <1>0, <3>1, <3>2 DEF SessionOK, MonthsHeld
    <3>4. share[m] \subseteq {Nobody, s}
      BY <2>1, <3>1, <3>2 DEF Blockers
    <3>5. share[m] = {}
      BY <1>0, <3>3, <3>4, ConstantsOK DEF TypeOK
    <3> QED
      BY <2>1, <3>5
  <2> QED
    BY <2>2, <2>3
<1> QED
  BY <1>2, <1>3, <1>4, <1>5, <1>6, LockMoves

\* A draft is begun for a journal that no other request is about to write.
LEMMA DraftsStep ==
  ASSUME Inv, NEW s \in Sessions, SessionStep(s)
  PROVE  DraftsApart'
<1>0. TypeOK /\ SessionOK(s) /\ DraftsApart
  BY DEF Inv, SessionsOK
<1>1. \A t \in Sessions \ {s} : tx'[t] = tx[t]
  BY <1>0, OthersWait DEF TypeOK
<1>2. \/ tx'[s].kind # "draft"
      \/ tx'[s].kind = tx[s].kind /\ tx'[s].e = tx[s].e
      \/ \A t \in Sessions : Does(t, {"draft"}) => tx[t].e # tx'[s].e
  <2>1. ASSUME UNCHANGED tx \/ LetGo(s)
        PROVE  tx'[s].kind # "draft" \/ (tx'[s].kind = tx[s].kind /\ tx'[s].e = tx[s].e)
    <3>1. CASE UNCHANGED tx
      BY <3>1
    <3>2. CASE LetGo(s)
      <4>1. tx'[s] = Idle
        BY <1>0, <3>2 DEF LetGo, TypeOK
      <4> QED
        BY <4>1, IdleTyped
    <3> QED
      BY <2>1, <3>1, <3>2
  <2>2. CASE BeginDraft(s)
    <3>1. PICK x \in Manual, m \in Months : /\ \A t \in Sessions : Does(t, {"draft"}) => tx[t].e # x
                                           /\ Begin(s, "draft", "period", x, m)
      BY <2>2 DEF BeginDraft
    <3>2. tx'[s].e = x
      BY <1>0, <3>1, IdleTyped DEF Begin, TypeOK, Transactions
    <3> QED
      BY <3>1, <3>2
  <2>3. CASE Request(s) /\ ~BeginDraft(s)
    <3>1. ASSUME NEW kind, NEW where, NEW x, NEW m, Begin(s, kind, where, x, m) PROVE tx'[s].kind = kind
      BY <1>0, <3>1, IdleTyped DEF Begin, TypeOK, Transactions
    <3> QED
      BY <2>3, <3>1 DEF Request, BeginSale, BeginRetry, BeginScan, BeginRedate, BeginPost, BeginReverse,
         BeginMonth, BeginYear
  <2>4. CASE ReadTrialBalance(s) \/ LoadYear(s)
    BY <1>0, <2>1, <2>4 DEF ReadTrialBalance, LoadYear, Refuse, TypeOK
  <2>5. CASE \/ GetOpenPeriod(s) \/ PostEntry(s) \/ UpdateEntry(s) \/ CheckOthers(s) \/ CheckJournals(s)
             \/ CheckPostings(s) \/ InsertEntry(s)
    BY <2>1, <2>5 DEF GetOpenPeriod, PostEntry, UpdateEntry, CheckOthers, CheckJournals, CheckPostings,
       InsertEntry, Refuse, BackToSavepoint
  <2>6. CASE LockPosSale(s) \/ RetryPosting(s) \/ LockEntry(s) \/ OpenPosting(s) \/ AllocateNumber(s)
             \/ LoadPeriod(s)
    BY <2>1, <2>6 DEF LockPosSale, RetryPosting, LockEntry, OpenPosting, AllocateNumber, LoadPeriod, Refuse
  <2>7. CASE RecordPostingFailure(s) \/ CommitEntry(s) \/ CommitReversal(s) \/ ClosePeriod(s)
             \/ LockPeriod(s) \/ ReopenPeriod(s) \/ CloseFinancialYear(s)
    BY <2>1, <2>7 DEF RecordPostingFailure, CommitEntry, CommitReversal, ClosePeriod, LockPeriod, ReopenPeriod,
       CloseFinancialYear
  <2>8. CASE PostingFails(s) \/ Abort(s) \/ DetectDeadlock(s)
    BY <2>1, <2>8 DEF PostingFails, Abort, DetectDeadlock, Refuse, BackToSavepoint
  <2> QED
    BY <2>2, <2>3, <2>4, <2>5, <2>6, <2>7, <2>8 DEF SessionStep, Statement
<1> QED
  BY <1>0, <1>1, <1>2 DEF DraftsApart, Does

\* What is moved of one entry, and of one sale's posting, by each step that moves any.
LEMMA EntriesStep ==
  ASSUME Inv, NEW s \in Sessions, SessionStep(s)
  PROVE  EntriesOK' /\ PostingFollowsJournal'
<1>0. /\ TypeOK /\ SessionOK(s) /\ EntriesOK /\ PostingFollowsJournal
      /\ tx[s].e \in Entries /\ tx[s].m \in Months /\ 0 \notin Months
      /\ (pc[s] = "idle" => tx[s].kind = "scan")
  BY ConstantsOK, Requested DEF Inv, SessionsOK, Months
<1> DEFINE e == tx[s].e
<1>1. CASE UNCHANGED database \/ ClosePeriod(s) \/ LockPeriod(s) \/ ReopenPeriod(s) \/ CloseFinancialYear(s)
  <2>1. UNCHANGED <<state, dated, reversal, posting>>
    BY <1>1 DEF database, journals, ClosePeriod, LockPeriod, ReopenPeriod, CloseFinancialYear
  <2> QED
    BY <1>0, <2>1 DEF EntriesOK, PostingFollowsJournal
<1>2. CASE RecordPostingFailure(s)
  <2>1. UNCHANGED <<state, dated, reversal>>
        /\ posting' = [posting EXCEPT ![e] = IF @ = "POSTED" THEN @ ELSE "FAILED"]
    BY <1>2 DEF RecordPostingFailure, journals
  <2> QED
    BY <1>0, <2>1 DEF EntriesOK, PostingFollowsJournal, TypeOK
<1>3. CASE WritesDraft(s)
  <2>1. /\ e \in Manual /\ state[e] \in {"absent", "draft", "rejected"}
        /\ state' = [state EXCEPT ![e] = "draft"] /\ dated' = [dated EXCEPT ![e] = tx[s].m]
        /\ UNCHANGED <<reversal, posting>>
    BY <1>0, <1>3 DEF WritesDraft, InsertEntry, Ready, At, SessionOK, RouteOK, DocumentOK, Does, Editable
  <2>2. e \notin Sales
    BY <2>1, ConstantsOK
  <2> QED
    BY <1>0, <2>1, <2>2 DEF EntriesOK, PostingFollowsJournal, TypeOK, Entries
<1>4. CASE CommitEntry(s)
  <2>1. /\ state' = [state EXCEPT ![e] = "posted"] /\ UNCHANGED <<dated, reversal>>
        /\ posting' = IF Does(s, {"post"}) THEN posting ELSE [posting EXCEPT ![e] = "POSTED"]
    BY <1>4 DEF CommitEntry
  <2>2. \/ Does(s, {"post"}) /\ e \in Manual /\ state[e] = "approved"
        \/ ~Does(s, {"post"}) /\ e \in Sales /\ state[e] = "absent"
    BY <1>0, <1>4 DEF CommitEntry, At, SessionOK, RouteOK, DocumentOK, Does, Ahead, EntriesOK
  <2>3. EntriesOK'
    BY <1>0, <2>1, <2>2 DEF EntriesOK, TypeOK
  <2>4. PostingFollowsJournal'
    BY <1>0, <2>1, <2>2, ConstantsOK DEF PostingFollowsJournal, TypeOK, Entries
  <2> QED
    BY <2>3, <2>4
<1>5. CASE CommitReversal(s)
  <2>1. /\ state' = [state EXCEPT ![e] = "reversed"] /\ reversal' = [reversal EXCEPT ![e] = tx[s].m]
        /\ UNCHANGED <<dated, posting>> /\ e \in Manual
    BY <1>0, <1>5 DEF CommitReversal, SessionOK, RouteOK, Does
  <2>2. e \notin Sales
    BY <2>1, ConstantsOK
  <2>3. \A x \in Entries \ {e} : state'[x] = state[x] /\ reversal'[x] = reversal[x]
    BY <1>0, <2>1 DEF TypeOK
  <2>4. state'[e] = "reversed" /\ reversal'[e] # 0
    BY <1>0, <2>1 DEF TypeOK
  <2>5. \A x \in Sales : x \in Entries \ {e}
    BY <2>2 DEF Entries
  <2> QED
    BY <1>0, <2>1, <2>3, <2>4, <2>5 DEF EntriesOK, PostingFollowsJournal
<1> QED
  BY <1>1, <1>2, <1>3, <1>4, <1>5, DataMoves

\* The one month that a step closes is the one its session has read to the end.
LEMMA WhoCloses ==
  ASSUME Inv, NEW s \in Sessions, SessionStep(s), NEW m \in Months, ~Closed(m), Closed(m)'
  PROVE  /\ ClosePeriod(s) /\ m = tx[s].m
         /\ Blocking(m) = {} /\ tx[s].seen = Books(m) /\ snapshot'[m] = tx[s].seen
         /\ UNCHANGED <<closing, state, dated, reversal>>
<1>0. TypeOK /\ SessionOK(s) /\ tx[s].m \in Months
  BY Requested DEF Inv, SessionsOK
<1>1. month'[m] # month[m]
  BY DEF Closed
<1>2. CASE \/ UNCHANGED database \/ WritesDraft(s) \/ RecordPostingFailure(s) \/ CommitEntry(s)
           \/ CommitReversal(s)
  BY <1>1, <1>2 DEF database, periods, WritesDraft, InsertEntry, RecordPostingFailure, CommitEntry, CommitReversal
<1>3. CASE LockPeriod(s)
  <2>1. month[tx[s].m] = "closed" /\ month' = [month EXCEPT ![tx[s].m] = "locked"]
    BY <1>0, <1>3 DEF LockPeriod, SessionOK, MonthOK, At, Does
  <2> QED
    BY <1>0, <1>1, <2>1 DEF TypeOK, Closed
<1>4. CASE ReopenPeriod(s)
  BY <1>0, <1>1, <1>4 DEF ReopenPeriod, TypeOK, Closed
<1>5. CASE CloseFinancialYear(s)
  BY <1>0, <1>5 DEF CloseFinancialYear, SessionOK, MonthOK, At
<1>6. CASE ClosePeriod(s)
  <2>1. m = tx[s].m
    BY <1>0, <1>1, <1>6 DEF ClosePeriod, TypeOK
  <2>2. Blocking(m) = {} /\ tx[s].seen = Books(m)
    BY <1>0, <1>6, <2>1 DEF ClosePeriod, SessionOK, CloserOK, At, Does
  <2>3. snapshot'[m] = tx[s].seen
    BY <1>0, <1>6, <2>1 DEF ClosePeriod, TypeOK
  <2> QED
    BY <1>6, <2>1, <2>2, <2>3 DEF ClosePeriod, journals
<1> QED
  BY <1>2, <1>3, <1>4, <1>5, <1>6, DataMoves

\* The statements of a month that stays closed do not change, until the year is closed.
LEMMA ClosedKept ==
  ASSUME Inv, NEW s \in Sessions, SessionStep(s), ~CloseFinancialYear(s), NEW m \in Months, Closed(m)
  PROVE  UNCHANGED closing /\ Books(m)' = Books(m) /\ snapshot'[m] = snapshot[m]
<1>0. /\ TypeOK /\ SessionOK(s) /\ EntriesOK /\ tx[s].m \in Months /\ tx[s].e \in Entries /\ 0 \notin Months
      /\ (pc[s] = "idle" => tx[s].kind = "scan")
  BY ConstantsOK, Requested DEF Inv, SessionsOK, Months
<1> DEFINE e == tx[s].e
<1>1. CASE UNCHANGED database \/ RecordPostingFailure(s) \/ LockPeriod(s) \/ ReopenPeriod(s)
  <2>1. UNCHANGED <<closing, state, dated, reversal, snapshot>>
    BY <1>1 DEF database, periods, journals, RecordPostingFailure, LockPeriod, ReopenPeriod
  <2> QED
    BY <2>1 DEF Books, Booked
<1>2. CASE ClosePeriod(s)
  <2>1. m # tx[s].m
    BY <1>0, <1>2 DEF ClosePeriod, SessionOK, MonthOK, At, Does, Closed
  <2>2. UNCHANGED <<closing, state, dated, reversal>> /\ snapshot'[m] = snapshot[m]
    BY <1>0, <1>2, <2>1 DEF ClosePeriod, journals, TypeOK
  <2> QED
    BY <2>2 DEF Books, Booked
<1>3. CASE WritesDraft(s)
  <2>1. /\ state[e] \in {"absent", "draft", "rejected"}
        /\ state' = [state EXCEPT ![e] = "draft"] /\ dated' = [dated EXCEPT ![e] = tx[s].m]
        /\ UNCHANGED <<closing, reversal, snapshot>>
    BY <1>0, <1>3 DEF WritesDraft, InsertEntry, Ready, At, SessionOK, DocumentOK, Does, Editable, periods
  <2>2. \A x \in Entries \ {e} : state'[x] = state[x] /\ dated'[x] = dated[x] /\ reversal'[x] = reversal[x]
    BY <1>0, <2>1 DEF TypeOK
  <2>3. state'[e] = "draft" /\ reversal'[e] = reversal[e] /\ ~Booked(e)
    BY <1>0, <2>1 DEF TypeOK, Booked
  <2> QED
    BY <1>0, <2>1, <2>2, <2>3, BooksKept
<1>4. CASE CommitEntry(s)
  <2>1. state' = [state EXCEPT ![e] = "posted"] /\ UNCHANGED <<closing, dated, reversal, snapshot>>
    BY <1>4 DEF CommitEntry, periods
  <2>2. ~Closed(tx[s].m)
    BY <1>0, <1>4 DEF CommitEntry, At, SessionOK, RouteOK, MonthOK, Does, Writing, Closed
  <2>3. dated[e] = tx[s].m
    BY <1>0, <1>4 DEF CommitEntry, At, SessionOK, RouteOK, DocumentOK, Does, EntriesOK
  <2>4. \A x \in Entries \ {e} : state'[x] = state[x] /\ dated'[x] = dated[x] /\ reversal'[x] = reversal[x]
    BY <1>0, <2>1 DEF TypeOK
  <2>5. dated[e] # m /\ dated'[e] # m /\ reversal'[e] = reversal[e]
    BY <2>1, <2>2, <2>3
  <2>6. Books(m)' = Books(m)
    BY <1>0, <2>1, <2>4, <2>5, BooksKept
  <2> QED
    BY <2>1, <2>6
<1>5. CASE CommitReversal(s)
  <2>1. /\ state' = [state EXCEPT ![e] = "reversed"] /\ reversal' = [reversal EXCEPT ![e] = tx[s].m]
        /\ UNCHANGED <<closing, dated, snapshot>>
    BY <1>5 DEF CommitReversal, periods
  <2>2. month[tx[s].m] = "open" /\ state[e] = "posted"
    BY <1>0, <1>5 DEF CommitReversal, At, SessionOK, DocumentOK, MonthOK, Does, Writing
  <2>3. \A x \in Entries \ {e} : state'[x] = state[x] /\ dated'[x] = dated[x] /\ reversal'[x] = reversal[x]
    BY <1>0, <2>1 DEF TypeOK
  <2>4. state'[e] = "reversed" /\ dated'[e] = dated[e] /\ reversal'[e] = tx[s].m /\ tx[s].m # m
    BY <1>0, <2>1, <2>2 DEF TypeOK, Closed
  <2>5. Booked(e) /\ reversal[e] = 0
    BY <1>0, <2>2 DEF Booked, EntriesOK
  <2>6. Books(m)' = Books(m)
    BY <1>0, <2>1, <2>3, <2>4, <2>5, BooksKept
  <2> QED
    BY <2>1, <2>6
<1> QED
  BY <1>1, <1>2, <1>3, <1>4, <1>5, DataMoves

\* When the year is closed, the last month's statements show the closing entry besides.
LEMMA CarriedOver ==
  ASSUME Inv, NEW s \in Sessions, CloseFinancialYear(s), NEW m \in Months
  PROVE  /\ Closed(m) /\ snapshot'[m] = snapshot[m]
         /\ Books(m)' = Books(m) \cup (IF m = MonthCount THEN closing' ELSE {})
         /\ closing = {} /\ closing' = Result /\ year = "open" /\ year' = "closed"
<1>0. SessionOK(s) /\ CarriedOK /\ At(s, "commit") /\ Does(s, {"year"}) /\ pc[s] # "year"
  BY DEF Inv, SessionsOK, CloseFinancialYear, At
<1>1. Closed(m) /\ tx[s].seen = Result /\ year = "open"
  BY <1>0 DEF SessionOK, MonthOK, CloserOK
<1>2. /\ UNCHANGED <<snapshot, state, dated, reversal>>
      /\ closing' = Result /\ year' = "closed"
  BY <1>1 DEF CloseFinancialYear, journals
<1>3. closing = {}
  BY <1>0, <1>1 DEF CarriedOK
<1>4. Books(m)' = Books(m) \cup (IF m = MonthCount THEN closing' ELSE {})
  BY <1>2, <1>3 DEF Books, Booked
<1> QED
  BY <1>1, <1>2, <1>3, <1>4

\* So a month that is closed after a step shows what it was closed with.
LEMMA SnapshotStep ==
  ASSUME Inv, NEW s \in Sessions, SessionStep(s)
  PROVE  SnapshotStands'
<1> DEFINE Added(m) == IF m = MonthCount THEN closing ELSE {}
<1> SUFFICES ASSUME NEW m \in Months, Closed(m)' PROVE Books(m)' = snapshot'[m] \cup Added(m)'
  BY DEF SnapshotStands
<1>1. CASE Closed(m) /\ ~CloseFinancialYear(s)
  <2>1. Books(m) = snapshot[m] \cup Added(m)
    BY <1>1 DEF Inv, SnapshotStands
  <2>2. UNCHANGED closing /\ Books(m)' = Books(m) /\ snapshot'[m] = snapshot[m]
    BY <1>1, ClosedKept
  <2> QED
    BY <2>1, <2>2
<1>2. CASE ~Closed(m)
  <2>1. UNCHANGED <<closing, state, dated, reversal>> /\ Books(m) = snapshot'[m]
    BY <1>2, WhoCloses
  <2>2. Books(m)' = Books(m) /\ Added(m) \subseteq Books(m)
    BY <2>1 DEF Books, Booked
  <2> QED
    BY <2>1, <2>2
<1>3. CASE CloseFinancialYear(s)
  <2>1. /\ Closed(m) /\ snapshot'[m] = snapshot[m] /\ closing = {}
        /\ Books(m)' = Books(m) \cup Added(m)'
    BY <1>3, CarriedOver
  <2>2. Books(m) = snapshot[m] \cup Added(m)
    BY <2>1 DEF Inv, SnapshotStands
  <2> QED
    BY <2>1, <2>2
<1> QED
  BY <1>1, <1>2, <1>3

\* Nothing is carried over but by the step that closes the year.
LEMMA CarriedStep ==
  ASSUME Inv, NEW s \in Sessions, SessionStep(s)
  PROVE  CarriedOK'
<1>1. CASE CloseFinancialYear(s)
  BY <1>1 DEF CloseFinancialYear, CarriedOK
<1>2. CASE ~CloseFinancialYear(s)
  <2>1. UNCHANGED <<year, closing>>
    BY <1>2, DataMoves DEF database, periods, WritesDraft, InsertEntry, RecordPostingFailure, CommitEntry,
       CommitReversal, ClosePeriod, LockPeriod, ReopenPeriod
  <2> QED
    BY <2>1 DEF Inv, CarriedOK
<1> QED
  BY <1>1, <1>2

\* The whole is kept by the statements of nobody's request.
LEMMA OutsideKeeps ==
  ASSUME Inv, OutsideStep
  PROVE  /\ DraftsApart' /\ SharedNotHeld' /\ EntriesOK' /\ CarriedOK'
         /\ SnapshotStands' /\ PostingFollowsJournal'
         /\ \A m \in Months : Closed(m)' => Closed(m)
<1>0. /\ TypeOK /\ DraftsApart /\ SharedNotHeld /\ EntriesOK /\ SnapshotStands /\ PostingFollowsJournal
      /\ Sales \cap Manual = {}
  BY ConstantsOK DEF Inv
<1>1. UNCHANGED <<lock, share, pc, tx, year, closing, snapshot, dated, reversal>>
  BY <1>0, Passes DEF OutsideStep, DismissPosting, StartPeriodReview, ReturnPeriodToOpen, locks, periods, journals
<1>2. DraftsApart' /\ SharedNotHeld' /\ CarriedOK'
  BY <1>0, <1>1 DEF DraftsApart, SharedNotHeld, Does, Inv, CarriedOK
<1>3. CASE \E x \in Manual : PassStep(x)
  <2>1. PICK x \in Manual : PassStep(x)
    BY <1>3
  <2>2. /\ state[x] \in {"draft", "pending_approval", "rejected"} /\ x \in Entries /\ x \notin Sales
        /\ UNCHANGED <<month, posting>>
        /\ \A y \in Entries \ {x} : state'[y] = state[y]
        /\ state'[x] \in {"draft", "pending_approval", "rejected", "approved", "cancelled"}
    BY <1>0, <2>1, Passes DEF Pending
  <2>3. \A m \in Months : Books(m)' = Books(m)
    BY <1>1, <2>2, BooksKept DEF Booked
  <2>4. \A y \in Sales : state'[y] = state[y]
    BY <2>2 DEF Entries
  <2>5. EntriesOK'
    BY <1>0, <1>1, <2>2, <2>4 DEF EntriesOK
  <2> QED
    BY <1>0, <1>1, <1>2, <2>2, <2>3, <2>4, <2>5 DEF SnapshotStands, PostingFollowsJournal, Closed
<1>4. CASE \E x \in Sales : DismissPosting(x)
  <2>1. UNCHANGED <<month, state>>
    BY <1>4 DEF DismissPosting, periods, journals
  <2>2. \A x \in Sales : posting'[x] = "POSTED" <=> posting[x] = "POSTED"
    BY <1>0, <1>4 DEF DismissPosting, TypeOK
  <2> QED
    BY <1>0, <1>1, <1>2, <2>1, <2>2 DEF EntriesOK, SnapshotStands, PostingFollowsJournal, Closed, Books, Booked
<1>5. CASE \E m \in Months : StartPeriodReview(m) \/ ReturnPeriodToOpen(m)
  <2>1. UNCHANGED <<state, posting>>
    BY <1>5 DEF StartPeriodReview, ReturnPeriodToOpen, journals
  <2>2. \A m \in Months : Closed(m)' => Closed(m)
    BY <1>0, <1>5 DEF StartPeriodReview, ReturnPeriodToOpen, Closed, TypeOK
  <2>3. \A m \in Months : Books(m)' = Books(m)
    BY <1>1, <2>1 DEF Books, Booked
  <2> QED
    BY <1>0, <1>1, <1>2, <2>1, <2>2, <2>3 DEF EntriesOK, SnapshotStands, PostingFollowsJournal
<1> QED
  BY <1>3, <1>4, <1>5 DEF OutsideStep

\* Every step keeps the invariant.
LEMMA InvStep == Inv /\ [Next]_vars => Inv'
<1> SUFFICES ASSUME Inv, [Next]_vars PROVE Inv'
  OBVIOUS
<1>1. TypeOK'
  BY TypeStep DEF Inv
<1>2. CASE UNCHANGED vars
  <2>1. UNCHANGED <<month, year, snapshot, closing, state, dated, reversal, posting, lock, share, pc, tx>>
    BY <1>2 DEF vars, database, periods, journals, locks
  <2>2. ASSUME NEW s \in Sessions PROVE SessionOK(s)'
    <3>1. SessionOK(s)
      BY DEF Inv, SessionsOK
    <3>2. RouteOK(s)' /\ LocksHeld(s)' /\ MonthsHeld(s)'
      BY <2>1, <3>1 DEF SessionOK, RouteOK, LocksHeld, MonthsHeld, At, Does
    <3> QED
      BY <2>1, <3>1, <3>2, NothingBeside DEF SessionOK
  <2>3. DraftsApart' /\ SharedNotHeld' /\ EntriesOK' /\ CarriedOK'
    BY <2>1 DEF Inv, DraftsApart, SharedNotHeld, EntriesOK, CarriedOK, Does
  <2>4. SnapshotStands' /\ PostingFollowsJournal'
    BY <2>1 DEF Inv, SnapshotStands, PostingFollowsJournal, Closed, Books, Booked
  <2> QED
    BY <1>1, <2>2, <2>3, <2>4 DEF Inv, SessionsOK
<1>3. CASE OutsideStep
  BY <1>1, <1>3, OutsideBeside, OutsideKeeps DEF Inv, SessionsOK
<1>4. ASSUME NEW s \in Sessions, SessionStep(s) PROVE Inv'
  <2>1. SessionsOK'
    <3>1. SessionOK(s)'
      BY <1>4, OwnStep DEF Inv, SessionsOK
    <3>2. \A t \in Sessions \ {s} : SessionOK(t)'
      BY <1>4, OthersStep
    <3> QED
      BY <3>1, <3>2 DEF SessionsOK
  <2> QED
    BY <1>1, <1>4, <2>1, SharedStep, DraftsStep, EntriesStep, CarriedStep, SnapshotStep DEF Inv
<1> QED
  BY <1>2, <1>3, <1>4 DEF Next, SessionStep, OutsideStep, PassStep

-----------------------------------------------------------------------------
(* Theorems. *)

\* The inductive invariant holds throughout.
THEOREM Invariance == Spec => []Inv
BY InvInit, InvStep, PTL DEF Spec

\* Every variable keeps its type.
THEOREM TypeCorrect == Spec => []TypeOK
<1>1. Inv => TypeOK
  BY DEF Inv
<1> QED
  BY <1>1, Invariance, PTL

\* What the statements of a closed month show is what it was closed with.
THEOREM StatementsStand == Spec => []SnapshotStands
<1>1. Inv => SnapshotStands
  BY DEF Inv
<1> QED
  BY <1>1, Invariance, PTL

\* A sale is reported posted if and only if its entry is in the books.
THEOREM PostingTells == Spec => []PostingFollowsJournal
<1>1. Inv => PostingFollowsJournal
  BY DEF Inv
<1> QED
  BY <1>1, Invariance, PTL

\* At the moment a month closes, every journal dated in it is posted or given up.
THEOREM NothingLeftOut == Spec => ClosesWithAllPosted
<1> DEFINE Settled(m) ==
      \A x \in Manual : dated'[x] = m => state'[x] \in {"absent", "posted", "reversed", "cancelled"}
<1>1. ASSUME Inv, [Next]_vars
      PROVE  [\A m \in Months : (~Closed(m) /\ Closed(m)') => Settled(m)]_vars
  <2> SUFFICES ASSUME Next PROVE \A m \in Months : (~Closed(m) /\ Closed(m)') => Settled(m)
    BY <1>1
  <2> SUFFICES ASSUME NEW m \in Months, ~Closed(m), Closed(m)' PROVE Settled(m)
    OBVIOUS
  <2>1. PICK s \in Sessions : SessionStep(s)
    BY <1>1, OutsideKeeps DEF Next, SessionStep, OutsideStep, PassStep
  <2>2. Blocking(m) = {} /\ UNCHANGED <<state, dated, reversal>>
    BY <1>1, <2>1, WhoCloses
  <2>3. \A x \in Manual : state[x] \in JournalStates
    BY <1>1 DEF Inv, TypeOK, Entries
  <2> QED
    BY <2>2, <2>3 DEF Blocking, Pending, JournalStates
<1> QED
  BY <1>1, Invariance, PTL DEF Spec, ClosesWithAllPosted

-----------------------------------------------------------------------------
(* The books: what the contract sees of the model. *)

EnteredIn(m) == {x \in Entries : Booked(x) /\ dated[x] = m}
UndoneIn(m) == {x \in Entries : reversal[x] = m}
Frozen == {m \in Months : Closed(m)}
CarriedOf(lines) == {x \in Entries : <<"closing", x>> \in lines}
Kept == UNCHANGED <<closing, year>>

\* The contract's steps, said of these.
LEMMA ContractSteps ==
  /\ \A x \in Entries, m \in Months :
        /\ m \notin Frozen /\ \A k \in Months : x \notin EnteredIn(k)
        /\ \A k \in Months : EnteredIn(k)' = IF k = m THEN EnteredIn(k) \cup {x} ELSE EnteredIn(k)
        /\ \A k \in Months : UndoneIn(k)' = UndoneIn(k)
        /\ Frozen' = Frozen /\ Kept
        => Ledger!Enter(x, m)
  /\ \A x \in Entries, m \in Months :
        /\ m \notin Frozen /\ \E k \in Months : k <= m /\ x \in EnteredIn(k)
        /\ \A k \in Months : x \notin UndoneIn(k)
        /\ \A k \in Months : UndoneIn(k)' = IF k = m THEN UndoneIn(k) \cup {x} ELSE UndoneIn(k)
        /\ \A k \in Months : EnteredIn(k)' = EnteredIn(k)
        /\ Frozen' = Frozen /\ Kept
        => Ledger!Undo(x, m)
  /\ (\A k \in Months : EnteredIn(k)' = EnteredIn(k) /\ UndoneIn(k)' = UndoneIn(k)) /\ Frozen' = Frozen
        => /\ Kept => UNCHANGED Ledger!vars
           /\ /\ Frozen = Months /\ year = "open" /\ year' = "closed"
              /\ CarriedOf(closing') = {x \in Earning : \E m \in Months : x \in EnteredIn(m)
                                                        /\ \A k \in Months : x \notin UndoneIn(k)}
              => Ledger!EndYear
  /\ \A m \in Months :
        /\ \A k \in Months : EnteredIn(k)' = EnteredIn(k) /\ UndoneIn(k)' = UndoneIn(k)
        /\ Kept
        => /\ m \notin Frozen /\ Frozen' = Frozen \cup {m} => Ledger!Freeze(m)
           /\ m \in Frozen /\ Frozen' = Frozen \ {m} => Ledger!Thaw(m)
<1> DEFINE en == [m \in Months |-> {x \in Entries : Booked(x) /\ dated[x] = m}]
           un == [m \in Months |-> {x \in Entries : reversal[x] = m}]
           fr == {m \in Months : Closed(m)}
           ca == {x \in Entries : <<"closing", x>> \in closing}
           ed == year = "closed"
           rest == ca' = ca /\ ed' = ed
<1>1. /\ \A x, m : Ledger!Enter(x, m) <=>
            /\ m \notin fr /\ \A k \in Months : x \notin en[k]
            /\ en' = [en EXCEPT ![m] = @ \cup {x}]
            /\ un' = un /\ fr' = fr /\ rest
      /\ \A x, m : Ledger!Undo(x, m) <=>
            /\ m \notin fr /\ \E k \in Months : k <= m /\ x \in en[k]
            /\ \A k \in Months : x \notin un[k]
            /\ un' = [un EXCEPT ![m] = @ \cup {x}]
            /\ en' = en /\ fr' = fr /\ rest
  BY DEF Ledger!Enter, Ledger!Undo
<1>2. /\ \A m : Ledger!Freeze(m) <=> m \notin fr /\ fr' = fr \cup {m} /\ en' = en /\ un' = un /\ rest
      /\ \A m : Ledger!Thaw(m) <=> m \in fr /\ fr' = fr \ {m} /\ en' = en /\ un' = un /\ rest
      /\ UNCHANGED Ledger!vars <=> en' = en /\ un' = un /\ fr' = fr /\ rest
  BY DEF Ledger!Freeze, Ledger!Thaw, Ledger!vars
<1>10. Ledger!EndYear <=>
         /\ ~ed /\ fr = Months /\ ed' = TRUE
         /\ ca' = {x \in Earning : \E m \in Months : x \in en[m] /\ \A k \in Months : x \notin un[k]}
         /\ en' = en /\ un' = un /\ fr' = fr
  BY DEF Ledger!EndYear
<1>11. Kept => rest
  BY DEF Kept
<1>3. /\ en = [m \in Months |-> EnteredIn(m)] /\ un = [m \in Months |-> UndoneIn(m)]
      /\ fr = Frozen
  BY DEF EnteredIn, UndoneIn, Frozen
<1>4. /\ en' = [m \in Months |-> EnteredIn(m)'] /\ un' = [m \in Months |-> UndoneIn(m)']
      /\ fr' = Frozen'
  BY DEF EnteredIn, UndoneIn, Frozen
<1>12. (ed <=> year = "closed") /\ (ed' <=> year' = "closed") /\ ca' = CarriedOf(closing')
  BY DEF CarriedOf
<1> HIDE DEF en, un, fr, ca, ed, rest
<1>5. ASSUME NEW x \in Entries, NEW m \in Months, m \notin Frozen, \A k \in Months : x \notin EnteredIn(k),
             \A k \in Months : EnteredIn(k)' = IF k = m THEN EnteredIn(k) \cup {x} ELSE EnteredIn(k),
             \A k \in Months : UndoneIn(k)' = UndoneIn(k), Frozen' = Frozen, Kept
      PROVE  Ledger!Enter(x, m)
  <2>1. en' = [en EXCEPT ![m] = @ \cup {x}] /\ un' = un /\ fr' = fr
    BY <1>3, <1>4, <1>5
  <2> QED
    BY <1>1, <1>3, <1>5, <1>11, <2>1
<1>6. ASSUME NEW x \in Entries, NEW m \in Months, m \notin Frozen,
             \E k \in Months : k <= m /\ x \in EnteredIn(k), \A k \in Months : x \notin UndoneIn(k),
             \A k \in Months : UndoneIn(k)' = IF k = m THEN UndoneIn(k) \cup {x} ELSE UndoneIn(k),
             \A k \in Months : EnteredIn(k)' = EnteredIn(k), Frozen' = Frozen, Kept
      PROVE  Ledger!Undo(x, m)
  <2>1. un' = [un EXCEPT ![m] = @ \cup {x}] /\ en' = en /\ fr' = fr
    BY <1>3, <1>4, <1>6
  <2>2. \E k \in Months : k <= m /\ x \in en[k]
    BY <1>3, <1>6
  <2> QED
    BY <1>1, <1>3, <1>6, <1>11, <2>1, <2>2
<1>7. ASSUME \A k \in Months : EnteredIn(k)' = EnteredIn(k) /\ UndoneIn(k)' = UndoneIn(k)
      PROVE  en' = en /\ un' = un
  BY <1>3, <1>4, <1>7
<1>8. ASSUME \A k \in Months : EnteredIn(k)' = EnteredIn(k) /\ UndoneIn(k)' = UndoneIn(k), Frozen' = Frozen
      PROVE  /\ Kept => UNCHANGED Ledger!vars
             /\ /\ Frozen = Months /\ year = "open" /\ year' = "closed"
                /\ CarriedOf(closing') = {x \in Earning : \E m \in Months : x \in EnteredIn(m)
                                                          /\ \A k \in Months : x \notin UndoneIn(k)}
                => Ledger!EndYear
  <2>1. en' = en /\ un' = un /\ fr' = fr
    BY <1>3, <1>4, <1>7, <1>8
  <2>2. Kept => UNCHANGED Ledger!vars
    BY <1>2, <1>11, <2>1
  <2>3. ASSUME Frozen = Months, year = "open", year' = "closed",
               CarriedOf(closing') = {x \in Earning : \E m \in Months : x \in EnteredIn(m)
                                                         /\ \A k \in Months : x \notin UndoneIn(k)}
        PROVE  Ledger!EndYear
    <3>1. /\ fr = Months /\ \A m \in Months : en[m] = EnteredIn(m) /\ un[m] = UndoneIn(m)
      BY <1>3, <2>3
    <3>2. ca' = {x \in Earning : \E m \in Months : x \in en[m] /\ \A k \in Months : x \notin un[k]}
      BY <1>12, <2>3, <3>1
    <3>3. ~ed /\ ed' = TRUE
      BY <1>12, <2>3 DEF ed
    <3> QED
      BY <1>10, <2>1, <3>1, <3>2, <3>3
  <2> QED
    BY <2>2, <2>3
<1>9. ASSUME NEW m \in Months, \A k \in Months : EnteredIn(k)' = EnteredIn(k) /\ UndoneIn(k)' = UndoneIn(k), Kept
      PROVE  /\ m \notin Frozen /\ Frozen' = Frozen \cup {m} => Ledger!Freeze(m)
             /\ m \in Frozen /\ Frozen' = Frozen \ {m} => Ledger!Thaw(m)
  BY <1>2, <1>3, <1>4, <1>7, <1>9, <1>11
<1> QED
  BY <1>5, <1>6, <1>8, <1>9

\* Every session's step is one of the contract's, or none.
LEMMA ContractStep ==
  ASSUME Inv, NEW s \in Sessions, SessionStep(s)
  PROVE  Ledger!Next \/ UNCHANGED Ledger!vars
<1>0. /\ TypeOK /\ SessionOK(s) /\ EntriesOK /\ tx[s].m \in Months /\ tx[s].e \in Entries
      /\ 0 \notin Months /\ Months \subseteq Int
      /\ (pc[s] = "idle" => tx[s].kind = "scan")
  BY ConstantsOK, Requested DEF Inv, SessionsOK, Months
<1>00. PICK e \in Entries, m \in Months : e = tx[s].e /\ m = tx[s].m
  BY <1>0
<1> DEFINE Same == \A k \in Months : EnteredIn(k)' = EnteredIn(k) /\ UndoneIn(k)' = UndoneIn(k)
<1>1. CASE UNCHANGED database \/ RecordPostingFailure(s)
  <2>1. UNCHANGED <<month, year, closing, state, dated, reversal>>
    BY <1>1 DEF database, periods, journals, RecordPostingFailure
  <2> QED
    BY <2>1, ContractSteps DEF EnteredIn, UndoneIn, Frozen, Booked, Closed, Kept
<1>2. CASE WritesDraft(s)
  <2>1. /\ state[e] \in {"absent", "draft", "rejected"}
        /\ state' = [state EXCEPT ![e] = "draft"] /\ dated' = [dated EXCEPT ![e] = m]
        /\ UNCHANGED <<month, reversal>> /\ Kept
    BY <1>0, <1>00, <1>2 DEF WritesDraft, InsertEntry, Ready, At, SessionOK, DocumentOK, Does, Editable, periods, Kept
  <2>2. \A x \in Entries, k \in Months : (Booked(x)' /\ dated'[x] = k) <=> (Booked(x) /\ dated[x] = k)
    BY <1>0, <1>00, <2>1 DEF TypeOK, Booked
  <2>3. Same /\ Frozen' = Frozen
    BY <2>1, <2>2 DEF EnteredIn, UndoneIn, Frozen, Closed
  <2> QED
    BY <2>1, <2>3, ContractSteps
<1>3. CASE CommitEntry(s)
  <2>1. state' = [state EXCEPT ![e] = "posted"] /\ UNCHANGED <<month, dated, reversal>> /\ Kept
    BY <1>00, <1>3 DEF CommitEntry, periods, Kept
  <2>2. ~Closed(m)
    BY <1>0, <1>00, <1>3 DEF CommitEntry, At, SessionOK, RouteOK, MonthOK, Does, Writing, Closed
  <2>3. dated[e] = m /\ state[e] \in {"absent", "approved"}
    BY <1>0, <1>00, <1>3 DEF CommitEntry, At, SessionOK, RouteOK, DocumentOK, Does, Ahead, EntriesOK
  <2>4. \A x \in Entries, k \in Months :
           (Booked(x)' /\ dated'[x] = k) <=> ((Booked(x) /\ dated[x] = k) \/ (x = e /\ k = m))
    BY <1>0, <1>00, <2>1, <2>3 DEF TypeOK, Booked
  <2>5. \A k \in Months : EnteredIn(k)' = IF k = m THEN EnteredIn(k) \cup {e} ELSE EnteredIn(k)
    BY <1>0, <1>00, <2>4 DEF EnteredIn
  <2>6. m \notin Frozen /\ (\A k \in Months : e \notin EnteredIn(k)) /\ Frozen' = Frozen
    BY <2>1, <2>2, <2>3 DEF EnteredIn, Frozen, Booked, Closed
  <2>7. \A k \in Months : UndoneIn(k)' = UndoneIn(k)
    BY <2>1 DEF UndoneIn
  <2>8. Ledger!Enter(e, m)
    BY <1>0, <1>00, <2>1, <2>5, <2>6, <2>7, ContractSteps
  <2> QED
    BY <2>8 DEF Ledger!Next
<1>4. CASE CommitReversal(s)
  <2>1. /\ state' = [state EXCEPT ![e] = "reversed"] /\ reversal' = [reversal EXCEPT ![e] = m]
        /\ UNCHANGED <<month, dated>> /\ Kept
    BY <1>00, <1>4 DEF CommitReversal, periods, Kept
  <2>2. month[m] = "open" /\ state[e] = "posted" /\ dated[e] <= m /\ dated[e] \in Months
    BY <1>0, <1>00, <1>4 DEF CommitReversal, At, SessionOK, DocumentOK, MonthOK, Does, Writing, TypeOK
  <2>3. reversal[e] = 0
    BY <1>0, <1>00, <2>2 DEF EntriesOK
  <2>4. \A x \in Entries, k \in Months :
           /\ (Booked(x)' /\ dated'[x] = k) <=> (Booked(x) /\ dated[x] = k)
           /\ reversal'[x] = k <=> (reversal[x] = k \/ (x = e /\ k = m))
    BY <1>0, <1>00, <2>1, <2>2, <2>3 DEF TypeOK, Booked
  <2>5. \A k \in Months : UndoneIn(k)' = IF k = m THEN UndoneIn(k) \cup {e} ELSE UndoneIn(k)
    BY <2>4 DEF UndoneIn
  <2>6. \A k \in Months : EnteredIn(k)' = EnteredIn(k)
    BY <2>4 DEF EnteredIn
  <2>7. /\ m \notin Frozen /\ Frozen' = Frozen
        /\ \E k \in Months : k <= m /\ e \in EnteredIn(k)
        /\ \A k \in Months : e \notin UndoneIn(k)
    BY <1>0, <1>00, <2>1, <2>2, <2>3 DEF EnteredIn, UndoneIn, Frozen, Booked, Closed
  <2>8. Ledger!Undo(e, m)
    BY <1>0, <1>00, <2>1, <2>5, <2>6, <2>7, ContractSteps
  <2> QED
    BY <2>8 DEF Ledger!Next
<1>5. CASE ClosePeriod(s) \/ LockPeriod(s) \/ ReopenPeriod(s) \/ CloseFinancialYear(s)
  <2>1. UNCHANGED <<state, dated, reversal>>
    BY <1>5 DEF ClosePeriod, LockPeriod, ReopenPeriod, CloseFinancialYear, journals
  <2>2. Same
    BY <2>1 DEF EnteredIn, UndoneIn, Booked
  <2>6. ClosePeriod(s) \/ LockPeriod(s) \/ ReopenPeriod(s) => Kept
    BY DEF ClosePeriod, LockPeriod, ReopenPeriod, Kept
  <2>3. CASE ClosePeriod(s)
    <3>1. month[m] = "review" /\ month' = [month EXCEPT ![m] = "closed"]
      BY <1>0, <1>00, <2>3 DEF ClosePeriod, SessionOK, MonthOK, At, Does
    <3>2. m \notin Frozen /\ Frozen' = Frozen \cup {m}
      BY <1>0, <1>00, <3>1 DEF Frozen, Closed, TypeOK
    <3> QED
      BY <1>0, <1>00, <2>2, <2>3, <2>6, <3>2, ContractSteps DEF Ledger!Next
  <2>4. CASE ReopenPeriod(s)
    <3>1. Closed(m) /\ month' = [month EXCEPT ![m] = "open"]
      BY <1>0, <1>00, <2>4 DEF ReopenPeriod, SessionOK, MonthOK, At, Does
    <3>2. m \in Frozen /\ Frozen' = Frozen \ {m}
      BY <1>0, <1>00, <3>1 DEF Frozen, Closed, TypeOK
    <3>3. Ledger!Thaw(m)
      BY <1>0, <1>00, <2>2, <2>4, <2>6, <3>2, ContractSteps
    <3> QED
      BY <1>0, <1>00, <3>3 DEF Ledger!Next
  <2>5. CASE LockPeriod(s)
    <3>1. month[m] = "closed" /\ month' = [month EXCEPT ![m] = "locked"]
      BY <1>0, <1>00, <2>5 DEF LockPeriod, SessionOK, MonthOK, At, Does
    <3>2. Frozen' = Frozen
      BY <1>0, <1>00, <3>1 DEF Frozen, Closed, TypeOK
    <3> QED
      BY <2>2, <2>5, <2>6, <3>2, ContractSteps
  <2>7. CASE CloseFinancialYear(s)
    <3>1. /\ \A k \in Months : Closed(k)
          /\ closing' = Result /\ year = "open" /\ year' = "closed"
      BY <1>0, <1>00, <2>7, CarriedOver
    <3>2. \A k \in Months : Closed(k)'
      BY <2>7 DEF CloseFinancialYear, Closed
    <3>3. Frozen = Months /\ Frozen' = Frozen
      BY <3>1, <3>2 DEF Frozen
    <3>4. CarriedOf(closing') = {x \in Earning : state[x] = "posted"}
      BY <3>1, ConstantsOK DEF CarriedOf, Result
    <3>5. \A x \in Earning : state[x] = "posted" <=>
             \E k \in Months : x \in EnteredIn(k) /\ \A l \in Months : x \notin UndoneIn(l)
      <4>1. ASSUME NEW x \in Earning
            PROVE  state[x] = "posted" <=> \E k \in Months : x \in EnteredIn(k) /\ \A l \in Months : x \notin UndoneIn(l)
        <5>1. x \in Entries /\ dated[x] \in Months /\ reversal[x] \in Months \cup {0}
          BY <1>0, ConstantsOK DEF TypeOK, Months
        <5>2. reversal[x] # 0 <=> state[x] = "reversed"
          BY <1>0, <5>1 DEF EntriesOK
        <5>3. (\E k \in Months : x \in EnteredIn(k)) <=> Booked(x)
          BY <5>1 DEF EnteredIn
        <5>4. (\A l \in Months : x \notin UndoneIn(l)) <=> reversal[x] = 0
          BY <1>0, <5>1 DEF UndoneIn
        <5> QED
          BY <5>2, <5>3, <5>4 DEF Booked
      <4> QED
        BY <4>1
    <3>6. CarriedOf(closing') = {x \in Earning : \E k \in Months : x \in EnteredIn(k)
                                                      /\ \A l \in Months : x \notin UndoneIn(l)}
      BY <3>4, <3>5
    <3>7. Ledger!EndYear
      BY <2>2, <3>1, <3>3, <3>6, ContractSteps
    <3> QED
      BY <3>7 DEF Ledger!Next
  <2> QED
    BY <1>5, <2>3, <2>4, <2>5, <2>7
<1> QED
  BY <1>1, <1>2, <1>3, <1>4, <1>5, DataMoves

\* An entry is made once, undone at most once, a closed month is left alone, and a
\* year's end carries over what it earned: the model implements the contract.
THEOREM Refines == Spec => KeepsBooks
<1>1. Init => Ledger!Init
  <2> SUFFICES ASSUME Init PROVE Ledger!Init
    OBVIOUS
  <2>1. \A x \in Entries : ~Booked(x) /\ reversal[x] = 0
    BY DEF Init, Booked
  <2>2. \A m \in Months : m # 0 /\ ~Closed(m)
    BY ConstantsOK DEF Init, Closed, Months
  <2>3. \A m \in Months : {x \in Entries : Booked(x) /\ dated[x] = m} = {} /\ {x \in Entries : reversal[x] = m} = {}
    BY <2>1, <2>2
  <2>4. {m \in Months : Closed(m)} = {}
    BY <2>2
  <2>5. {x \in Entries : <<"closing", x>> \in closing} = {} /\ (year = "closed") = FALSE
    BY DEF Init
  <2> QED
    BY <2>3, <2>4, <2>5 DEF Ledger!Init
<1>2. Inv /\ [Next]_vars => [Ledger!Next]_(Ledger!vars)
  <2> SUFFICES ASSUME Inv, [Next]_vars PROVE Ledger!Next \/ UNCHANGED Ledger!vars
    OBVIOUS
  <2>1. CASE UNCHANGED vars
    <3>1. UNCHANGED <<month, year, closing, state, dated, reversal>>
      BY <2>1 DEF vars, database, periods, journals
    <3> QED
      BY <3>1, ContractSteps DEF EnteredIn, UndoneIn, Frozen, Booked, Closed, Kept
  <2>2. CASE OutsideStep
    <3>1. UNCHANGED <<dated, reversal>> /\ \A x \in Entries : Booked(x)' <=> Booked(x)
      <4>1. CASE \E x \in Manual : PassStep(x)
        BY <4>1, Passes DEF Inv, Booked, Pending
      <4>2. CASE UNCHANGED journals
        BY <4>2 DEF journals, Booked
      <4> QED
        BY <2>2, <4>1, <4>2 DEF OutsideStep, DismissPosting, StartPeriodReview, ReturnPeriodToOpen
    <3>2. \A m \in Months : Closed(m)' <=> Closed(m)
      <4>1. CASE UNCHANGED month
        BY <4>1 DEF Closed
      <4>2. CASE \E m \in Months : StartPeriodReview(m) \/ ReturnPeriodToOpen(m)
        BY <4>2 DEF StartPeriodReview, ReturnPeriodToOpen, Inv, TypeOK, Closed
      <4> QED
        BY <2>2, <4>1, <4>2, Passes DEF OutsideStep, DismissPosting, periods, Inv
    <3>3. (\A k \in Months : EnteredIn(k)' = EnteredIn(k) /\ UndoneIn(k)' = UndoneIn(k)) /\ Frozen' = Frozen
      BY <3>1, <3>2 DEF EnteredIn, UndoneIn, Frozen
    <3>4. Kept
      BY <2>2, Passes DEF OutsideStep, DismissPosting, StartPeriodReview, ReturnPeriodToOpen, periods, Kept, Inv
    <3> QED
      BY <3>3, <3>4, ContractSteps
  <2> QED
    BY <2>1, <2>2, ContractStep DEF Next, SessionStep, OutsideStep, PassStep
<1> QED
  BY <1>1, <1>2, Invariance, PTL DEF Spec, KeepsBooks, Ledger!Spec
=============================================================================

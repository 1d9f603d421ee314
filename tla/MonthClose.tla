----------------------------- MODULE MonthClose -----------------------------
(***************************************************************************)
(* The general ledger and its months: modules/accounting (journals.js,     *)
(* posting-service.js, journals-gl, period-close) with the point of sale's *)
(* poster, over one financial year.                                        *)
(*                                                                         *)
(* A session is a database connection running one request in one           *)
(* transaction (READ COMMITTED); an action is one SQL statement, or a      *)
(* statement with those that follow it on rows it already holds.  Rows are *)
(* locked until the transaction ends, or until it goes back to the         *)
(* savepoint after which they were locked.  What a transaction wrote is    *)
(* seen when it commits, and until then kept from others by its locks.     *)
(***************************************************************************)
EXTENDS Integers, FiniteSets

CONSTANTS
    Sessions,
    MonthCount,
    Sales,       \* completed POS sales, entered by the shared posting service
    Manual,      \* journals written by hand
    SoldIn,      \* the month of a sale
    Earning,     \* the entries that bear on the year's profit or loss
    Nobody,      \* the holder of a row nobody holds
    Meets        \* bound of the model: the requests that sessions may run at a time

Months == 1 .. MonthCount
Entries == Sales \cup Manual
Kinds == {"sale", "retry", "scan", "draft", "redate", "post", "reverse",
          "close", "lock", "reopen", "year"}

ASSUME ConstantsOK ==
    /\ MonthCount \in Nat \ {0}
    /\ Sales \cap Manual = {} /\ Entries # {}
    /\ SoldIn \in [Sales -> Months]
    /\ Earning \subseteq Entries
    /\ Nobody \notin Sessions
    /\ Meets \subseteq [Sessions -> Kinds]

VARIABLES
    month,      \* fiscal_periods.status
    year,       \* accounting_fiscal_years.status
    snapshot,   \* fiscal_periods.close_snapshot: the entries its trial balance counts
    closing,    \* the lines of the year's closing entry, dated its last day
    state,      \* accounting_journal_entries.status
    dated,      \* accounting_journal_entries.accounting_date
    reversal,   \* the month of the entry that reverses it, 0 when there is none
    posting,    \* the live row of accounting_postings for a sale
    lock,       \* who holds a row
    share,      \* who holds FOR KEY SHARE on a month: the foreign key of an entry written
    pc,         \* what a session does next
    tx          \* its request and what it has read

periods == <<month, year, snapshot, closing>>
journals == <<state, dated, reversal>>
database == <<periods, journals, posting>>
locks == <<lock, share>>
vars == <<database, locks, pc, tx>>

Sale(x) == <<"sale", x>>
Posting(x) == <<"posting", x>>
Entry(x) == <<"entry", x>>
Month(m) == <<"month", m>>
Numbers == <<"numbers">>
Rows == {Sale(x) : x \in Sales} \cup {Posting(x) : x \in Sales}
            \cup {Entry(x) : x \in Manual} \cup {Month(m) : m \in Months} \cup {Numbers}

AnyEntry == CHOOSE x \in Entries : TRUE
Idle == [kind |-> "scan", e |-> AnyEntry, m |-> 1, year |-> "open", seen |-> {}]

Init ==
    /\ month = [m \in Months |-> "open"]
    /\ year = "open"
    /\ snapshot = [m \in Months |-> {}]
    /\ closing = {}
    /\ state = [x \in Entries |-> "absent"]
    /\ dated = [x \in Entries |-> IF x \in Sales THEN SoldIn[x] ELSE 1]
    /\ reversal = [x \in Entries |-> 0]
    /\ posting = [x \in Sales |-> "none"]
    /\ lock = [r \in Rows |-> Nobody]
    /\ share = [m \in Months |-> {}]
    /\ pc = [s \in Sessions |-> "idle"]
    /\ tx = [s \in Sessions |-> Idle]

Closed(m) == month[m] \in {"closed", "locked"}
Booked(x) == state[x] \in {"posted", "reversed"}

\* What the trial balance of a month counts.
Books(m) == {<<"entry", x>> : x \in {y \in Entries : Booked(y) /\ dated[y] = m}}
                \cup {<<"reversal", x>> : x \in {y \in Entries : reversal[y] = m}}
                \cup (IF m = MonthCount THEN closing ELSE {})

\* A journal that may be changed, and one the month's first check counts.
Editable == {"draft", "rejected"}
Waiting == {"draft", "pending_approval", "approved"}

-----------------------------------------------------------------------------
(* Rows, and waiting for them. *)

Does(s, kinds) == tx[s].kind \in kinds

\* An entry that keeps its month is written without a look at the month's row.
Wanted(s) ==
    CASE pc[s] = "sale" -> {Sale(tx[s].e)}
      [] pc[s] \in {"row", "posting", "failed"} -> {Posting(tx[s].e)}
      [] pc[s] = "entry" -> {Entry(tx[s].e)}
      [] pc[s] = "number" -> {Numbers}
      [] pc[s] = "insert" -> IF Does(s, {"redate"}) /\ dated[tx[s].e] = tx[s].m
                             THEN {} ELSE {Month(tx[s].m)}
      [] pc[s] = "month" -> {Month(tx[s].m)}
      [] pc[s] = "year" -> {Month(m) : m \in Months}
      [] OTHER -> {}

\* FOR UPDATE on a month waits for the entries being written into it too.
Writers(s) ==
    CASE pc[s] = "month" -> share[tx[s].m]
      [] pc[s] = "year" -> UNION {share[m] : m \in Months}
      [] OTHER -> {}

Blockers(s) == ({lock[r] : r \in Wanted(s)} \cup Writers(s)) \ {Nobody, s}

At(s, where) == pc[s] = where
Go(s, where) == pc' = [pc EXCEPT ![s] = where]
Ready(s, where) == At(s, where) /\ Blockers(s) = {}
Take(s) == lock' = [r \in Rows |-> IF r \in Wanted(s) THEN s ELSE lock[r]]

\* Mutant: the sequence of numbers is held beyond the transaction.
LetGoButNumbers(s) ==
    /\ lock' = [r \in Rows |-> IF lock[r] = s /\ r # Numbers THEN Nobody ELSE lock[r]]
    /\ share' = [m \in Months |-> share[m] \ {s}]
    /\ tx' = [tx EXCEPT ![s] = Idle]
    /\ Go(s, "idle")

\* The rows of a transaction are let go when it ends.
LetGo(s) ==
    /\ lock' = [r \in Rows |-> IF lock[r] = s THEN Nobody ELSE lock[r]]
    /\ share' = [m \in Months |-> share[m] \ {s}]
    /\ tx' = [tx EXCEPT ![s] = Idle]
    /\ Go(s, "idle")

\* It is refused: nothing of it remains.
Refuse(s) == LetGo(s) /\ UNCHANGED database

-----------------------------------------------------------------------------
(* A request arrives.  It is for what somebody saw when asking. *)

Begin(s, kind, where, x, m) ==
    /\ At(s, "idle")
    /\ \E f \in Meets : f[s] = kind /\ \A t \in Sessions \ {s} : At(t, "idle") \/ Does(t, {f[t]})
    /\ tx' = [tx EXCEPT ![s] = [Idle EXCEPT !.kind = kind, !.e = x, !.m = m, !.year = year]]
    /\ Go(s, where)
    /\ UNCHANGED <<database, locks>>

\* The poster of a day-end report comes to a sale.
BeginSale(s) == \E x \in Sales : Begin(s, "sale", "sale", x, SoldIn[x])

\* Finance retries a posting that it saw failed.
BeginRetry(s) == \E x \in Sales : posting[x] = "FAILED" /\ Begin(s, "retry", "row", x, SoldIn[x])

\* The scan has found a sale without an entry, and goes on to record it.
BeginScan(s) == \E x \in Sales : state[x] = "absent" /\ Begin(s, "scan", "failed", x, SoldIn[x])

\* A new row.
BeginDraft(s) ==
    \E x \in Manual, m \in Months :
        /\ state[x] = "absent"
        /\ \A t \in Sessions : Does(t, {"draft"}) => tx[t].e # x
        /\ Begin(s, "draft", "period", x, m)

BeginRedate(s) ==
    \E x \in Manual, m \in Months :
        state[x] \in Editable /\ Begin(s, "redate", "entry", x, m)

BeginPost(s) == \E x \in Manual : state[x] = "approved" /\ Begin(s, "post", "entry", x, dated[x])

BeginReverse(s) ==
    \E x \in Manual, m \in Months : state[x] = "posted" /\ Begin(s, "reverse", "entry", x, m)

\* A closer works on a month, and what is read with its row includes the year's status.
BeginMonth(s) ==
    \E kind \in {"close", "lock", "reopen"}, m \in Months : Begin(s, kind, "month", AnyEntry, m)

BeginYear(s) == Begin(s, "year", "year", AnyEntry, MonthCount)

-----------------------------------------------------------------------------
(* An entry is written. *)

\* The sale's row is held to the end; one with an entry is left alone.
LockPosSale(s) ==
    /\ Ready(s, "sale")
    /\ IF state[tx[s].e] = "posted"
       THEN Refuse(s)
       ELSE Take(s) /\ Go(s, "period") /\ UNCHANGED <<database, share, tx>>

\* A retry first holds the posting, and only then comes to the sale.
RetryPosting(s) ==
    /\ Ready(s, "row")
    /\ IF posting[tx[s].e] = "FAILED"
       THEN Take(s) /\ Go(s, "sale") /\ UNCHANGED <<database, share, tx>>
       ELSE Refuse(s)

\* What a manual journal must be when its row is held.
Fit(s) ==
    CASE tx[s].kind = "redate" -> state[tx[s].e] \in Editable
      [] tx[s].kind = "post" -> state[tx[s].e] = "approved"
      [] OTHER -> state[tx[s].e] = "posted" /\ dated[tx[s].e] <= tx[s].m

LockEntry(s) ==
    /\ Ready(s, "entry")
    /\ IF Fit(s)
       THEN Take(s) /\ Go(s, "period") /\ UNCHANGED <<database, share, tx>>
       ELSE Refuse(s)

AfterPeriod(s) ==
    CASE Does(s, {"sale", "retry"}) -> "posting"
      [] Does(s, {"draft", "reverse"}) -> "number"
      [] Does(s, {"redate"}) -> "insert"
      [] OTHER -> "update"

\* The month is read, not locked.  What fails a sale's posting is recorded.
GetOpenPeriod(s) ==
    /\ At(s, "period")
    /\ IF month[tx[s].m] = "open"
       THEN Go(s, AfterPeriod(s)) /\ UNCHANGED <<database, locks, tx>>
       ELSE IF Does(s, {"sale", "retry"})
            THEN Go(s, "failed") /\ UNCHANGED <<database, locks, tx>>
            ELSE Refuse(s)

\* One live posting per document: the second waits for the first.
OpenPosting(s) ==
    /\ Ready(s, "posting")
    /\ Take(s)
    /\ Go(s, IF posting[tx[s].e] = "POSTED" THEN "failed" ELSE "number")
    /\ UNCHANGED <<database, share, tx>>

\* The sequence of journal numbers is held to the end of the transaction.
AllocateNumber(s) ==
    /\ Ready(s, "number")
    /\ Take(s)
    /\ Go(s, IF Does(s, {"year"}) THEN "commit" ELSE "insert")
    /\ UNCHANGED <<database, share, tx>>

\* Mutant: a month named in the entry with no foreign key, so that nobody waits.
InsertWithoutKey(s) ==
    /\ At(s, "insert")
    /\ IF Does(s, {"draft", "redate"})
       THEN /\ state' = [state EXCEPT ![tx[s].e] = "draft"]
            /\ dated' = [dated EXCEPT ![tx[s].e] = tx[s].m]
            /\ LetGo(s)
            /\ UNCHANGED <<periods, reversal, posting>>
       ELSE Go(s, "post") /\ UNCHANGED <<database, locks, tx>>

\* A draft is written and stays one; the other entries are to be posted at once.
InsertEntry(s) ==
    /\ Ready(s, "insert")
    /\ IF Does(s, {"draft", "redate"})
       THEN /\ state' = [state EXCEPT ![tx[s].e] = "draft"]
            /\ dated' = [dated EXCEPT ![tx[s].e] = tx[s].m]
            /\ LetGo(s)
            /\ UNCHANGED <<periods, reversal, posting>>
       ELSE /\ share' = [share EXCEPT ![tx[s].m] = @ \cup {s}]
            /\ Go(s, "post")
            /\ UNCHANGED <<database, lock, tx>>

\* Back to the savepoint: a retry holds its posting from before it.
BackToSavepoint(s) ==
    LET since == IF Does(s, {"retry"}) THEN {Numbers} ELSE {Numbers, Posting(tx[s].e)} IN
    /\ lock' = [r \in Rows |-> IF lock[r] = s /\ r \in since THEN Nobody ELSE lock[r]]
    /\ share' = [m \in Months |-> share[m] \ {s}]
    /\ Go(s, "failed")
    /\ UNCHANGED <<database, tx>>

\* The month is read again, and once more by the trigger of the entries' table.
PostEntry(s) ==
    /\ At(s, "post")
    /\ IF month[tx[s].m] = "open"
       THEN Go(s, "commit") /\ UNCHANGED <<database, locks, tx>>
       ELSE IF Does(s, {"sale", "retry"}) THEN BackToSavepoint(s) ELSE Refuse(s)

\* Anything else may fail a posting: a missing account, rate or journal.
PostingFails(s) ==
    /\ pc[s] \in {"period", "posting", "number", "insert", "post"}
    /\ Does(s, {"sale", "retry"})
    /\ BackToSavepoint(s)

\* Mutant: the failure is written whatever the row says by now.
RecordFailureOverAnything(s) ==
    /\ Ready(s, "failed")
    /\ posting' = [posting EXCEPT ![tx[s].e] = "FAILED"]
    /\ LetGo(s)
    /\ UNCHANGED <<periods, journals>>

\* A row that was posted meanwhile is not overwritten.
RecordPostingFailure(s) ==
    /\ Ready(s, "failed")
    /\ posting' = [posting EXCEPT ![tx[s].e] = IF @ = "POSTED" THEN @ ELSE "FAILED"]
    /\ LetGo(s)
    /\ UNCHANGED <<periods, journals>>

\* The manual journal: its row is updated, and no month is locked by that.
UpdateEntry(s) ==
    /\ At(s, "update")
    /\ IF month[tx[s].m] = "open"
       THEN Go(s, "commit") /\ UNCHANGED <<database, locks, tx>>
       ELSE Refuse(s)

CommitEntry(s) ==
    /\ At(s, "commit") /\ Does(s, {"post", "sale", "retry"})
    /\ state' = [state EXCEPT ![tx[s].e] = "posted"]
    /\ posting' = IF Does(s, {"post"}) THEN posting ELSE [posting EXCEPT ![tx[s].e] = "POSTED"]
    /\ LetGo(s)
    /\ UNCHANGED <<periods, dated, reversal>>

CommitReversal(s) ==
    /\ At(s, "commit") /\ Does(s, {"reverse"})
    /\ state' = [state EXCEPT ![tx[s].e] = "reversed"]
    /\ reversal' = [reversal EXCEPT ![tx[s].e] = tx[s].m]
    /\ LetGo(s)
    /\ UNCHANGED <<periods, dated, posting>>

-----------------------------------------------------------------------------
(* Statements that are a whole transaction: they wait for one row. *)

\* A manual journal passes from one status to another; nobody looks at its month.
Pass(x, from, to) ==
    /\ state[x] \in from /\ lock[Entry(x)] = Nobody
    /\ state' = [state EXCEPT ![x] = to]
    /\ UNCHANGED <<periods, dated, reversal, posting, locks, pc, tx>>

\* The company's policy asks for another person's approval, or for none.
SubmitJournalEntry(x) ==
    \/ Pass(x, Editable, "pending_approval")
    \/ Pass(x, Editable, "approved")

ApproveJournalEntry(x) == Pass(x, {"pending_approval"}, "approved")
RejectJournalApproval(x) == Pass(x, {"pending_approval"}, "rejected")
DiscardManualJournal(x) == Pass(x, Editable, "cancelled")

\* The row is kept, cancelled, and is a live posting no more.
DismissPosting(x) ==
    /\ posting[x] = "FAILED" /\ lock[Posting(x)] = Nobody
    /\ posting' = [posting EXCEPT ![x] = "none"]
    /\ UNCHANGED <<periods, journals, locks, pc, tx>>

Unheld(m) == lock[Month(m)] = Nobody /\ share[m] = {}

\* Mutant: a status of its own.
StartReviewMisspelt(m) ==
    /\ month[m] = "open" /\ Unheld(m)
    /\ month' = [month EXCEPT ![m] = "reviewing"]
    /\ UNCHANGED <<year, snapshot, closing, journals, posting, locks, pc, tx>>

StartPeriodReview(m) ==
    /\ month[m] = "open" /\ Unheld(m)
    /\ month' = [month EXCEPT ![m] = "review"]
    /\ UNCHANGED <<year, snapshot, closing, journals, posting, locks, pc, tx>>

ReturnPeriodToOpen(m) ==
    /\ month[m] = "review" /\ Unheld(m)
    /\ month' = [month EXCEPT ![m] = "open"]
    /\ UNCHANGED <<year, snapshot, closing, journals, posting, locks, pc, tx>>

-----------------------------------------------------------------------------
(* A month is closed, locked or reopened; a year is closed. *)

\* What the month must be.  Its status is that of the row once it is held; the
\* year's is the one the statement read before it waited.
Movable(s) ==
    CASE tx[s].kind = "close" -> month[tx[s].m] = "review"
      [] tx[s].kind = "lock" -> month[tx[s].m] = "closed"
      [] OTHER -> Closed(tx[s].m) /\ tx[s].year = "open"

LoadPeriod(s) ==
    /\ Ready(s, "month")
    /\ IF Movable(s)
       THEN Take(s) /\ Go(s, "others") /\ UNCHANGED <<database, share, tx>>
       ELSE Refuse(s)

\* The other months are read and not locked.
InOrder(s) ==
    CASE tx[s].kind = "close" -> \A k \in Months : k < tx[s].m => Closed(k)
      [] tx[s].kind = "lock" -> \A k \in Months : k < tx[s].m => month[k] = "locked"
      [] OTHER -> \A k \in Months : k > tx[s].m => ~Closed(k)

CheckOthers(s) ==
    /\ At(s, "others")
    /\ IF InOrder(s)
       THEN /\ Go(s, IF Does(s, {"close"}) THEN "journals" ELSE "commit")
            /\ UNCHANGED <<database, locks, tx>>
       ELSE Refuse(s)

\* The check for journals not posted; one that was rejected is not counted here.
Unposted(m) == {x \in Manual : state[x] \in Waiting /\ dated[x] = m}

\* The check for postings not in the books.  A manual journal has a posting of its
\* own, a draft as long as the journal is neither posted nor discarded.
NotInBooks(m) ==
    {x \in Sales : posting[x] = "FAILED" /\ SoldIn[x] = m}
        \cup {x \in Manual : state[x] \in Waiting \cup Editable /\ dated[x] = m}

CheckJournals(s) ==
    /\ At(s, "journals")
    /\ IF Unposted(tx[s].m) = {}
       THEN Go(s, "postings") /\ UNCHANGED <<database, locks, tx>>
       ELSE Refuse(s)

\* Mutant: only failed postings are counted.
CheckFailedOnly(s) ==
    /\ At(s, "postings")
    /\ IF NotInBooks(tx[s].m) \cap Sales = {}
       THEN Go(s, "balance") /\ UNCHANGED <<database, locks, tx>>
       ELSE Refuse(s)

CheckPostings(s) ==
    /\ At(s, "postings")
    /\ IF NotInBooks(tx[s].m) = {}
       THEN Go(s, "balance") /\ UNCHANGED <<database, locks, tx>>
       ELSE Refuse(s)

ReadTrialBalance(s) ==
    /\ At(s, "balance")
    /\ tx' = [tx EXCEPT ![s].seen = Books(tx[s].m)]
    /\ Go(s, "commit")
    /\ UNCHANGED <<database, locks>>

ClosePeriod(s) ==
    /\ At(s, "commit") /\ Does(s, {"close"})
    /\ month' = [month EXCEPT ![tx[s].m] = "closed"]
    /\ snapshot' = [snapshot EXCEPT ![tx[s].m] = tx[s].seen]
    /\ LetGo(s)
    /\ UNCHANGED <<year, closing, journals, posting>>

LockPeriod(s) ==
    /\ At(s, "commit") /\ Does(s, {"lock"})
    /\ month' = [month EXCEPT ![tx[s].m] = "locked"]
    /\ LetGo(s)
    /\ UNCHANGED <<year, snapshot, closing, journals, posting>>

ReopenPeriod(s) ==
    /\ At(s, "commit") /\ Does(s, {"reopen"})
    /\ month' = [month EXCEPT ![tx[s].m] = "open"]
    /\ LetGo(s)
    /\ UNCHANGED <<year, snapshot, closing, journals, posting>>

\* Mutant: what was reversed is carried over with the rest.
ResultOfAll == {<<"closing", x>> : x \in {y \in Earning : Booked(y)}}

\* The revenue and expense of the year; what was reversed comes to nothing.
Result == {<<"closing", x>> : x \in {y \in Earning : state[y] = "posted"}}

\* The months are held; with nothing to carry over there is no closing entry, else
\* it takes a number as every entry does.
LoadYear(s) ==
    /\ Ready(s, "year")
    /\ IF year = "open" /\ \A m \in Months : Closed(m)
       THEN /\ Take(s)
            /\ tx' = [tx EXCEPT ![s].seen = Result]
            /\ Go(s, IF Result = {} THEN "commit" ELSE "number")
            /\ UNCHANGED <<database, share>>
       ELSE Refuse(s)

\* The last month is open for the closing entry, to this transaction alone: when it
\* commits, the entry is in that month's books and every month is locked.
CloseFinancialYear(s) ==
    /\ At(s, "commit") /\ Does(s, {"year"})
    /\ year' = "closed"
    /\ month' = [m \in Months |-> "locked"]
    /\ closing' = tx[s].seen
    /\ LetGo(s)
    /\ UNCHANGED <<snapshot, journals, posting>>

-----------------------------------------------------------------------------
(* What goes wrong. *)

\* The connection is lost: the transaction is rolled back.
Abort(s) == pc[s] # "idle" /\ Refuse(s)

\* PostgreSQL ends a statement of a cycle of waiting ones.  What waits after a
\* savepoint goes back to it, the rest is rolled back.
Deadlocked(s) ==
    \E C \in SUBSET Sessions : s \in C /\ \A t \in C : Blockers(t) \cap C # {}

Guarded(s) ==
    \/ Does(s, {"sale", "retry"}) /\ pc[s] \in {"posting", "number", "insert"}
    \/ Does(s, {"retry"}) /\ At(s, "sale")

DetectDeadlock(s) ==
    /\ Deadlocked(s)
    /\ IF Guarded(s) THEN BackToSavepoint(s) ELSE Refuse(s)

-----------------------------------------------------------------------------
Request(s) ==
    \/ BeginSale(s) \/ BeginRetry(s) \/ BeginScan(s) \/ BeginDraft(s) \/ BeginRedate(s)
    \/ BeginPost(s) \/ BeginReverse(s) \/ BeginMonth(s) \/ BeginYear(s)

Statement(s) ==
    \/ LockPosSale(s) \/ RetryPosting(s) \/ LockEntry(s) \/ GetOpenPeriod(s) \/ OpenPosting(s)
    \/ AllocateNumber(s) \/ InsertEntry(s) \/ PostEntry(s) \/ RecordPostingFailure(s)
    \/ UpdateEntry(s) \/ CommitEntry(s) \/ CommitReversal(s)
    \/ LoadPeriod(s) \/ CheckOthers(s) \/ CheckJournals(s) \/ CheckPostings(s)
    \/ ReadTrialBalance(s) \/ ClosePeriod(s) \/ LockPeriod(s) \/ ReopenPeriod(s)
    \/ LoadYear(s) \/ CloseFinancialYear(s)

Next ==
    \/ \E s \in Sessions :
           Request(s) \/ Statement(s) \/ PostingFails(s) \/ Abort(s) \/ DetectDeadlock(s)
    \/ \E x \in Manual :
           SubmitJournalEntry(x) \/ ApproveJournalEntry(x) \/ RejectJournalApproval(x)
              \/ DiscardManualJournal(x)
    \/ \E x \in Sales : DismissPosting(x)
    \/ \E m \in Months : StartPeriodReview(m) \/ ReturnPeriodToOpen(m)

Spec == Init /\ [][Next]_vars

\* A request goes on to its end unless it waits; whoever waits for a row has a
\* place in its queue; PostgreSQL looks for transactions that wait for each
\* other.  Nobody has to ask for anything.
FairSpec ==
    /\ Spec
    /\ \A s \in Sessions : SF_vars(Statement(s))
    /\ WF_vars(\E s \in Sessions : DetectDeadlock(s))

-----------------------------------------------------------------------------
(* Properties. *)

Places == {"idle", "sale", "row", "entry", "period", "posting", "number", "insert", "post",
           "failed", "update", "commit", "month", "others", "journals", "postings", "balance",
           "year"}
Lines == {"entry", "reversal", "closing"} \X Entries
JournalStates == {"absent", "draft", "pending_approval", "rejected", "approved", "posted",
                  "reversed", "cancelled"}

\* Every variable keeps its type; a sale's entry is posted with its posting or not at all.
TypeOK ==
    /\ month \in [Months -> {"open", "review", "closed", "locked"}]
    /\ year \in {"open", "closed"}
    /\ snapshot \in [Months -> SUBSET Lines]
    /\ closing \subseteq {"closing"} \X Earning
    /\ state \in [Entries -> JournalStates]
    /\ dated \in [Entries -> Months]
    /\ reversal \in [Entries -> 0 .. MonthCount]
    /\ posting \in [Sales -> {"none", "FAILED", "POSTED"}]
    /\ lock \in [Rows -> Sessions \cup {Nobody}]
    /\ share \in [Months -> SUBSET Sessions]
    /\ pc \in [Sessions -> Places]
    /\ tx \in [Sessions -> [kind : Kinds, e : Entries, m : Months, year : {"open", "closed"},
                              seen : SUBSET Lines]]

\* What the statements of a closed month show is what it was closed with
\* (close_snapshot), whoever was writing into it when the review began; the last
\* month's show the closing entry besides, and nothing else.
SnapshotStands ==
    \A m \in Months : Closed(m) => Books(m) = snapshot[m] \cup (IF m = MonthCount THEN closing ELSE {})

\* The posting says of a sale what the books say, however its poster, a retry,
\* the scan and a dismissal cross: what was entered is never reported missing,
\* and what is reported posted is there.
PostingFollowsJournal ==
    \A x \in Sales : (posting[x] = "POSTED") <=> (state[x] = "posted")

\* "close only ... once nothing blocking is left": at the moment a month closes no
\* journal dated in it is unposted, though the checks have looked before and one of
\* them passes over a rejected journal, which anybody may submit again meanwhile.
ClosesWithAllPosted ==
    [][\A m \in Months :
          (~Closed(m) /\ Closed(m)') =>
              \A x \in Manual : dated'[x] = m => state'[x] \in {"absent", "posted", "reversed", "cancelled"}]_vars

\* No request waits for ever, whatever others it meets on its rows.
EveryRequestEnds == \A s \in Sessions : pc[s] # "idle" ~> pc[s] = "idle"

\* "close: once every earlier month is closed", "reopen: latest month first".
MonthsInOrder == \A k, m \in Months : (k < m /\ Closed(m)) => Closed(k)

Ledger == INSTANCE BooksContract WITH
    Sources <- Entries,
    entered <- [m \in Months |-> {x \in Entries : Booked(x) /\ dated[x] = m}],
    undone <- [m \in Months |-> {x \in Entries : reversal[x] = m}],
    frozen <- {m \in Months : Closed(m)},
    carried <- {x \in Entries : <<"closing", x>> \in closing},
    ended <- year = "closed"

\* An entry reaches the books once, is undone once, and only in months that are not
\* closed; the year's result is carried over once, whole, when all months are.
KeepsBooks == Ledger!Spec
=============================================================================

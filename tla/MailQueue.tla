----------------------------- MODULE MailQueue -----------------------------
(***************************************************************************)
(* The platform's mail queue (core/platform/mail/outbox.js): messages are  *)
(* queued in the transaction they belong to, sent by the web process once  *)
(* that transaction commits (apps/web/src/core/db.ts) and by the workers   *)
(* on every poll.                                                          *)
(*                                                                         *)
(* A sender is one running pass of processMailQueue: a worker's, or one    *)
(* the web process started.  Its statements are autocommitted, so each is  *)
(* an action; the rows carry no owner.  Message contents are abstracted to *)
(* whether the queued payload is still there.                              *)
(***************************************************************************)
EXTENDS Naturals, FiniteSets

CONSTANTS
    Ids,          \* mail_log rows
    Workers,      \* worker process incarnations
    WebPasses,    \* passes the web process may have running at once
    Configured,   \* the kinds of process, "web" and "worker", with a mail transport
    None,         \* the sender has no message in hand
    MaxAttempts,  \* MAX_ATTEMPTS
    BatchSize,    \* the limit of a pass
    MayCrash,     \* the workers that may be killed
    WebRestarts,  \* bound of the model: restarts of the web process
    Overrun,      \* may the two minutes run out while the sender is still at the batch?
    FaultCap,     \* bound of the model: statements that fail, before or after they committed
    ClaimCap      \* bound of the model: claims of a row

Senders == Workers \cup WebPasses
Process(p) == IF p \in Workers THEN "worker" ELSE "web"

\* A message as the claim returned it: RETURNING id, attempts, encrypted_payload.
Message == [id : Ids, tries : Nat, content : BOOLEAN]

ASSUME ConstantsOK ==
    /\ Workers \cap WebPasses = {}
    /\ Configured \subseteq {"web", "worker"}
    /\ None \notin Message
    /\ MaxAttempts \in Nat \ {0}
    /\ BatchSize \in Nat \ {0}
    /\ MayCrash \subseteq Workers
    /\ WebRestarts \in Nat
    /\ Overrun \in BOOLEAN
    /\ FaultCap \in Nat
    /\ ClaimCap \in Nat

VARIABLES
    status,     \* status[m]: the row; "writing" while its transaction is open
    payload,    \* payload[m]: encrypted_payload IS NOT NULL
    attempts,
    due,        \* next_attempt_at <= now()
    lease,      \* lease_expires_at against now()
    waiting,    \* the web process's flag: mail was queued and not yet tried
    scheduled,  \* a setImmediate callback of sendMailAfterCommit is pending
    restarts,   \* restarts of the web process so far
    phase,      \* phase[p]: where sender p stands
    batch,      \* batch[p]: messages p has claimed and not yet recorded
    current,    \* current[p]: the message in hand
    faults,     \* statements that failed so far
    delivered,  \* history: how often the mail server took the message
    recorded    \* history: whether the row was ever marked sent

rows == <<status, payload, attempts, due, lease>>
web == <<waiting, scheduled, restarts>>
passes == <<phase, batch, current>>
vars == <<rows, web, passes, faults, delivered, recorded>>

Statuses == {"none", "writing", "rolledback", "queued", "sending", "sent",
             "failed", "bounced", "not_configured", "gone"}
Phases == {"idle", "claiming", "batch", "accepted", "refused", "bounced", "unset", "crashed"}

\* A statement succeeds, or it fails as far as its caller can tell.
NoFault == UNCHANGED faults
Fault == faults < FaultCap /\ faults' = faults + 1

Live(p) == phase[p] # "crashed"
Open(m) == status[m] \in {"queued", "sending"}
GivenUp(m) == status[m] \in {"failed", "bounced", "not_configured"}

Init ==
    /\ status = [m \in Ids |-> "none"]
    /\ payload = [m \in Ids |-> FALSE]
    /\ attempts = [m \in Ids |-> 0]
    /\ due = [m \in Ids |-> FALSE]
    /\ lease = [m \in Ids |-> "none"]
    /\ waiting = FALSE
    /\ scheduled = FALSE
    /\ restarts = 0
    /\ phase = [p \in Senders |-> "idle"]
    /\ batch = [p \in Senders |-> {}]
    /\ current = [p \in Senders |-> None]
    /\ faults = 0
    /\ delivered = [m \in Ids |-> 0]
    /\ recorded = [m \in Ids |-> FALSE]

-----------------------------------------------------------------------------
(* Queueing. *)

Inserted(m, kind) ==
    /\ payload' = [payload EXCEPT ![m] = kind \in Configured]
    /\ due' = [due EXCEPT ![m] = TRUE]
    /\ UNCHANGED <<attempts, lease, passes, faults, delivered, recorded>>

\* queueSecurityMail, queueMail and queueSupportReply in a web request: the flag
\* is set here, while the transaction is still open.
QueueMail(m) ==
    /\ status[m] = "none"
    /\ status' = [status EXCEPT ![m] = "writing"]
    /\ waiting' = (waiting \/ "web" \in Configured)
    /\ Inserted(m, "web")
    /\ UNCHANGED <<scheduled, restarts>>

\* The request commits, and sendMailAfterCommit looks at the flag.
CommitRequest(m) ==
    /\ status[m] = "writing"
    /\ status' = [status EXCEPT ![m] = IF payload[m] THEN "queued" ELSE "not_configured"]
    /\ scheduled' = (scheduled \/ waiting)
    /\ UNCHANGED <<payload, attempts, due, lease, waiting, restarts, passes, faults, delivered, recorded>>

\* The request rolls back; the flag stays.
RollbackRequest(m) ==
    /\ status[m] = "writing"
    /\ status' = [status EXCEPT ![m] = "rolledback"]
    /\ payload' = [payload EXCEPT ![m] = FALSE]
    /\ UNCHANGED <<attempts, due, lease, web, passes, faults, delivered, recorded>>

\* Some other request commits, and sendMailAfterCommit looks at the same flag.
OtherRequestCommits ==
    /\ waiting
    /\ ~scheduled
    /\ scheduled' = TRUE
    /\ UNCHANGED <<rows, waiting, restarts, passes, faults, delivered, recorded>>

\* The same three functions in a worker's transaction (workflow runs, digests).
QueueInWorker(m) ==
    /\ status[m] = "none"
    /\ status' = [status EXCEPT ![m] = IF "worker" \in Configured THEN "queued" ELSE "not_configured"]
    /\ Inserted(m, "worker")
    /\ UNCHANGED web

-----------------------------------------------------------------------------
(* Time, retention, and the end of a process. *)

NextAttemptArrives(m) ==
    /\ status[m] = "queued"
    /\ ~due[m]
    /\ due' = [due EXCEPT ![m] = TRUE]
    /\ UNCHANGED <<status, payload, attempts, lease, web, passes, faults, delivered, recorded>>

\* The two minutes of a claim pass.  Unless Overrun, the batch is done by then.
LeaseExpires(m) ==
    /\ status[m] = "sending"
    /\ lease[m] = "live"
    /\ Overrun \/ \A p \in Senders : \A c \in batch[p] : c.id # m
    /\ lease' = [lease EXCEPT ![m] = "expired"]
    /\ UNCHANGED <<status, payload, attempts, due, web, passes, faults, delivered, recorded>>

\* prune_platform_history, past the retention.
Prune(m) ==
    /\ status[m] = "sent" \/ GivenUp(m)
    /\ status' = [status EXCEPT ![m] = "gone"]
    /\ UNCHANGED <<payload, attempts, due, lease, web, passes, faults, delivered, recorded>>

Crash(w) ==
    /\ w \in MayCrash
    /\ Live(w)
    /\ phase' = [phase EXCEPT ![w] = "crashed"]
    /\ batch' = [batch EXCEPT ![w] = {}]
    /\ current' = [current EXCEPT ![w] = None]
    /\ UNCHANGED <<rows, web, faults, delivered, recorded>>

\* The web process restarts: open requests roll back, passes and the flag are lost.
WebRestart ==
    /\ restarts < WebRestarts
    /\ restarts' = restarts + 1
    /\ waiting' = FALSE
    /\ scheduled' = FALSE
    /\ status' = [m \in Ids |-> IF status[m] = "writing" THEN "rolledback" ELSE status[m]]
    /\ payload' = [m \in Ids |-> payload[m] /\ status[m] # "writing"]
    /\ phase' = [p \in Senders |-> IF p \in WebPasses THEN "idle" ELSE phase[p]]
    /\ batch' = [p \in Senders |-> IF p \in WebPasses THEN {} ELSE batch[p]]
    /\ current' = [p \in Senders |-> IF p \in WebPasses THEN None ELSE current[p]]
    /\ UNCHANGED <<attempts, due, lease, faults, delivered, recorded>>

-----------------------------------------------------------------------------
(* A pass of processMailQueue. *)

To(p, ph) == phase' = [phase EXCEPT ![p] = ph]

\* A worker begins a pass at the end of every poll ...
BeginPoll(w) ==
    /\ w \in Workers
    /\ phase[w] = "idle"
    /\ To(w, "claiming")
    /\ UNCHANGED <<rows, web, batch, current, faults, delivered, recorded>>

\* ... the web process when the pending callback finds the flag set (sendWaitingMail).
SendWaitingMail(p) ==
    /\ p \in WebPasses
    /\ phase[p] = "idle"
    /\ scheduled
    /\ scheduled' = FALSE
    /\ waiting' = FALSE
    /\ To(p, IF waiting THEN "claiming" ELSE "idle")
    /\ UNCHANGED <<rows, restarts, batch, current, faults, delivered, recorded>>

\* Mutant: an abandoned message is not taken up again.
ClaimableQueued ==
    {m \in Ids : status[m] = "queued" /\ due[m] /\ attempts[m] < ClaimCap}

\* Mutant: the lease is not looked at.
ClaimableLeased ==
    {m \in Ids : /\ (status[m] = "queued" /\ due[m]) \/ status[m] = "sending"
                 /\ attempts[m] < ClaimCap}

Claimable ==
    {m \in Ids : /\ \/ status[m] = "queued" /\ due[m]
                    \/ status[m] = "sending" /\ lease[m] = "expired"
                 /\ attempts[m] < ClaimCap}

\* Rows another statement may hold locked just now.
InFlight == {current[p].id : p \in {q \in Senders : current[q] # None}}

ClaimMail(p, S) ==
    /\ phase[p] = "claiming"
    /\ S \subseteq Claimable
    /\ Cardinality(S) <= BatchSize
    /\ Cardinality(S) = BatchSize \/ Claimable \ S \subseteq InFlight
    /\ status' = [m \in Ids |-> IF m \in S THEN "sending" ELSE status[m]]
    /\ lease' = [m \in Ids |-> IF m \in S THEN "live" ELSE lease[m]]
    /\ attempts' = [m \in Ids |-> IF m \in S THEN attempts[m] + 1 ELSE attempts[m]]
    /\ \/ /\ NoFault
          /\ To(p, "batch")
          /\ batch' = [batch EXCEPT ![p] =
                {[id |-> m, tries |-> attempts[m] + 1, content |-> payload[m]] : m \in S}]
       \/ /\ Fault                 \* claimed, but the answer was lost
          /\ To(p, "idle")
          /\ UNCHANGED batch
    /\ UNCHANGED <<payload, due, web, current, delivered, recorded>>

\* The next message is decrypted and handed to the mail server, which takes it,
\* takes it without our knowing, refuses it for now, or refuses it for good.
Send(p, c) ==
    /\ phase[p] = "batch"
    /\ c \in batch[p]
    /\ current' = [current EXCEPT ![p] = c]
    /\ IF ~c.content                        \* decryptSecret throws
       THEN To(p, "refused") /\ UNCHANGED delivered
       ELSE IF Process(p) \notin Configured
       THEN To(p, "unset") /\ UNCHANGED delivered
       ELSE \/ /\ delivered' = [delivered EXCEPT ![c.id] = @ + 1]
               /\ To(p, "accepted") \/ To(p, "refused")
            \/ /\ UNCHANGED delivered
               /\ To(p, "refused") \/ To(p, "bounced")
    /\ UNCHANGED <<rows, web, batch, faults, recorded>>

\* The pass goes on to its next message.
Release(p) ==
    /\ batch' = [batch EXCEPT ![p] = @ \ {current[p]}]
    /\ current' = [current EXCEPT ![p] = None]
    /\ To(p, "batch")

\* Mutant: a status the column's check does not know.
MarkSentMisspelt(m) ==
    /\ status' = [status EXCEPT ![m] = "delivered"]
    /\ payload' = [payload EXCEPT ![m] = FALSE]
    /\ lease' = [lease EXCEPT ![m] = "none"]
    /\ recorded' = [recorded EXCEPT ![m] = TRUE]
    /\ UNCHANGED <<attempts, due>>

\* Mutant: the content is kept.
MarkSentKeeping(m) ==
    IF status[m] = "gone" THEN UNCHANGED <<rows, recorded>>
    ELSE /\ status' = [status EXCEPT ![m] = "sent"]
         /\ lease' = [lease EXCEPT ![m] = "none"]
         /\ recorded' = [recorded EXCEPT ![m] = TRUE]
         /\ UNCHANGED <<payload, attempts, due>>

\* UPDATE ... WHERE id: nobody asks whose claim the row is under.
MarkSent(m) ==
    IF status[m] = "gone" THEN UNCHANGED <<rows, recorded>>
    ELSE /\ status' = [status EXCEPT ![m] = "sent"]
         /\ payload' = [payload EXCEPT ![m] = FALSE]
         /\ lease' = [lease EXCEPT ![m] = "none"]
         /\ recorded' = [recorded EXCEPT ![m] = TRUE]
         /\ UNCHANGED <<attempts, due>>

\* An error here falls into the catch block, like a refusal.
RecordSent(p) ==
    /\ phase[p] = "accepted"
    /\ \/ NoFault /\ MarkSent(current[p].id) /\ Release(p)
       \/ /\ Fault
          /\ MarkSent(current[p].id) \/ UNCHANGED <<rows, recorded>>
          /\ To(p, "refused")
          /\ UNCHANGED <<batch, current>>
    /\ UNCHANGED <<web, delivered>>

\* Where a failure puts the row, by the attempts the claim returned.
FailureStatus(p) ==
    CASE phase[p] = "bounced" -> "bounced"
      [] phase[p] = "unset"   -> "not_configured"
      [] phase[p] = "refused" ->
            IF current[p].tries >= MaxAttempts THEN "failed" ELSE "queued"

\* Mutant: the content is erased whether or not the message is given up.
MarkFailedErasing(m, s) ==
    /\ status' = [status EXCEPT ![m] = s]
    /\ payload' = [payload EXCEPT ![m] = FALSE]
    /\ due' = [due EXCEPT ![m] = FALSE]
    /\ lease' = [lease EXCEPT ![m] = "none"]
    /\ UNCHANGED attempts

MarkFailed(m, s) ==
    IF status[m] = "gone" THEN UNCHANGED rows
    ELSE /\ status' = [status EXCEPT ![m] = s]
         /\ payload' = [payload EXCEPT ![m] = @ /\ s = "queued"]
         /\ due' = [due EXCEPT ![m] = FALSE]
         /\ lease' = [lease EXCEPT ![m] = "none"]
         /\ UNCHANGED attempts

RecordFailure(p) ==
    /\ phase[p] \in {"refused", "bounced", "unset"}
    /\ MarkFailed(current[p].id, FailureStatus(p))
    /\ Release(p)
    /\ UNCHANGED <<web, faults, delivered, recorded>>

\* The catch block's own statement fails: the pass ends, its batch stays claimed.
AbandonBatch(p) ==
    /\ phase[p] \in {"refused", "bounced", "unset"}
    /\ Fault
    /\ MarkFailed(current[p].id, FailureStatus(p)) \/ UNCHANGED rows
    /\ batch' = [batch EXCEPT ![p] = {}]
    /\ current' = [current EXCEPT ![p] = None]
    /\ To(p, "idle")
    /\ UNCHANGED <<web, delivered, recorded>>

EndPass(p) ==
    /\ phase[p] = "batch"
    /\ batch[p] = {}
    /\ To(p, "idle")
    /\ UNCHANGED <<rows, web, batch, current, faults, delivered, recorded>>

-----------------------------------------------------------------------------

Pass(p) ==
    \/ BeginPoll(p)
    \/ SendWaitingMail(p)
    \/ \E S \in SUBSET Ids : ClaimMail(p, S)
    \/ \E c \in batch[p] : Send(p, c)
    \/ RecordSent(p)
    \/ RecordFailure(p)
    \/ AbandonBatch(p)
    \/ EndPass(p)

Next ==
    \/ \E m \in Ids :
          \/ QueueMail(m) \/ CommitRequest(m) \/ RollbackRequest(m) \/ QueueInWorker(m)
          \/ NextAttemptArrives(m) \/ LeaseExpires(m) \/ Prune(m)
    \/ OtherRequestCommits
    \/ WebRestart
    \/ \E w \in Workers : Crash(w)
    \/ \E p \in Senders : Pass(p)

Spec == Init /\ [][Next]_vars

\* Running senders go on and their connections time out; the clock advances.
Fairness ==
    /\ \A p \in Senders : WF_vars(Pass(p))
    /\ \A m \in Ids : WF_vars(NextAttemptArrives(m)) /\ WF_vars(LeaseExpires(m))

FairSpec == Spec /\ Fairness

-----------------------------------------------------------------------------

\* Types of the columns, of the web process's flags and of a pass's memory.
TypeOK ==
    /\ status \in [Ids -> Statuses]
    /\ payload \in [Ids -> BOOLEAN]
    /\ attempts \in [Ids -> Nat]
    /\ due \in [Ids -> BOOLEAN]
    /\ lease \in [Ids -> {"none", "live", "expired"}]
    /\ waiting \in BOOLEAN
    /\ scheduled \in BOOLEAN
    /\ restarts \in Nat
    /\ phase \in [Senders -> Phases]
    /\ batch \in [Senders -> SUBSET Message]
    /\ current \in [Senders -> Message \cup {None}]
    /\ faults \in Nat
    /\ delivered \in [Ids -> Nat]
    /\ recorded \in [Ids -> BOOLEAN]

\* The one-time link of a message is erased once it is sent or given up, whatever
\* passes overlap and whatever statements fail ("erased once sent or given up").
ErasedWhenDone ==
    \A m \in Ids :
        status[m] = "sent" \/ GivenUp(m) \/ status[m] = "gone" => ~payload[m]

\* A message still to be sent has its content: otherwise every later attempt
\* fails on the decryption and the log ends up saying it was not sent.
OpenHasContent == \A m \in Ids : Open(m) => payload[m]

\* Only a message recorded as sent loses its content while it is still to be sent:
\* not one given up by one pass and queued again by another, nor one whose failure
\* was recorded without an answer.
OnlySentLoseContent == \A m \in Ids : Open(m) => payload[m] \/ recorded[m]

\* While a worker keeps running, every queued message is settled, through restarts
\* of the web process, statements that fail and the crash of other workers.
EveryMailSettled ==
    [](\E w \in Workers : Live(w)) => \A m \in Ids : status[m] = "queued" ~> ~Open(m)

-----------------------------------------------------------------------------

\* A row that was never queued for sending is none of the queue's business.  One that
\* was marked sent is done, even if the lost answer to that makes its row say, until
\* it is pruned, that the message is queued again or was given up.
Seen(m) ==
    IF recorded[m] THEN IF status[m] = "gone" THEN "gone" ELSE "done"
    ELSE CASE Open(m)                       -> "open"
           [] ~Open(m) /\ attempts[m] = 0   -> "none"
           [] GivenUp(m) /\ attempts[m] # 0 -> "dead"
           [] OTHER                         -> "gone"

Contract == INSTANCE DeliveryContract WITH
    Atomic     <- {},
    Reopenable <- {},
    Losable    <- {},
    state      <- [m \in Ids |-> Seen(m)]

\* While claims outlast their batches the mail queue keeps the contract of a durable
\* queue: above all, the mail server never gets again what was once marked sent.
KeepsContract == Contract!Spec
=============================================================================

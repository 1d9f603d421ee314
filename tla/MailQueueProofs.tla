-------------------------- MODULE MailQueueProofs --------------------------
(***************************************************************************)
(* Theorems about MailQueue, for every set of messages, workers and web    *)
(* passes, any process with or without a mail transport, and any restart,  *)
(* crash or statement failure.                                             *)
(***************************************************************************)
EXTENDS MailQueue, TLAPS

USE ConstantsOK

RowsOK ==
    /\ status \in [Ids -> Statuses]
    /\ payload \in [Ids -> BOOLEAN]
    /\ attempts \in [Ids -> Nat]
    /\ due \in [Ids -> BOOLEAN]
    /\ lease \in [Ids -> {"none", "live", "expired"}]

PassesOK ==
    /\ phase \in [Senders -> Phases]
    /\ batch \in [Senders -> SUBSET Message]
    /\ current \in [Senders -> Message \cup {None}]

\* Rows stay well typed whoever records an outcome.
LEMMA SettlingTyped ==
  ASSUME RowsOK, NEW m, NEW s \in Statuses, MarkSent(m) \/ MarkFailed(m, s)
  PROVE  RowsOK'
<1>1. CASE MarkSent(m)
  BY <1>1 DEF MarkSent, RowsOK, rows, Statuses
<1>2. CASE MarkFailed(m, s) /\ status[m] # "gone"
  <2>1. \A i \in Ids : (payload[i] /\ s = "queued") \in BOOLEAN
    OBVIOUS
  <2>2. payload' \in [Ids -> BOOLEAN]
    BY <1>2, <2>1 DEF MarkFailed, RowsOK
  <2>3. /\ status' = [status EXCEPT ![m] = s] /\ due' = [due EXCEPT ![m] = FALSE]
        /\ lease' = [lease EXCEPT ![m] = "none"] /\ attempts' = attempts
    BY <1>2, Zenon DEF MarkFailed
  <2>4. due' \in [Ids -> BOOLEAN]
    BY <2>3 DEF RowsOK
  <2>5. status' \in [Ids -> Statuses] /\ lease' \in [Ids -> {"none", "live", "expired"}]
    BY <2>3 DEF RowsOK
  <2> QED
    BY <2>2, <2>3, <2>4, <2>5 DEF RowsOK
<1>3. CASE UNCHANGED rows
  BY <1>3 DEF RowsOK, rows
<1> QED
  BY <1>1, <1>2, <1>3 DEF MarkFailed

\* A failed attempt ends in a status that the table knows.
LEMMA FailureTyped ==
  ASSUME NEW p, phase[p] \in {"refused", "bounced", "unset"}
  PROVE  FailureStatus(p) \in {"failed", "bounced", "not_configured", "queued"}
BY DEF FailureStatus

\* What a claim hands to its pass are messages.
LEMMA ClaimTyped ==
  ASSUME TypeOK, NEW p \in Senders, NEW S \in SUBSET Ids, ClaimMail(p, S)
  PROVE  TypeOK'
<1> USE DEF TypeOK
<1>1. RowsOK'
  BY DEF ClaimMail, RowsOK, Statuses
<1>2. {[id |-> m, tries |-> attempts[m] + 1, content |-> payload[m]] : m \in S} \in SUBSET Message
  BY DEF Message
<1>3. phase' \in [Senders -> Phases] /\ batch' \in [Senders -> SUBSET Message] /\ faults' \in Nat
  BY <1>2 DEF ClaimMail, To, NoFault, Fault, Phases
<1> QED
  BY <1>1, <1>3 DEF ClaimMail, RowsOK, web

\* A count of attempts stays a count.
LEMMA Counted ==
  ASSUME NEW f \in [Ids -> Nat], NEW m
  PROVE  [f EXCEPT ![m] = @ + 1] \in [Ids -> Nat]
<1>1. \A i \in Ids : f[i] + 1 \in Nat
  OBVIOUS
<1> QED
  BY <1>1

\* What a web request or a worker's transaction may do to a row and the flags.
LEMMA QueueTyped ==
  ASSUME TypeOK, NEW m \in Ids,
         QueueMail(m) \/ CommitRequest(m) \/ RollbackRequest(m) \/ QueueInWorker(m)
  PROVE  TypeOK'
<1> USE DEF TypeOK
<1>1. waiting' \in BOOLEAN
  BY DEF QueueMail, CommitRequest, RollbackRequest, QueueInWorker, web
<1>2. scheduled' \in BOOLEAN /\ restarts' \in Nat
  BY DEF QueueMail, CommitRequest, RollbackRequest, QueueInWorker, web
<1>3. ("web" \in Configured) \in BOOLEAN /\ ("worker" \in Configured) \in BOOLEAN
  OBVIOUS
<1>4. payload' \in [Ids -> BOOLEAN]
  BY <1>3 DEF QueueMail, CommitRequest, RollbackRequest, QueueInWorker, Inserted
<1>7. due' \in [Ids -> BOOLEAN]
  BY DEF QueueMail, CommitRequest, RollbackRequest, QueueInWorker, Inserted
<1>5. status' \in [Ids -> Statuses]
  BY DEF QueueMail, CommitRequest, RollbackRequest, QueueInWorker, Statuses
<1>6. UNCHANGED <<attempts, lease, passes, faults, delivered, recorded>>
  BY DEF QueueMail, CommitRequest, RollbackRequest, QueueInWorker, Inserted
<1> QED
  BY <1>1, <1>2, <1>4, <1>5, <1>6, <1>7 DEF passes

\* A restart of the web process keeps the types.
LEMMA RestartTyped == TypeOK /\ WebRestart => TypeOK'
<1> SUFFICES ASSUME TypeOK, WebRestart PROVE TypeOK'
  OBVIOUS
<1> USE DEF TypeOK
<1>1. RowsOK'
  <2>1. \A m \in Ids : (payload[m] /\ status[m] # "writing") \in BOOLEAN
    OBVIOUS
  <2>2. payload' \in [Ids -> BOOLEAN]
    BY <2>1 DEF WebRestart
  <2> QED
    BY <2>2 DEF WebRestart, RowsOK, Statuses
<1>2. PassesOK'
  BY DEF WebRestart, PassesOK, Phases
<1>3. waiting' \in BOOLEAN /\ scheduled' \in BOOLEAN
  BY DEF WebRestart
<1> QED
  BY <1>1, <1>2, <1>3 DEF WebRestart, RowsOK, PassesOK

\* Every step keeps the types.
LEMMA TypeStep == TypeOK /\ [Next]_vars => TypeOK'
<1> SUFFICES ASSUME TypeOK, [Next]_vars PROVE TypeOK'
  OBVIOUS
<1> USE DEF TypeOK
<1>1. ASSUME NEW m \in Ids, NextAttemptArrives(m) \/ LeaseExpires(m) \/ Prune(m) PROVE TypeOK'
  BY <1>1 DEF NextAttemptArrives, LeaseExpires, Prune, web, passes, Statuses
<1>2. CASE OtherRequestCommits
  <2>1. scheduled' \in BOOLEAN
    BY <1>2 DEF OtherRequestCommits
  <2> QED
    BY <1>2, <2>1 DEF OtherRequestCommits, rows, passes
<1>3. ASSUME NEW w \in Workers, Crash(w) PROVE TypeOK'
  BY <1>3 DEF Crash, rows, web, Phases
<1>4. ASSUME NEW p \in Senders, BeginPoll(p) \/ EndPass(p) PROVE TypeOK'
  BY <1>4 DEF BeginPoll, EndPass, To, rows, web, Phases
<1>5. ASSUME NEW p \in Senders, SendWaitingMail(p) PROVE TypeOK'
  <2>1. waiting' \in BOOLEAN /\ scheduled' \in BOOLEAN
    BY <1>5 DEF SendWaitingMail
  <2> QED
    BY <1>5, <2>1 DEF SendWaitingMail, To, rows, Phases
<1>6. ASSUME NEW p \in Senders, NEW c \in batch[p], Send(p, c) PROVE TypeOK'
  <2>1. delivered' \in [Ids -> Nat]
    BY <1>6, Counted DEF Send
  <2>2. phase' \in [Senders -> Phases] /\ current' \in [Senders -> Message \cup {None}]
    BY <1>6 DEF Send, To, Phases
  <2> QED
    BY <1>6, <2>1, <2>2 DEF Send, rows, web
<1>7. ASSUME NEW p \in Senders, RecordSent(p) PROVE TypeOK'
  <2>1. RowsOK'
    <3>1. RowsOK /\ "sent" \in Statuses
      BY DEF RowsOK, Statuses
    <3>2. MarkSent(current[p].id) \/ UNCHANGED rows
      BY <1>7 DEF RecordSent
    <3> QED
      BY <3>1, <3>2, SettlingTyped DEF RowsOK, rows
  <2>2. PassesOK'
    BY <1>7 DEF RecordSent, Release, To, PassesOK, Phases
  <2>3. faults' \in Nat
    BY <1>7 DEF RecordSent, NoFault, Fault
  <2>4. recorded' \in [Ids -> BOOLEAN]
    BY <1>7 DEF RecordSent, MarkSent
  <2> QED
    BY <1>7, <2>1, <2>2, <2>3, <2>4 DEF RecordSent, RowsOK, PassesOK, web
<1>8. ASSUME NEW p \in Senders, RecordFailure(p) \/ AbandonBatch(p) PROVE TypeOK'
  <2>1. RowsOK'
    <3>1. RowsOK /\ FailureStatus(p) \in Statuses
      BY <1>8, FailureTyped DEF RowsOK, RecordFailure, AbandonBatch, Statuses
    <3>2. MarkFailed(current[p].id, FailureStatus(p)) \/ UNCHANGED rows
      BY <1>8 DEF RecordFailure, AbandonBatch
    <3> QED
      BY <3>1, <3>2, SettlingTyped DEF RowsOK, rows
  <2>2. PassesOK'
    BY <1>8 DEF RecordFailure, AbandonBatch, Release, To, PassesOK, Phases
  <2>3. faults' \in Nat /\ UNCHANGED <<web, delivered, recorded>>
    BY <1>8 DEF RecordFailure, AbandonBatch, Fault
  <2> QED
    BY <2>1, <2>2, <2>3 DEF RowsOK, PassesOK, web
<1>9. CASE UNCHANGED vars
  BY <1>9 DEF vars, rows, web, passes
<1> QED
  BY <1>1, <1>2, <1>3, <1>4, <1>5, <1>6, <1>7, <1>8, <1>9, QueueTyped, ClaimTyped, RestartTyped
     DEF Next, Pass

\* The initial state has the types.
LEMMA InitTyped == Init => TypeOK
<1>1. Init => waiting \in BOOLEAN /\ scheduled \in BOOLEAN
  BY DEF Init
<1> QED
  BY <1>1 DEF Init, TypeOK, Statuses, Phases

\* Every column, flag and pass memory stays in its type: the CHECK constraints of
\* mail_log are never hit.
THEOREM TypeCorrect == Spec => []TypeOK
BY InitTyped, TypeStep, PTL DEF Spec

-----------------------------------------------------------------------------

\* The content goes in the statement that records the end of a message, and never comes back.
LEMMA ErasedStep == ErasedWhenDone /\ TypeOK /\ [Next]_vars => ErasedWhenDone'
<1> SUFFICES ASSUME TypeOK, ErasedWhenDone, [Next]_vars PROVE ErasedWhenDone'
  OBVIOUS
<1> USE DEF TypeOK, ErasedWhenDone, GivenUp
<1>1. ASSUME UNCHANGED <<status, payload>> PROVE ErasedWhenDone'
  BY <1>1
<1>2. ASSUME NEW m \in Ids, NEW s, status' = [status EXCEPT ![m] = s], payload' = [payload EXCEPT ![m] = FALSE]
      PROVE ErasedWhenDone'
  BY <1>2
<1>3. ASSUME NEW m \in Ids, status' = [status EXCEPT ![m] = "queued"] \/ status' = [status EXCEPT ![m] = "writing"],
             \A i \in Ids \ {m} : payload'[i] = payload[i]
      PROVE ErasedWhenDone'
  BY <1>3
<1>4. ASSUME NEW m \in Ids, QueueMail(m) PROVE ErasedWhenDone'
  BY <1>3, <1>4 DEF QueueMail, Inserted
<1>5. ASSUME NEW m \in Ids, CommitRequest(m) PROVE ErasedWhenDone'
  BY <1>5 DEF CommitRequest
<1>6. ASSUME NEW m \in Ids, RollbackRequest(m) PROVE ErasedWhenDone'
  BY <1>2, <1>6 DEF RollbackRequest
<1>7. ASSUME NEW m \in Ids, QueueInWorker(m) PROVE ErasedWhenDone'
  BY <1>7 DEF QueueInWorker, Inserted
<1>8. ASSUME NEW m \in Ids, NextAttemptArrives(m) \/ LeaseExpires(m) PROVE ErasedWhenDone'
  BY <1>1, <1>8 DEF NextAttemptArrives, LeaseExpires
<1>9. ASSUME NEW m \in Ids, Prune(m) PROVE ErasedWhenDone'
  BY <1>9 DEF Prune
<1>10. CASE WebRestart
  BY <1>10 DEF WebRestart
<1>11. ASSUME NEW p \in Senders, NEW S \in SUBSET Ids, ClaimMail(p, S) PROVE ErasedWhenDone'
  BY <1>11 DEF ClaimMail
<1>12. ASSUME NEW m, MarkSent(m) PROVE ErasedWhenDone'
  BY <1>12 DEF MarkSent, rows
<1>13. ASSUME NEW m, NEW s \in {"failed", "bounced", "not_configured", "queued"}, MarkFailed(m, s)
       PROVE ErasedWhenDone'
  <2>1. CASE s = "queued" /\ status[m] # "gone"
    BY <1>13, <2>1 DEF MarkFailed
  <2>2. CASE s # "queued" /\ status[m] # "gone"
    <3>1. m \in Ids => payload'[m] = FALSE
      BY <1>13, <2>2 DEF MarkFailed
    <3>2. \A i \in Ids \ {m} : status'[i] = status[i] /\ payload'[i] = payload[i]
      BY <1>13, <2>2 DEF MarkFailed
    <3> QED
      BY <3>1, <3>2
  <2> QED
    BY <1>1, <1>13, <2>1, <2>2 DEF MarkFailed, rows
<1>14. ASSUME UNCHANGED rows PROVE ErasedWhenDone'
  BY <1>1, <1>14 DEF rows
<1>15. ASSUME NEW p \in Senders, RecordSent(p) PROVE ErasedWhenDone'
  BY <1>12, <1>14, <1>15 DEF RecordSent
<1>16. ASSUME NEW p \in Senders, RecordFailure(p) \/ AbandonBatch(p) PROVE ErasedWhenDone'
  BY <1>13, <1>14, <1>16, FailureTyped DEF RecordFailure, AbandonBatch
<1>17. ASSUME NEW p \in Senders, \/ BeginPoll(p) \/ SendWaitingMail(p) \/ EndPass(p) \/ Crash(p)
                                 \/ \E c \in batch[p] : Send(p, c)
       PROVE ErasedWhenDone'
  BY <1>14, <1>17 DEF BeginPoll, SendWaitingMail, EndPass, Crash, Send
<1> QED
  BY <1>4, <1>5, <1>6, <1>7, <1>8, <1>9, <1>10, <1>11, <1>14, <1>15, <1>16, <1>17
     DEF Next, Pass, OtherRequestCommits, vars, Senders

\* The one-time link is erased from every message that is sent, given up or pruned:
\* even when passes overlap, answers to statements are lost and leases run out under
\* their holders.
THEOREM Erased == Spec => []ErasedWhenDone
<1>1. Init => ErasedWhenDone
  BY DEF Init, ErasedWhenDone, GivenUp
<1> QED
  BY <1>1, ErasedStep, TypeCorrect, PTL DEF Spec

-----------------------------------------------------------------------------
(* Who holds a message. *)

InHand == {"accepted", "refused", "bounced", "unset"}

\* A pass has a message in hand exactly while it records one, and a batch only while
\* it goes through one.
HandsOK ==
    \A p \in Senders :
        /\ phase[p] \in InHand => current[p] \in batch[p]
        /\ phase[p] \notin InHand => current[p] = None
        /\ phase[p] \notin InHand \cup {"batch"} => batch[p] = {}

\* No message is twice in the batches of the passes, though no row names its holder.
OneHolder ==
    \A p, q \in Senders : \A c \in batch[p] : \A d \in batch[q] :
        c.id = d.id => p = q /\ c = d

\* The row of a message in a batch is sending, under a live lease, and content the
\* claim returned was not sent before ...
Sending(c) ==
    /\ status[c.id] = "sending"
    /\ lease[c.id] = "live"
    /\ c.content => ~recorded[c.id]

\* ... but for the message in hand whose row was marked sent without an answer.
Marked(p, c) ==
    /\ phase[p] = "refused"
    /\ current[p] = c
    /\ recorded[c.id]
    /\ status[c.id] \in {"sent", "gone"}

HolderAgrees == \A p \in Senders : \A c \in batch[p] : Sending(c) \/ Marked(p, c)

\* What was marked sent has no content, and was queued before.
RecordedOK ==
    \A m \in Ids :
        /\ recorded[m] => ~payload[m] /\ status[m] \notin {"none", "writing", "rolledback"}
        /\ status[m] = "sent" => recorded[m]

\* A message was claimed before it was sent, and not before it was queued.
AttemptsOK ==
    \A m \in Ids :
        /\ status[m] \in {"none", "writing", "rolledback"} => attempts[m] = 0
        /\ status[m] \in {"sending", "sent"} => attempts[m] > 0

\* Only what the mail server took is reported as sent.
AcceptedDelivered ==
    \A p \in Senders : phase[p] = "accepted" => delivered[current[p].id] > 0 /\ current[p].content

\* The inductive invariant behind KeepsContent and Refines.
Inv ==
    /\ TypeOK
    /\ HandsOK
    /\ OneHolder
    /\ HolderAgrees
    /\ RecordedOK
    /\ OnlySentLoseContent
    /\ AttemptsOK
    /\ AcceptedDelivered

\* A pass has a message in hand exactly while it works on one of its batch.
LEMMA HandsStep == HandsOK /\ TypeOK /\ [Next]_vars => HandsOK'
<1> SUFFICES ASSUME TypeOK, HandsOK, [Next]_vars PROVE HandsOK'
  OBVIOUS
<1> USE DEF TypeOK, HandsOK, InHand
<1>1. ASSUME UNCHANGED passes PROVE HandsOK'
  BY <1>1 DEF passes
<1>2. ASSUME NEW m \in Ids, \/ QueueMail(m) \/ CommitRequest(m) \/ RollbackRequest(m) \/ QueueInWorker(m)
                            \/ NextAttemptArrives(m) \/ LeaseExpires(m) \/ Prune(m)
      PROVE HandsOK'
  BY <1>1, <1>2 DEF QueueMail, CommitRequest, RollbackRequest, QueueInWorker, Inserted,
     NextAttemptArrives, LeaseExpires, Prune
<1>3. CASE WebRestart
  BY <1>3 DEF WebRestart
<1>4. ASSUME NEW p \in Senders, BeginPoll(p) \/ SendWaitingMail(p) \/ EndPass(p) PROVE HandsOK'
  BY <1>4 DEF BeginPoll, SendWaitingMail, EndPass, To
<1>5. ASSUME NEW p \in Senders, NEW S \in SUBSET Ids, ClaimMail(p, S) PROVE HandsOK'
  <2>1. /\ phase'[p] \in {"batch", "idle"} /\ (phase'[p] = "idle" => batch'[p] = {})
        /\ \A q \in Senders \ {p} : phase'[q] = phase[q] /\ batch'[q] = batch[q]
        /\ current' = current /\ current[p] = None
    BY <1>5 DEF ClaimMail, To
  <2> QED
    BY <2>1
<1>6. ASSUME NEW p \in Senders, NEW c \in batch[p], Send(p, c) PROVE HandsOK'
  <2>1. phase'[p] \in InHand /\ \A q \in Senders \ {p} : phase'[q] = phase[q]
    BY <1>6 DEF Send, To
  <2> QED
    BY <1>6, <2>1 DEF Send
<1>7. ASSUME NEW p \in Senders, Release(p) PROVE HandsOK'
  BY <1>7 DEF Release, To
<1>8. ASSUME NEW p \in Senders, phase[p] \in InHand, To(p, "refused"), UNCHANGED <<batch, current>> PROVE HandsOK'
  BY <1>8 DEF To
<1>9. ASSUME NEW p \in Senders, AbandonBatch(p) \/ Crash(p) PROVE HandsOK'
  BY <1>9 DEF AbandonBatch, Crash, To
<1>10. ASSUME NEW p \in Senders, RecordSent(p) \/ RecordFailure(p) PROVE HandsOK'
  BY <1>7, <1>8, <1>10 DEF RecordSent, RecordFailure
<1> QED
  BY <1>1, <1>2, <1>3, <1>4, <1>5, <1>6, <1>9, <1>10 DEF Next, Pass, OtherRequestCommits, vars, Senders

\* A batch grows only by a claim, of one message per row claimed.
LEMMA BatchMoves ==
  ASSUME TypeOK, HandsOK, [Next]_vars
  PROVE  \/ \A q \in Senders : batch'[q] \subseteq batch[q]
         \/ \E p \in Senders : \E S \in SUBSET Ids :
               /\ ClaimMail(p, S)
               /\ \A q \in Senders \ {p} : batch'[q] = batch[q]
               /\ batch[p] = {}
               /\ batch'[p] \subseteq
                    {[id |-> m, tries |-> attempts[m] + 1, content |-> payload[m]] : m \in S}
<1> DEFINE Shrink == \A q \in Senders : batch'[q] \subseteq batch[q]
<1> USE DEF TypeOK
<1>1. ASSUME UNCHANGED batch PROVE Shrink
  BY <1>1
<1>2. ASSUME NEW m \in Ids, \/ QueueMail(m) \/ CommitRequest(m) \/ RollbackRequest(m) \/ QueueInWorker(m)
                            \/ NextAttemptArrives(m) \/ LeaseExpires(m) \/ Prune(m)
      PROVE Shrink
  BY <1>1, <1>2 DEF QueueMail, CommitRequest, RollbackRequest, QueueInWorker, Inserted,
     NextAttemptArrives, LeaseExpires, Prune, passes
<1>3. CASE WebRestart
  BY <1>3 DEF WebRestart
<1>4. ASSUME NEW p \in Senders, \/ BeginPoll(p) \/ SendWaitingMail(p) \/ EndPass(p) \/ RecordSent(p)
                                \/ RecordFailure(p) \/ AbandonBatch(p) \/ Crash(p)
                                \/ \E c \in batch[p] : Send(p, c)
      PROVE Shrink
  <2>1. \/ batch' = batch
        \/ batch' = [batch EXCEPT ![p] = @ \ {current[p]}]
        \/ batch' = [batch EXCEPT ![p] = {}]
    BY <1>4 DEF BeginPoll, SendWaitingMail, EndPass, RecordSent, RecordFailure, AbandonBatch, Crash, Send, Release
  <2> QED
    BY <2>1
<1>5. ASSUME NEW p \in Senders, NEW S \in SUBSET Ids, ClaimMail(p, S)
      PROVE  \/ Shrink
             \/ /\ \A q \in Senders \ {p} : batch'[q] = batch[q]
                /\ batch[p] = {}
                /\ batch'[p] = {[id |-> m, tries |-> attempts[m] + 1, content |-> payload[m]] : m \in S}
  <2> DEFINE new == {[id |-> m, tries |-> attempts[m] + 1, content |-> payload[m]] : m \in S}
  <2>1. batch' = batch \/ batch' = [batch EXCEPT ![p] = new]
    BY <1>5 DEF ClaimMail
  <2>2. batch[p] = {}
    BY <1>5 DEF ClaimMail, HandsOK, InHand
  <2> HIDE DEF new
  <2>3. \/ Shrink
        \/ batch'[p] = new /\ \A q \in Senders \ {p} : batch'[q] = batch[q]
    BY <2>1
  <2> QED
    BY <2>2, <2>3 DEF new
<1> QED
  BY <1>1, <1>2, <1>3, <1>4, <1>5 DEF Next, Pass, OtherRequestCommits, vars, passes, Senders

\* A claim takes no message that another pass has, while claims outlast batches.
LEMMA OneHolderStep ==
  ASSUME Inv, [Next]_vars
  PROVE  OneHolder'
<1> USE DEF Inv, TypeOK
<1>1. CASE \A q \in Senders : batch'[q] \subseteq batch[q]
  BY <1>1 DEF OneHolder
<1>2. ASSUME NEW p \in Senders, NEW S \in SUBSET Ids, ClaimMail(p, S),
             \A q \in Senders \ {p} : batch'[q] = batch[q],
             batch'[p] \subseteq {[id |-> m, tries |-> attempts[m] + 1, content |-> payload[m]] : m \in S}
      PROVE OneHolder'
  <2>1. \A q \in Senders : \A c \in batch[q] : c.id \notin S
    BY <1>2 DEF ClaimMail, Claimable, HolderAgrees, Sending, Marked, Message
  <2>2. \A c \in batch'[p] : c.id \in S
    BY <1>2
  <2>3. \A c, d \in batch'[p] : c.id = d.id => c = d
    BY <1>2
  <2> QED
    BY <1>2, <2>1, <2>2, <2>3 DEF OneHolder
<1> QED
  BY <1>1, <1>2, BatchMoves

\* A pass is done with message c: its batch is smaller by it, or it goes on as refused.
Settles(p, c) ==
    /\ c = current[p]
    /\ c.id \in Ids
    /\ Sending(c) \/ Marked(p, c)
    /\ \A q \in Senders : batch'[q] \subseteq batch[q]
    /\ \A q \in Senders \ {p} : phase'[q] = phase[q] /\ current'[q] = current[q]
    /\ \/ /\ UNCHANGED <<rows, recorded>>
          /\ phase[p] = "accepted" \/ batch'[p] = {}
       \/ /\ MarkSent(c.id) /\ phase[p] = "accepted"
          /\ \/ \A q \in Senders : \A d \in batch'[q] : d.id # c.id
             \/ /\ phase'[p] = "refused" /\ current'[p] = c
                /\ \A q \in Senders : \A d \in batch'[q] : d.id = c.id => q = p /\ d = c
       \/ /\ MarkFailed(c.id, FailureStatus(p)) /\ UNCHANGED recorded
          /\ phase[p] \in {"refused", "bounced", "unset"}
          /\ \A q \in Senders : \A d \in batch'[q] : d.id # c.id

\* What a pass may do to a row it settles.
Records(p, c) ==
    /\ c.id \in Ids
    /\ Sending(c) \/ Marked(p, c)
    /\ \/ UNCHANGED <<rows, recorded>>
       \/ MarkSent(c.id) /\ phase[p] = "accepted"
       \/ /\ MarkFailed(c.id, FailureStatus(p)) /\ UNCHANGED recorded
          /\ phase[p] \in {"refused", "bounced", "unset"}

\* What a pass does to the rows when it records an outcome: to that of the message
\* in its hand only, which it and nobody else holds.
LEMMA SettleMoves ==
  ASSUME Inv, NEW p \in Senders, RecordSent(p) \/ RecordFailure(p) \/ AbandonBatch(p)
  PROVE  \E c \in batch[p] : Settles(p, c)
<1> USE DEF Inv, TypeOK, Settles
<1>1. PICK c \in batch[p] : c = current[p]
  BY DEF RecordSent, RecordFailure, AbandonBatch, HandsOK, InHand
<1>2. c.id \in Ids /\ (Sending(c) \/ Marked(p, c))
  BY DEF HolderAgrees, Message
<1>3. \A q \in Senders : \A d \in batch[q] : d.id = c.id => q = p /\ d = c
  BY DEF OneHolder
<1>4. \A q \in Senders \ {p} : phase'[q] = phase[q] /\ current'[q] = current[q]
  BY DEF RecordSent, RecordFailure, AbandonBatch, Release, To
<1>5. CASE batch' = [batch EXCEPT ![p] = @ \ {c}]
  <2>1. \A q \in Senders : batch'[q] \subseteq batch[q]
    BY <1>5
  <2>2. \A q \in Senders : \A d \in batch'[q] : d.id # c.id
    BY <1>3, <1>5
  <2>3. \/ MarkSent(c.id) /\ phase[p] = "accepted"
        \/ MarkFailed(c.id, FailureStatus(p)) /\ UNCHANGED recorded /\ phase[p] \in {"refused", "bounced", "unset"}
        \/ UNCHANGED <<rows, recorded>> /\ (phase[p] = "accepted" \/ batch'[p] = {})
    BY <1>1 DEF RecordSent, RecordFailure, AbandonBatch
  <2> QED
    BY <1>1, <1>2, <1>4, <2>1, <2>2, <2>3
<1>6. CASE batch' = [batch EXCEPT ![p] = {}]
  <2>1. \A q \in Senders : batch'[q] \subseteq batch[q]
    BY <1>6
  <2>2. \A q \in Senders : \A d \in batch'[q] : d.id # c.id
    BY <1>3, <1>6
  <2>3. \/ MarkSent(c.id) /\ phase[p] = "accepted"
        \/ MarkFailed(c.id, FailureStatus(p)) /\ UNCHANGED recorded /\ phase[p] \in {"refused", "bounced", "unset"}
        \/ UNCHANGED <<rows, recorded>>
    BY <1>1 DEF RecordSent, RecordFailure, AbandonBatch
  <2>4. batch'[p] = {}
    BY <1>6
  <2> QED
    BY <1>1, <1>2, <1>4, <2>1, <2>2, <2>3, <2>4
<1>7. CASE /\ batch' = batch /\ phase[p] = "accepted" /\ phase'[p] = "refused" /\ current'[p] = c
           /\ MarkSent(c.id) \/ UNCHANGED <<rows, recorded>>
  <2>1. \A q \in Senders : batch'[q] \subseteq batch[q]
    BY <1>7
  <2>2. \A q \in Senders : \A d \in batch'[q] : d.id = c.id => q = p /\ d = c
    BY <1>3, <1>7
  <2> QED
    BY <1>1, <1>2, <1>4, <1>7, <2>1, <2>2
<1>8. CASE RecordSent(p)
  <2>1. CASE NoFault /\ MarkSent(current[p].id) /\ Release(p)
    BY <1>1, <1>5, <2>1 DEF Release
  <2>2. CASE /\ MarkSent(current[p].id) \/ UNCHANGED <<rows, recorded>>
             /\ To(p, "refused") /\ UNCHANGED <<batch, current>>
    <3>1. phase[p] = "accepted" /\ phase'[p] = "refused"
      BY <1>8, <2>2 DEF RecordSent, To
    <3> QED
      BY <1>1, <1>7, <2>2, <3>1
  <2> QED
    BY <1>8, <2>1, <2>2 DEF RecordSent
<1>9. CASE RecordFailure(p)
  BY <1>1, <1>5, <1>9 DEF RecordFailure, Release
<1>10. CASE AbandonBatch(p)
  BY <1>6, <1>10 DEF AbandonBatch
<1> QED
  BY <1>8, <1>9, <1>10

\* The rows but for that of the message in hand stay as they are.
LEMMA SettleLeaves ==
  ASSUME TypeOK, NEW m, NEW s,
         \/ UNCHANGED <<rows, recorded>>
         \/ MarkSent(m)
         \/ MarkFailed(m, s) /\ UNCHANGED recorded
  PROVE  \A i \in Ids \ {m} : /\ status'[i] = status[i] /\ lease'[i] = lease[i]
                              /\ payload'[i] = payload[i] /\ recorded'[i] = recorded[i]
                              /\ attempts'[i] = attempts[i]
<1> USE DEF TypeOK
<1>1. CASE UNCHANGED <<rows, recorded>>
  BY <1>1 DEF rows
<1>2. CASE MarkSent(m)
  BY <1>2 DEF MarkSent, rows
<1>3. CASE MarkFailed(m, s) /\ UNCHANGED recorded
  BY <1>3 DEF MarkFailed, rows
<1> QED
  BY <1>1, <1>2, <1>3

\* What a pass has in its batch is being sent under its claim, or just was.
LEMMA HolderStep ==
  ASSUME ~Overrun, Inv, [Next]_vars
  PROVE  HolderAgrees'
<1> USE DEF Inv, TypeOK, HolderAgrees
<1>0. \A q \in Senders : \A c \in batch[q] : c.id \in Ids
  BY DEF Message
<1>1. ASSUME UNCHANGED <<status, lease, recorded>>, \A q \in Senders : batch'[q] \subseteq batch[q],
             \A q \in Senders : \/ phase'[q] = phase[q] /\ current'[q] = current[q]
                                \/ phase[q] # "refused" \/ batch'[q] = {}
      PROVE HolderAgrees'
  BY <1>1 DEF Sending, Marked
<1>2. ASSUME NEW m \in Ids, \/ QueueMail(m) \/ CommitRequest(m) \/ RollbackRequest(m) \/ QueueInWorker(m)
                            \/ NextAttemptArrives(m) \/ LeaseExpires(m) \/ Prune(m)
      PROVE HolderAgrees'
  <2>1. UNCHANGED <<phase, batch, current, recorded>>
    BY <1>2 DEF QueueMail, CommitRequest, RollbackRequest, QueueInWorker, Inserted,
       NextAttemptArrives, LeaseExpires, Prune, passes
  <2>2. \A i \in Ids \ {m} : status'[i] = status[i] /\ lease'[i] = lease[i]
    BY <1>2 DEF QueueMail, CommitRequest, RollbackRequest, QueueInWorker, Inserted,
       NextAttemptArrives, LeaseExpires, Prune
  <2>3. \/ status[m] \notin {"sending", "sent", "gone"}
        \/ \A q \in Senders : \A c \in batch[q] : c.id # m
        \/ status[m] = "sent" /\ status'[m] = "gone"
    BY <1>2 DEF QueueMail, CommitRequest, RollbackRequest, QueueInWorker,
       NextAttemptArrives, LeaseExpires, Prune, GivenUp
  <2> QED
    BY <1>0, <2>1, <2>2, <2>3 DEF Sending, Marked
<1>3. CASE WebRestart
  <2>1. \A i \in Ids : status[i] # "writing" => status'[i] = status[i] /\ lease'[i] = lease[i]
    BY <1>3 DEF WebRestart
  <2>2. \A q \in Senders : /\ batch'[q] \subseteq batch[q]
                           /\ batch'[q] = {} \/ (phase'[q] = phase[q] /\ current'[q] = current[q])
    BY <1>3 DEF WebRestart
  <2>3. UNCHANGED recorded
    BY <1>3 DEF WebRestart
  <2> QED
    BY <1>0, <2>1, <2>2, <2>3 DEF Sending, Marked
<1>4. ASSUME NEW p \in Senders, \/ BeginPoll(p) \/ SendWaitingMail(p) \/ EndPass(p) \/ Crash(p)
                                \/ \E c \in batch[p] : Send(p, c)
      PROVE HolderAgrees'
  <2>1. UNCHANGED <<status, lease, recorded>>
    BY <1>4 DEF BeginPoll, SendWaitingMail, EndPass, Crash, Send, rows
  <2>2. \A q \in Senders : batch'[q] \subseteq batch[q]
    BY <1>4 DEF BeginPoll, SendWaitingMail, EndPass, Crash, Send
  <2>3. \A q \in Senders \ {p} : phase'[q] = phase[q] /\ current'[q] = current[q]
    BY <1>4 DEF BeginPoll, SendWaitingMail, EndPass, Crash, Send, To
  <2>4. phase[p] # "refused" \/ batch'[p] = {}
    BY <1>4 DEF BeginPoll, SendWaitingMail, EndPass, Crash, Send
  <2> QED
    BY <1>1, <2>1, <2>2, <2>3, <2>4
<1>5. ASSUME NEW p \in Senders, NEW S \in SUBSET Ids, ClaimMail(p, S) PROVE HolderAgrees'
  <2> DEFINE new == {[id |-> m, tries |-> attempts[m] + 1, content |-> payload[m]] : m \in S}
  <2>1. \A q \in Senders : \A c \in batch[q] : c.id \notin S
    BY <1>0, <1>5 DEF ClaimMail, Claimable, Sending, Marked
  <2>2. \A i \in Ids \ S : status'[i] = status[i] /\ lease'[i] = lease[i]
    BY <1>5 DEF ClaimMail
  <2>3. \A i \in S : status'[i] = "sending" /\ lease'[i] = "live"
    BY <1>5 DEF ClaimMail
  <2>4. /\ batch' = batch \/ batch' = [batch EXCEPT ![p] = new]
        /\ UNCHANGED <<current, recorded>> /\ phase[p] # "refused"
        /\ \A q \in Senders \ {p} : phase'[q] = phase[q]
    BY <1>5 DEF ClaimMail, To
  <2>5. \A c \in new : c.id \in S /\ c.content = payload[c.id]
    OBVIOUS
  <2> HIDE DEF new
  <2>6. \A q \in Senders : \A c \in batch'[q] : c \in batch[q] \/ c \in new
    BY <2>4
  <2> SUFFICES ASSUME NEW q \in Senders, NEW c \in batch'[q]
               PROVE  Sending(c)' \/ Marked(q, c)'
    OBVIOUS
  <2>7. CASE c \in batch[q]
    <3>1. c.id \in Ids \ S /\ (Sending(c) \/ Marked(q, c))
      BY <1>0, <2>1, <2>7
    <3>2. Sending(c) => Sending(c)'
      BY <2>2, <2>4, <3>1 DEF Sending
    <3>3. Marked(q, c) => Marked(q, c)'
      BY <2>2, <2>4, <3>1 DEF Marked
    <3> QED
      BY <3>1, <3>2, <3>3
  <2>8. CASE c \in new
    <3>1. c.content => ~recorded[c.id]
      BY <2>5, <2>8 DEF RecordedOK
    <3> QED
      BY <2>3, <2>4, <2>5, <2>8, <3>1 DEF Sending
  <2> QED
    BY <2>6, <2>7, <2>8
<1>6. ASSUME NEW p \in Senders, RecordSent(p) \/ RecordFailure(p) \/ AbandonBatch(p) PROVE HolderAgrees'
  <2>1. PICK c \in batch[p] : Settles(p, c)
    BY <1>6, SettleMoves
  <2>0. \/ UNCHANGED <<rows, recorded>>
        \/ MarkSent(c.id)
        \/ MarkFailed(c.id, FailureStatus(p)) /\ UNCHANGED recorded
    BY <2>1 DEF Settles
  <2>2. \A i \in Ids \ {c.id} : status'[i] = status[i] /\ lease'[i] = lease[i] /\ recorded'[i] = recorded[i]
    BY <2>0, SettleLeaves
  <2> USE DEF Settles
  <2> SUFFICES ASSUME NEW q \in Senders, NEW d \in batch'[q]
               PROVE  Sending(d)' \/ Marked(q, d)'
    OBVIOUS
  <2>3. d \in batch[q] /\ d.id \in Ids /\ (Sending(d) \/ Marked(q, d))
    BY <1>0, <2>1
  <2>4. q = p /\ d # c => Sending(d)
    BY <2>1, <2>3 DEF Marked
  <2>5. ASSUME status'[d.id] = status[d.id], lease'[d.id] = lease[d.id], recorded'[d.id] = recorded[d.id],
               q # p \/ Sending(d)
        PROVE  Sending(d)' \/ Marked(q, d)'
    <3>1. Sending(d) => Sending(d)'
      BY <2>5 DEF Sending
    <3>2. q # p /\ Marked(q, d) => Marked(q, d)'
      BY <2>1, <2>5 DEF Marked
    <3> QED
      BY <2>3, <2>5, <3>1, <3>2
  <2>6. CASE UNCHANGED <<rows, recorded>> /\ (phase[p] = "accepted" \/ batch'[p] = {})
    <3>1. q # p \/ Sending(d)
      BY <2>3, <2>6 DEF Marked
    <3> QED
      BY <2>5, <2>6, <3>1 DEF rows
  <2>7. CASE d.id # c.id
    BY <2>2, <2>3, <2>4, <2>5, <2>7
  <2>8. CASE /\ MarkSent(c.id) /\ phase[p] = "accepted" /\ phase'[p] = "refused" /\ current'[p] = c
             /\ q = p /\ d = c
    <3>1. status[c.id] = "sending"
      BY <2>1, <2>8 DEF Sending, Marked
    <3>2. status'[c.id] = "sent" /\ recorded'[c.id]
      BY <2>1, <2>8, <3>1 DEF MarkSent
    <3> QED
      BY <2>8, <3>2 DEF Marked
  <2> QED
    BY <2>1, <2>6, <2>7, <2>8
<1>7. CASE OtherRequestCommits \/ UNCHANGED vars
  BY <1>1, <1>7 DEF OtherRequestCommits, vars, rows, passes
<1> QED
  BY <1>2, <1>3, <1>4, <1>5, <1>6, <1>7 DEF Next, Pass, Senders

\* A message marked sent has lost its content for good.
LEMMA RecordedStep ==
  ASSUME Inv, [Next]_vars
  PROVE  RecordedOK'
<1> USE DEF Inv, TypeOK, RecordedOK
<1>1. ASSUME UNCHANGED <<status, payload, recorded>> PROVE RecordedOK'
  BY <1>1
<1>2. ASSUME NEW m \in Ids, QueueMail(m) \/ CommitRequest(m) \/ RollbackRequest(m) \/ QueueInWorker(m)
      PROVE RecordedOK'
  <2>1. UNCHANGED recorded /\ \A i \in Ids \ {m} : status'[i] = status[i] /\ payload'[i] = payload[i]
    BY <1>2 DEF QueueMail, CommitRequest, RollbackRequest, QueueInWorker, Inserted
  <2>2. status[m] \in {"none", "writing"} /\ status'[m] # "sent"
    BY <1>2 DEF QueueMail, CommitRequest, RollbackRequest, QueueInWorker
  <2> QED
    BY <2>1, <2>2
<1>3. ASSUME NEW m \in Ids, NextAttemptArrives(m) \/ LeaseExpires(m) \/ Prune(m) PROVE RecordedOK'
  BY <1>3 DEF NextAttemptArrives, LeaseExpires, Prune
<1>4. CASE WebRestart
  <2>1. UNCHANGED recorded /\ \A m \in Ids : recorded[m] => status'[m] = status[m]
    BY <1>4 DEF WebRestart
  <2>2. \A m \in Ids : /\ payload'[m] => payload[m]
                       /\ status'[m] = "sent" => status[m] = "sent"
    BY <1>4 DEF WebRestart
  <2> QED
    BY <2>1, <2>2
<1>5. ASSUME NEW p \in Senders, NEW S \in SUBSET Ids, ClaimMail(p, S) PROVE RecordedOK'
  BY <1>5 DEF ClaimMail
<1>6. ASSUME NEW p \in Senders, RecordSent(p) \/ RecordFailure(p) \/ AbandonBatch(p) PROVE RecordedOK'
  <2>1. PICK c \in batch[p] : Records(p, c)
    BY <1>6, SettleMoves DEF Settles, Records
  <2> USE DEF Records
  <2>2. \A i \in Ids \ {c.id} : status'[i] = status[i] /\ payload'[i] = payload[i] /\ recorded'[i] = recorded[i]
    BY <2>1, SettleLeaves
  <2>3. CASE UNCHANGED <<rows, recorded>>
    BY <1>1, <2>3 DEF rows
  <2>4. CASE MarkSent(c.id) /\ status[c.id] # "gone"
    <3>1. status'[c.id] = "sent" /\ recorded'[c.id] /\ ~payload'[c.id]
      BY <2>1, <2>4 DEF MarkSent
    <3> QED
      BY <2>2, <3>1
  <2>5. CASE /\ MarkFailed(c.id, FailureStatus(p)) /\ UNCHANGED recorded /\ status[c.id] # "gone"
             /\ phase[p] \in {"refused", "bounced", "unset"}
    <3>1. status'[c.id] \in {"failed", "bounced", "not_configured", "queued"}
      BY <2>1, <2>5, FailureTyped DEF MarkFailed
    <3>2. payload'[c.id] => payload[c.id]
      BY <2>1, <2>5 DEF MarkFailed
    <3> QED
      BY <2>2, <2>5, <3>1, <3>2
  <2> QED
    BY <2>1, <2>3, <2>4, <2>5 DEF MarkSent, MarkFailed
<1>7. ASSUME NEW p \in Senders, \/ BeginPoll(p) \/ SendWaitingMail(p) \/ EndPass(p) \/ Crash(p)
                                \/ \E c \in batch[p] : Send(p, c)
      PROVE RecordedOK'
  BY <1>1, <1>7 DEF BeginPoll, SendWaitingMail, EndPass, Crash, Send, rows
<1>8. CASE OtherRequestCommits \/ UNCHANGED vars
  BY <1>1, <1>8 DEF OtherRequestCommits, vars, rows
<1> QED
  BY <1>2, <1>3, <1>4, <1>5, <1>6, <1>7, <1>8 DEF Next, Pass, Senders

\* A message that may still be sent, and was not yet, keeps its content.
LEMMA ContentStep ==
  ASSUME Inv, [Next]_vars
  PROVE  OnlySentLoseContent'
<1> USE DEF Inv, TypeOK, OnlySentLoseContent, Open
<1>1. ASSUME UNCHANGED <<status, payload, recorded>> PROVE OnlySentLoseContent'
  BY <1>1
<1>2. ASSUME NEW m \in Ids, UNCHANGED recorded,
             \A i \in Ids \ {m} : status'[i] = status[i] /\ payload'[i] = payload[i],
             status'[m] \in {"queued", "sending"} => payload'[m]
      PROVE OnlySentLoseContent'
  BY <1>2
<1>3. ASSUME NEW m \in Ids, QueueMail(m) \/ CommitRequest(m) \/ RollbackRequest(m) PROVE OnlySentLoseContent'
  <2>1. UNCHANGED recorded /\ \A i \in Ids \ {m} : status'[i] = status[i] /\ payload'[i] = payload[i]
    BY <1>3 DEF QueueMail, CommitRequest, RollbackRequest, Inserted
  <2>2. status'[m] \in {"queued", "sending"} => payload'[m]
    BY <1>3 DEF QueueMail, CommitRequest, RollbackRequest
  <2> QED
    BY <1>2, <2>1, <2>2
<1>4. ASSUME NEW m \in Ids, QueueInWorker(m) PROVE OnlySentLoseContent'
  <2>1. UNCHANGED recorded /\ \A i \in Ids \ {m} : status'[i] = status[i] /\ payload'[i] = payload[i]
    BY <1>4 DEF QueueInWorker, Inserted
  <2>2. status'[m] = "queued" => "worker" \in Configured
    BY <1>4 DEF QueueInWorker
  <2>3. payload'[m] = ("worker" \in Configured)
    BY <1>4 DEF QueueInWorker, Inserted
  <2>4. status'[m] # "sending"
    BY <1>4 DEF QueueInWorker
  <2> QED
    BY <1>2, <2>1, <2>2, <2>3, <2>4
<1>5. ASSUME NEW m \in Ids, NextAttemptArrives(m) \/ LeaseExpires(m) PROVE OnlySentLoseContent'
  BY <1>1, <1>5 DEF NextAttemptArrives, LeaseExpires
<1>6. ASSUME NEW m \in Ids, Prune(m) PROVE OnlySentLoseContent'
  BY <1>6 DEF Prune
<1>7. CASE WebRestart
  <2>1. \A m \in Ids : status'[m] \in {"queued", "sending"} => status[m] = status'[m]
    BY <1>7 DEF WebRestart
  <2>2. \A m \in Ids : payload'[m] = (payload[m] /\ status[m] # "writing")
    BY <1>7 DEF WebRestart
  <2>3. UNCHANGED recorded
    BY <1>7 DEF WebRestart
  <2> QED
    BY <2>1, <2>2, <2>3
<1>8. ASSUME NEW p \in Senders, NEW S \in SUBSET Ids, ClaimMail(p, S) PROVE OnlySentLoseContent'
  BY <1>8 DEF ClaimMail, Claimable
<1>9. ASSUME NEW p \in Senders, RecordSent(p) \/ RecordFailure(p) \/ AbandonBatch(p) PROVE OnlySentLoseContent'
  <2>1. PICK c \in batch[p] : Records(p, c)
    BY <1>9, SettleMoves DEF Settles, Records
  <2> USE DEF Records
  <2>2. \A i \in Ids \ {c.id} : status'[i] = status[i] /\ payload'[i] = payload[i] /\ recorded'[i] = recorded[i]
    BY <2>1, SettleLeaves
  <2>3. CASE UNCHANGED <<rows, recorded>>
    BY <1>1, <2>3 DEF rows
  <2>4. CASE MarkSent(c.id) /\ status[c.id] # "gone"
    <3>1. status'[c.id] = "sent"
      BY <2>1, <2>4 DEF MarkSent
    <3> QED
      BY <2>2, <3>1
  <2>5. CASE /\ MarkFailed(c.id, FailureStatus(p)) /\ UNCHANGED recorded /\ status[c.id] # "gone"
             /\ phase[p] \in {"refused", "bounced", "unset"}
    <3>1. payload[c.id] \/ recorded[c.id]
      BY <2>1 DEF Sending, Marked
    <3>2. status'[c.id] = FailureStatus(p) /\ payload'[c.id] = (payload[c.id] /\ FailureStatus(p) = "queued")
      BY <2>1, <2>5 DEF MarkFailed
    <3>3. FailureStatus(p) # "sending"
      BY <2>5, FailureTyped
    <3> QED
      BY <2>2, <2>5, <3>1, <3>2, <3>3
  <2> QED
    BY <2>1, <2>3, <2>4, <2>5 DEF MarkSent, MarkFailed
<1>10. CASE OtherRequestCommits \/ UNCHANGED vars
  BY <1>1, <1>10 DEF OtherRequestCommits, vars, rows
<1>11. ASSUME NEW p \in Senders, \/ BeginPoll(p) \/ SendWaitingMail(p) \/ EndPass(p) \/ Crash(p)
                                 \/ \E c \in batch[p] : Send(p, c)
      PROVE OnlySentLoseContent'
  BY <1>1, <1>11 DEF BeginPoll, SendWaitingMail, EndPass, Crash, Send, rows
<1> QED
  BY <1>3, <1>4, <1>5, <1>6, <1>7, <1>8, <1>9, <1>10, <1>11 DEF Next, Pass, Senders

\* A message that is being sent, or is sent, was attempted; one that was never queued was not.
LEMMA AttemptsStep ==
  ASSUME Inv, [Next]_vars
  PROVE  AttemptsOK'
<1> USE DEF Inv, TypeOK, AttemptsOK
<1>1. ASSUME UNCHANGED <<status, attempts>> PROVE AttemptsOK'
  BY <1>1
<1>2. ASSUME NEW m \in Ids, QueueMail(m) \/ CommitRequest(m) \/ RollbackRequest(m) \/ QueueInWorker(m)
      PROVE AttemptsOK'
  BY <1>2 DEF QueueMail, CommitRequest, RollbackRequest, QueueInWorker, Inserted
<1>3. ASSUME NEW m \in Ids, NextAttemptArrives(m) \/ LeaseExpires(m) \/ Prune(m) PROVE AttemptsOK'
  BY <1>3 DEF NextAttemptArrives, LeaseExpires, Prune
<1>4. CASE WebRestart
  BY <1>4 DEF WebRestart
<1>5. ASSUME NEW p \in Senders, NEW S \in SUBSET Ids, ClaimMail(p, S) PROVE AttemptsOK'
  BY <1>5 DEF ClaimMail
<1>6. ASSUME NEW p \in Senders, RecordSent(p) \/ RecordFailure(p) \/ AbandonBatch(p) PROVE AttemptsOK'
  <2>1. PICK c \in batch[p] : Records(p, c)
    BY <1>6, SettleMoves DEF Settles, Records
  <2> USE DEF Records
  <2>2. \A i \in Ids \ {c.id} : status'[i] = status[i] /\ attempts'[i] = attempts[i]
    BY <2>1, SettleLeaves
  <2>3. CASE UNCHANGED rows
    BY <1>1, <2>3 DEF rows
  <2>4. CASE MarkSent(c.id) /\ phase[p] = "accepted"
    <3>1. status[c.id] = "sending"
      BY <2>1, <2>4 DEF Sending, Marked
    <3>2. attempts'[c.id] = attempts[c.id] /\ status'[c.id] = "sent"
      BY <2>1, <2>4, <3>1 DEF MarkSent
    <3> QED
      BY <2>2, <3>1, <3>2
  <2>5. CASE /\ MarkFailed(c.id, FailureStatus(p)) /\ status[c.id] # "gone"
             /\ phase[p] \in {"refused", "bounced", "unset"}
    <3>1. status'[c.id] \in {"failed", "bounced", "not_configured", "queued"}
      BY <2>1, <2>5, FailureTyped DEF MarkFailed
    <3> QED
      BY <2>2, <3>1
  <2> QED
    BY <2>1, <2>3, <2>4, <2>5 DEF MarkFailed
<1>7. ASSUME UNCHANGED rows PROVE AttemptsOK'
  BY <1>1, <1>7 DEF rows
<1>8. ASSUME NEW p \in Senders, \/ BeginPoll(p) \/ SendWaitingMail(p) \/ EndPass(p) \/ Crash(p)
                                \/ \E c \in batch[p] : Send(p, c)
      PROVE AttemptsOK'
  BY <1>7, <1>8 DEF BeginPoll, SendWaitingMail, EndPass, Crash, Send
<1> QED
  BY <1>2, <1>3, <1>4, <1>5, <1>6, <1>7, <1>8 DEF Next, Pass, OtherRequestCommits, vars, Senders

\* What the mail server accepted has been delivered to it.
LEMMA AcceptedStep ==
  ASSUME TypeOK, HandsOK, AcceptedDelivered, [Next]_vars
  PROVE  AcceptedDelivered'
<1> USE DEF TypeOK, AcceptedDelivered
<1>1. ASSUME NEW p \in Senders, UNCHANGED delivered, phase'[p] # "accepted",
             \A q \in Senders \ {p} : phase'[q] = phase[q] /\ current'[q] = current[q]
      PROVE AcceptedDelivered'
  BY <1>1
<1>2. ASSUME UNCHANGED <<passes, delivered>> PROVE AcceptedDelivered'
  BY <1>2 DEF passes
<1>3. ASSUME NEW m \in Ids, \/ QueueMail(m) \/ CommitRequest(m) \/ RollbackRequest(m) \/ QueueInWorker(m)
                            \/ NextAttemptArrives(m) \/ LeaseExpires(m) \/ Prune(m)
      PROVE AcceptedDelivered'
  BY <1>2, <1>3 DEF QueueMail, CommitRequest, RollbackRequest, QueueInWorker, Inserted,
     NextAttemptArrives, LeaseExpires, Prune
<1>4. CASE WebRestart
  BY <1>4 DEF WebRestart
<1>5. ASSUME NEW p \in Senders, NEW c \in batch[p], Send(p, c) PROVE AcceptedDelivered'
  <2>1. c.id \in Ids /\ c \in Message
    BY DEF Message
  <2>2. \A i \in Ids : delivered[i] > 0 => delivered'[i] > 0
    BY <1>5 DEF Send
  <2>3. current'[p] = c /\ \A q \in Senders \ {p} : phase'[q] = phase[q] /\ current'[q] = current[q]
    BY <1>5, <2>1 DEF Send, To
  <2>4. phase'[p] = "accepted" => delivered'[c.id] > 0 /\ c.content
    BY <1>5, <2>1 DEF Send, To
  <2>5. \A q \in Senders : phase[q] = "accepted" => current[q].id \in Ids
    BY DEF HandsOK, InHand, Message
  <2> QED
    BY <2>2, <2>3, <2>4, <2>5
<1>6. ASSUME NEW p \in Senders, \/ BeginPoll(p) \/ SendWaitingMail(p) \/ EndPass(p) \/ RecordSent(p)
                                \/ RecordFailure(p) \/ AbandonBatch(p) \/ Crash(p)
                                \/ \E S \in SUBSET Ids : ClaimMail(p, S)
      PROVE AcceptedDelivered'
  <2>1. phase'[p] # "accepted" /\ \A q \in Senders \ {p} : phase'[q] = phase[q]
    BY <1>6 DEF BeginPoll, SendWaitingMail, EndPass, RecordSent, RecordFailure, AbandonBatch, Crash,
       ClaimMail, Release, To
  <2>2. UNCHANGED delivered /\ \A q \in Senders \ {p} : current'[q] = current[q]
    BY <1>6 DEF BeginPoll, SendWaitingMail, EndPass, RecordSent, RecordFailure, AbandonBatch, Crash,
       ClaimMail, Release
  <2> QED
    BY <1>1, <2>1, <2>2
<1> QED
  BY <1>2, <1>3, <1>4, <1>5, <1>6 DEF Next, Pass, OtherRequestCommits, vars, rows, passes, Senders

\* While claims outlast their batches, no message is in the hands of two passes, and a
\* pass that can still send what it holds holds it alone and has not sent it before:
\* whatever statements fail, and whether they committed or not.
THEOREM Invariance == ASSUME ~Overrun PROVE Spec => []Inv
<1>1. Init => Inv
  <2>1. Init => OnlySentLoseContent /\ HolderAgrees /\ RecordedOK
    BY DEF Init, OnlySentLoseContent, Open, HolderAgrees, RecordedOK
  <2> QED
    BY <2>1, InitTyped DEF Init, Inv, HandsOK, InHand, OneHolder, AttemptsOK, AcceptedDelivered
<1>2. Inv /\ [Next]_vars => Inv'
  BY TypeStep, HandsStep, OneHolderStep, HolderStep, RecordedStep, ContentStep, AttemptsStep,
     AcceptedStep DEF Inv
<1> QED
  BY <1>1, <1>2, PTL DEF Spec

\* The only way a message still to be sent loses its content is that it was marked sent
\* and the answer to that was lost: overlapping passes of the workers and of the web
\* process, other failing statements, restarts and crashes do not erase it, as long as
\* no pass outlives its claim.
THEOREM KeepsContent == ASSUME ~Overrun PROVE Spec => []OnlySentLoseContent
<1>1. Inv => OnlySentLoseContent
  BY DEF Inv
<1> QED
  BY <1>1, Invariance, PTL

\* A row whose status, attempts and mark a step leaves alone looks the same.
LEMMA SeenStays ==
  ASSUME NEW m, status'[m] = status[m], attempts'[m] = attempts[m], recorded'[m] = recorded[m]
  PROVE  Seen(m)' = Seen(m)
BY DEF Seen, Open, GivenUp

\* What a row that was marked sent looks like; what one that was not looks like.
LEMMA SeenRecorded ==
  ASSUME NEW m, recorded[m]
  PROVE  Seen(m) = IF status[m] = "gone" THEN "gone" ELSE "done"
BY DEF Seen

LEMMA SeenOpen ==
  ASSUME NEW m, ~recorded[m], status[m] \in {"queued", "sending"}
  PROVE  Seen(m) = "open"
BY DEF Seen, Open, GivenUp

LEMMA SeenNone ==
  ASSUME NEW m, ~recorded[m], status[m] \notin {"queued", "sending"}, attempts[m] = 0
  PROVE  Seen(m) = "none"
BY DEF Seen, Open, GivenUp

LEMMA SeenDead ==
  ASSUME NEW m, ~recorded[m], status[m] \in {"failed", "bounced", "not_configured"}, attempts[m] # 0
  PROVE  Seen(m) = "dead"
BY DEF Seen, Open, GivenUp

LEMMA SeenGone ==
  ASSUME NEW m, ~recorded[m], status[m] = "gone", attempts[m] # 0
  PROVE  Seen(m) = "gone"
BY DEF Seen, Open, GivenUp

\* What the code that queues a message sees is a behaviour of DeliveryContract: the
\* mail server is handed a message only while it is open, one is marked sent only after
\* the server took it, and what was marked sent is never handed to it again, even when
\* the answer to that was lost and the row says that it failed.
THEOREM Refines == ASSUME ~Overrun PROVE Spec => KeepsContract
<1> DEFINE seen == [m \in Ids |-> Seen(m)]
<1>1. Init => Contract!Init
  BY DEF Init, Contract!Init, Seen, Open
<1>2. ASSUME Inv, [Next]_vars PROVE [Contract!Next]_(Contract!vars)
  <2> USE <1>2 DEF Inv, TypeOK
  <2>0. ASSUME UNCHANGED delivered, \A m \in Ids : Seen(m)' = Seen(m) PROVE UNCHANGED Contract!vars
    BY <2>0 DEF Contract!vars
  <2>1. ASSUME NEW m \in Ids, NEW c, Seen(m)' = c,
               \A i \in Ids \ {m} : status'[i] = status[i] /\ attempts'[i] = attempts[i] /\ recorded'[i] = recorded[i]
        PROVE  seen' = [i \in Ids |-> IF i \in {m} THEN c ELSE seen[i]]
    <3>1. \A i \in Ids \ {m} : Seen(i)' = Seen(i)
      BY <2>1, SeenStays
    <3> QED
      BY <2>1, <3>1
  <2>2. ASSUME UNCHANGED <<status, attempts, delivered, recorded>> PROVE UNCHANGED Contract!vars
    <3>1. \A m \in Ids : Seen(m)' = Seen(m)
      BY <2>2, SeenStays
    <3> QED
      BY <2>0, <2>2, <3>1
  <2>3. ASSUME NEW m \in Ids, NEW s, attempts[m] = 0, ~recorded[m], status[m] \notin {"queued", "sending"},
               status' = [status EXCEPT ![m] = s], UNCHANGED <<attempts, delivered, recorded>>
        PROVE  [Contract!Next]_(Contract!vars)
    <3>0. Seen(m) = "none"
      BY <2>3, SeenNone
    <3>1. CASE s \in {"queued", "sending"}
      <4>1. Seen(m)' = "open"
        BY <2>3, <3>1, SeenOpen DEF Seen, Open
      <4>2. Contract!Accept({m})
        BY <2>1, <2>3, <3>0, <4>1 DEF Contract!Accept, Contract!Enter, Contract!To
      <4> QED
        BY <4>2 DEF Contract!Next
    <3>2. CASE s \notin {"queued", "sending"}
      <4>1. Seen(m)' = "none"
        BY <2>3, <3>2 DEF Seen, Open
      <4>2. \A i \in Ids : Seen(i)' = Seen(i)
        BY <2>3, <3>0, <4>1, SeenStays
      <4> QED
        BY <2>0, <2>3, <4>2
    <3> QED
      BY <3>1, <3>2
  <2>4. ASSUME NEW m \in Ids, QueueMail(m) \/ CommitRequest(m) \/ RollbackRequest(m) \/ QueueInWorker(m)
        PROVE  [Contract!Next]_(Contract!vars)
    <3>1. status[m] \in {"none", "writing"}
      BY <2>4 DEF QueueMail, CommitRequest, RollbackRequest, QueueInWorker
    <3>2. attempts[m] = 0 /\ ~recorded[m]
      BY <3>1 DEF AttemptsOK, RecordedOK
    <3>3. \E s : status' = [status EXCEPT ![m] = s]
      BY <2>4 DEF QueueMail, CommitRequest, RollbackRequest, QueueInWorker
    <3>4. UNCHANGED <<attempts, delivered, recorded>>
      BY <2>4 DEF QueueMail, CommitRequest, RollbackRequest, QueueInWorker, Inserted
    <3> QED
      BY <2>3, <3>1, <3>2, <3>3, <3>4
  <2>5. ASSUME NEW m \in Ids, Prune(m) PROVE [Contract!Next]_(Contract!vars)
    <3>1. status' = [status EXCEPT ![m] = "gone"] /\ UNCHANGED <<attempts, delivered, recorded>>
      BY <2>5 DEF Prune
    <3>2. status[m] \in {"sent", "failed", "bounced", "not_configured"} /\ status'[m] = "gone"
      BY <2>5, <3>1 DEF Prune, GivenUp
    <3>3. CASE attempts[m] = 0 /\ ~recorded[m]
      BY <2>3, <3>1, <3>2, <3>3
    <3>4. CASE attempts[m] # 0 \/ recorded[m]
      <4>1. Seen(m) \in {"done", "dead"}
        <5>1. CASE recorded[m]
          BY <3>2, <5>1, SeenRecorded
        <5>2. CASE ~recorded[m]
          BY <3>2, <3>4, <5>2, SeenDead DEF RecordedOK
        <5> QED
          BY <5>1, <5>2
      <4>2. Seen(m)' = "gone"
        BY <3>1, <3>2, <3>4 DEF Seen, Open, GivenUp
      <4>3. Contract!Forget({m})
        BY <2>1, <3>1, <4>1, <4>2 DEF Contract!Forget, Contract!To
      <4> QED
        BY <4>3 DEF Contract!Next
    <3> QED
      BY <3>3, <3>4
  <2>6. CASE WebRestart
    <3>1. UNCHANGED <<attempts, delivered, recorded>>
      BY <2>6 DEF WebRestart
    <3>2. \A m \in Ids : Seen(m)' = Seen(m)
      <4> SUFFICES ASSUME NEW m \in Ids PROVE Seen(m)' = Seen(m)
        OBVIOUS
      <4>1. CASE status[m] # "writing"
        BY <2>6, <3>1, <4>1, SeenStays DEF WebRestart
      <4>2. CASE status[m] = "writing"
        <5>1. status'[m] = "rolledback" /\ attempts[m] = 0 /\ ~recorded[m]
          BY <2>6, <4>2 DEF WebRestart, AttemptsOK, RecordedOK
        <5> QED
          BY <3>1, <4>2, <5>1 DEF Seen, Open
      <4> QED
        BY <4>1, <4>2
    <3> QED
      BY <2>0, <3>1, <3>2
  <2>7. ASSUME NEW p \in Senders, NEW S \in SUBSET Ids, ClaimMail(p, S) PROVE UNCHANGED Contract!vars
    <3>0. UNCHANGED <<delivered, recorded>>
      BY <2>7 DEF ClaimMail
    <3>1. ASSUME NEW m \in S PROVE Seen(m)' = Seen(m)
      <4>1. status[m] \in {"queued", "sending"} /\ status'[m] = "sending"
        BY <2>7 DEF ClaimMail, Claimable
      <4>2. recorded'[m] = recorded[m]
        BY <3>0
      <4>3. CASE recorded[m]
        BY <4>1, <4>2, <4>3 DEF Seen
      <4>4. CASE ~recorded[m]
        BY <4>1, <4>2, <4>4 DEF Seen, Open, GivenUp
      <4> QED
        BY <4>3, <4>4
    <3>2. \A m \in Ids \ S : Seen(m)' = Seen(m)
      BY <2>7, <3>0, SeenStays DEF ClaimMail
    <3>3. \A m \in Ids : Seen(m)' = Seen(m)
      BY <3>1, <3>2
    <3> QED
      BY <2>0, <3>0, <3>3
  <2>8. ASSUME NEW p \in Senders, NEW c \in batch[p], Send(p, c) PROVE [Contract!Next]_(Contract!vars)
    <3>1. c.id \in Ids /\ UNCHANGED <<status, attempts, recorded>>
      BY <2>8 DEF Send, Message, rows
    <3>2. \A m \in Ids : Seen(m)' = Seen(m)
      BY <3>1, SeenStays
    <3>3. CASE delivered' = [delivered EXCEPT ![c.id] = @ + 1] /\ c.content
      <4>1. Sending(c)
        BY <2>8 DEF Send, HolderAgrees, Marked
      <4>2. Seen(c.id) = "open"
        BY <3>3, <4>1, SeenOpen DEF Sending
      <4>3. seen' = seen
        BY <3>2
      <4>4. Contract!Deliver(c.id)
        BY <3>1, <3>3, <4>2, <4>3 DEF Contract!Deliver, Contract!Owed
      <4> QED
        BY <3>1, <4>4 DEF Contract!Next
    <3>4. CASE UNCHANGED delivered
      BY <2>2, <3>1, <3>4
    <3> QED
      BY <2>8, <3>3, <3>4 DEF Send
  <2>9. ASSUME NEW p \in Senders, RecordSent(p) \/ RecordFailure(p) \/ AbandonBatch(p)
        PROVE  [Contract!Next]_(Contract!vars)
    <3>1. PICK c \in batch[p] : Records(p, c) /\ c = current[p]
      BY <2>9, SettleMoves DEF Settles, Records
    <3>2. PICK m \in Ids : m = c.id
      BY <3>1 DEF Records
    <3>3. UNCHANGED delivered
      BY <2>9 DEF RecordSent, RecordFailure, AbandonBatch
    <3>4. CASE UNCHANGED <<rows, recorded>>
      BY <2>2, <3>3, <3>4 DEF rows
    <3>5. CASE MarkSent(m) /\ phase[p] = "accepted"
      <4>1. status[m] = "sending" /\ ~recorded[m] /\ delivered[m] > 0
        BY <3>1, <3>2, <3>5 DEF Records, Sending, Marked, AcceptedDelivered
      <4>2. /\ status' = [status EXCEPT ![m] = "sent"] /\ UNCHANGED attempts
            /\ recorded' = [recorded EXCEPT ![m] = TRUE]
        BY <3>5, <4>1 DEF MarkSent
      <4>3. status'[m] = "sent" /\ recorded'[m]
        BY <4>2
      <4>4. Seen(m) = "open" /\ Seen(m)' = "done"
        BY <4>1, <4>3, SeenOpen DEF Seen
      <4>5. Contract!Close(m)
        BY <2>1, <3>3, <4>1, <4>2, <4>4 DEF Contract!Close, Contract!Owed, Contract!To
      <4> QED
        BY <4>5 DEF Contract!Next
    <3>6. ASSUME NEW s \in {"failed", "bounced", "not_configured", "queued"}, MarkFailed(m, s), UNCHANGED recorded
          PROVE  [Contract!Next]_(Contract!vars)
      <4>1. CASE status[m] = "gone"
        BY <2>2, <3>3, <3>6, <4>1 DEF MarkFailed, rows
      <4>2. CASE status[m] # "gone"
        <5>1. status' = [status EXCEPT ![m] = s] /\ UNCHANGED <<attempts, recorded>>
          BY <3>6, <4>2 DEF MarkFailed
        <5>2. status'[m] = s /\ attempts'[m] = attempts[m] /\ recorded'[m] = recorded[m]
          BY <5>1
        <5>3. \A i \in Ids \ {m} : status'[i] = status[i] /\ attempts'[i] = attempts[i] /\ recorded'[i] = recorded[i]
          BY <5>1
        <5>4. ASSUME Seen(m)' = Seen(m) PROVE UNCHANGED Contract!vars
          BY <2>0, <3>3, <5>3, <5>4, SeenStays
        <5>5. CASE recorded[m]
          <6>1. Seen(m)' = "done" /\ Seen(m) = "done"
            BY <4>2, <5>2, <5>5 DEF Seen
          <6> QED
            BY <5>4, <6>1
        <5>6. CASE ~recorded[m]
          <6>1. status[m] = "sending" /\ attempts[m] # 0
            BY <3>1, <3>2, <5>6 DEF Records, Sending, Marked, AttemptsOK
          <6>2. Seen(m) = "open"
            BY <5>6, <6>1, SeenOpen
          <6>3. CASE s = "queued"
            <7>1. Seen(m)' = "open"
              BY <5>2, <5>6, <6>3 DEF Seen, Open, GivenUp
            <7> QED
              BY <5>4, <6>2, <7>1
          <6>4. CASE s # "queued"
            <7>1. Seen(m)' = "dead"
              BY <3>6, <5>2, <5>6, <6>1, <6>4 DEF Seen, Open, GivenUp
            <7>2. Contract!GiveUp(m)
              BY <2>1, <3>3, <5>3, <6>2, <7>1 DEF Contract!GiveUp, Contract!Owed, Contract!To
            <7> QED
              BY <7>2 DEF Contract!Next
          <6> QED
            BY <6>3, <6>4
        <5> QED
          BY <5>5, <5>6
      <4> QED
        BY <4>1, <4>2
    <3> QED
      BY <3>1, <3>2, <3>4, <3>5, <3>6, FailureTyped DEF Records
  <2>10. ASSUME NEW m \in Ids, NextAttemptArrives(m) \/ LeaseExpires(m) PROVE UNCHANGED Contract!vars
    BY <2>2, <2>10 DEF NextAttemptArrives, LeaseExpires
  <2>11. ASSUME UNCHANGED <<rows, delivered, recorded>> PROVE UNCHANGED Contract!vars
    BY <2>2, <2>11 DEF rows
  <2>12. ASSUME NEW p \in Senders, BeginPoll(p) \/ SendWaitingMail(p) \/ EndPass(p) \/ Crash(p)
         PROVE  UNCHANGED Contract!vars
    BY <2>11, <2>12 DEF BeginPoll, SendWaitingMail, EndPass, Crash
  <2> QED
    BY <2>4, <2>5, <2>6, <2>7, <2>8, <2>9, <2>10, <2>11, <2>12
       DEF Next, Pass, OtherRequestCommits, vars, Senders
<1> QED
  BY <1>1, <1>2, Invariance, PTL DEF Spec, KeepsContract, Contract!Spec
=============================================================================

------------------------- MODULE WorkflowRunsProofs -------------------------
(***************************************************************************)
(* Theorems about WorkflowRuns, for every set of workflows, versions,      *)
(* causes and workers, and any crash or statement failure.                 *)
(***************************************************************************)
EXTENDS WorkflowRuns, TLAPS

USE ConstantsOK

\* The idempotency key of a run: its workflow, the version and the cause.
LEMMA RunParts ==
  \A r \in Runs : /\ r[1] \in Workflows /\ r[2] \in Versions /\ r[3] \in Causes
                  /\ r = <<r[1], r[2], r[3]>>
BY DEF Runs

InHand == {"running", "mailed", "failing"}

\* A worker has a run in hand exactly while it executes or fails one, and a batch
\* only while it goes through one.
HandsOK ==
    \A w \in Workers :
        /\ phase[w] \in InHand => current[w] \in batch[w]
        /\ phase[w] \notin InHand => current[w] = None
        /\ phase[w] \notin InHand \cup {"batch"} => batch[w] = {}

\* One more commit, or message, of a run leaves a count for every run.
LEMMA Counted ==
  ASSUME NEW f \in [Runs -> Nat], NEW r
  PROVE  [f EXCEPT ![r] = @ + 1] \in [Runs -> Nat]
<1>1. \A q \in Runs : f[q] + 1 \in Nat
  OBVIOUS
<1> QED
  BY <1>1

\* Every step keeps the types.
LEMMA TypeStep == TypeOK /\ [Next]_vars => TypeOK'
<1> SUFFICES ASSUME TypeOK, [Next]_vars PROVE TypeOK'
  OBVIOUS
<1> USE DEF TypeOK
<1>1. ASSUME NEW f \in Workflows, UpdateWorkflow(f) PROVE TypeOK'
  <2>1. version' \in [Workflows -> Versions]
    BY <1>1 DEF UpdateWorkflow, Versions
  <2> QED
    BY <1>1, <2>1 DEF UpdateWorkflow, rows, turns
<1>2. ASSUME NEW f \in Workflows, SetWorkflowStatus(f) PROVE TypeOK'
  BY <1>2 DEF SetWorkflowStatus, rows, turns
<1>3. ASSUME NEW e \in Events, UserEvent(e) \/ FanOutWorkflowRuns(e) PROVE TypeOK'
  <2>1. CASE UserEvent(e)
    BY <2>1 DEF UserEvent, definitions, rows, turns
  <2>2. CASE FanOutWorkflowRuns(e)
    <3>1. status' \in [Runs -> Statuses]
      BY <2>2 DEF FanOutWorkflowRuns, Queue, Statuses
    <3> QED
      BY <2>2, <3>1 DEF FanOutWorkflowRuns, definitions, turns
  <2> QED
    BY <1>3, <2>1, <2>2
<1>4. ASSUME NEW c \in Dates, QueueTimeTriggeredRuns(c) PROVE TypeOK'
  BY <1>4 DEF QueueTimeTriggeredRuns, Queue, definitions, turns, Statuses
<1>5. ASSUME NEW r \in Runs, LeaseExpires(r) \/ Prune(r) PROVE TypeOK'
  BY <1>5 DEF LeaseExpires, Prune, definitions, turns, Statuses
<1>6. ASSUME NEW w \in Workers, NEW S \in SUBSET Claimable, ClaimWorkflowRuns(w, S) PROVE TypeOK'
  <2>1. /\ status' \in [Runs -> Statuses] /\ lease' \in [Runs -> {"none", "live", "expired"}]
        /\ attempts' \in [Runs -> Nat]
    BY <1>6 DEF ClaimWorkflowRuns, Statuses
  <2>2. S \in SUBSET Runs
    BY DEF Claimable
  <2>3. phase' \in [Workers -> Phases] /\ batch' \in [Workers -> SUBSET Runs] /\ faults' \in Nat
    BY <1>6, <2>2 DEF ClaimWorkflowRuns, To, NoFault, Fault, Phases
  <2> QED
    BY <1>6, <2>1, <2>3 DEF ClaimWorkflowRuns, definitions
<1>7. ASSUME NEW w \in Workers, NEW r \in Runs, ExecuteWorkflowRun(w, r) PROVE TypeOK'
  BY <1>7 DEF ExecuteWorkflowRun, To, definitions, rows, Phases
<1>8. ASSUME NEW w \in Workers, SendMessage(w) PROVE TypeOK'
  BY <1>8, Counted DEF SendMessage, To, definitions, rows, Phases
<1>9. ASSUME NEW w \in Workers, CommitRun(w) PROVE TypeOK'
  <2>1. status' \in [Runs -> Statuses] /\ UNCHANGED <<attempts, lease>>
    BY <1>9 DEF CommitRun, Finish, Statuses
  <2>2. applied' \in [Runs -> Nat]
    BY <1>9, Counted DEF CommitRun
  <2>3. origin' \in [Events -> {"none", "user", "workflow"}]
    BY <1>9 DEF CommitRun
  <2>4. /\ phase' \in [Workers -> Phases] /\ batch' \in [Workers -> SUBSET Runs]
        /\ current' \in [Workers -> Runs \cup {None}] /\ faults' \in Nat
    BY <1>9 DEF CommitRun, Release, To, NoFault, Fault, Phases
  <2> QED
    BY <1>9, <2>1, <2>2, <2>3, <2>4 DEF CommitRun, definitions
<1>10. ASSUME NEW w \in Workers, FailWorkflowRun(w) PROVE TypeOK'
  <2>1. status' \in [Runs -> Statuses] /\ UNCHANGED <<attempts, lease>>
    BY <1>10 DEF FailWorkflowRun, Finish, rows, Statuses
  <2>2. /\ phase' \in [Workers -> Phases] /\ batch' \in [Workers -> SUBSET Runs]
        /\ current' \in [Workers -> Runs \cup {None}] /\ faults' \in Nat
    BY <1>10 DEF FailWorkflowRun, Release, To, NoFault, Fault, Phases
  <2> QED
    BY <1>10, <2>1, <2>2 DEF FailWorkflowRun, definitions
<1>11. ASSUME NEW w \in Workers, RunThrows(w) \/ EndTurn(w) \/ Crash(w) PROVE TypeOK'
  BY <1>11 DEF RunThrows, EndTurn, Crash, To, definitions, rows, Phases
<1>12. CASE UNCHANGED vars
  BY <1>12 DEF vars, definitions, rows, turns
<1> QED
  BY <1>1, <1>2, <1>3, <1>4, <1>5, <1>6, <1>7, <1>8, <1>9, <1>10, <1>11, <1>12 DEF Next, WorkerStep

\* The initial state has the types.
LEMMA InitTyped == Init => TypeOK
BY DEF Init, TypeOK, Versions, Statuses, Phases

\* Every column and every worker's memory stays in its type: the CHECK
\* constraints of workflow_runs are never hit.
THEOREM TypeCorrect == Spec => []TypeOK
BY InitTyped, TypeStep, PTL DEF Spec

-----------------------------------------------------------------------------

\* A worker has a run in hand exactly while it works on one of its batch.
LEMMA HandsStep == HandsOK /\ TypeOK /\ [Next]_vars => HandsOK'
<1> SUFFICES ASSUME TypeOK, HandsOK, [Next]_vars PROVE HandsOK'
  OBVIOUS
<1> USE DEF TypeOK, HandsOK, InHand
<1>1. ASSUME UNCHANGED turns PROVE HandsOK'
  BY <1>1 DEF turns
<1>2. ASSUME NEW w \in Workers, NEW S \in SUBSET Claimable, ClaimWorkflowRuns(w, S) PROVE HandsOK'
  BY <1>2 DEF ClaimWorkflowRuns, To
<1>3. ASSUME NEW w \in Workers, NEW r \in Runs, ExecuteWorkflowRun(w, r) PROVE HandsOK'
  BY <1>3 DEF ExecuteWorkflowRun, To
<1>4. ASSUME NEW w \in Workers, SendMessage(w) \/ RunThrows(w) PROVE HandsOK'
  BY <1>4 DEF SendMessage, RunThrows, To
<1>5. ASSUME NEW w \in Workers, CommitRun(w) \/ FailWorkflowRun(w) PROVE HandsOK'
  BY <1>5 DEF CommitRun, FailWorkflowRun, Release, To
<1>6. ASSUME NEW w \in Workers, EndTurn(w) \/ Crash(w) PROVE HandsOK'
  BY <1>6 DEF EndTurn, Crash, To
<1>7. ASSUME NEW f \in Workflows, UpdateWorkflow(f) \/ SetWorkflowStatus(f) PROVE HandsOK'
  BY <1>1, <1>7 DEF UpdateWorkflow, SetWorkflowStatus
<1>8. ASSUME NEW e \in Events, UserEvent(e) \/ FanOutWorkflowRuns(e) PROVE HandsOK'
  BY <1>1, <1>8 DEF UserEvent, FanOutWorkflowRuns
<1>9. ASSUME NEW c \in Dates, QueueTimeTriggeredRuns(c) PROVE HandsOK'
  BY <1>1, <1>9 DEF QueueTimeTriggeredRuns
<1>10. ASSUME NEW r \in Runs, LeaseExpires(r) \/ Prune(r) PROVE HandsOK'
  BY <1>1, <1>10 DEF LeaseExpires, Prune
<1> QED
  BY <1>1, <1>2, <1>3, <1>4, <1>5, <1>6, <1>7, <1>8, <1>9, <1>10 DEF Next, WorkerStep, vars

\* What a worker holds has a row.
BatchHasRows == \A w \in Workers : \A r \in batch[w] : status[r] # "none"

\* Until its fan-out an event has no run at all.
UnfannedHasNone == \A r \in Runs : r[3] \in Events /\ ~fanned[r[3]] => status[r] = "none"

\* What a step may do to the status of a run: it is queued by the fan-out of its
\* cause, with the workflow's version of that moment, or it moves on.
LEMMA QueuedBy ==
  ASSUME TypeOK, HandsOK, BatchHasRows, [Next]_vars, NEW r \in Runs
  PROVE  /\ status[r] # "none" => status'[r] # "none"
         /\ (status[r] = "none" /\ status'[r] # "none") =>
                /\ r[2] = version[r[1]]
                /\ \/ r[3] \in Events /\ FanOutWorkflowRuns(r[3]) /\ origin[r[3]] # "workflow"
                   \/ r[3] \in Dates
<1> DEFINE Goal == /\ status[r] # "none" => status'[r] # "none"
                   /\ (status[r] = "none" /\ status'[r] # "none") =>
                         /\ r[2] = version[r[1]]
                         /\ \/ r[3] \in Events /\ FanOutWorkflowRuns(r[3]) /\ origin[r[3]] # "workflow"
                            \/ r[3] \in Dates
<1> USE RunParts DEF TypeOK
<1>1. ASSUME status[r] = "none" <=> status'[r] = "none" PROVE Goal
  BY <1>1
<1>2. ASSUME NEW e \in Events, FanOutWorkflowRuns(e) PROVE Goal
  <2>1. CASE origin[e] = "workflow"
    BY <1>1, <1>2, <2>1 DEF FanOutWorkflowRuns
  <2>2. CASE origin[e] # "workflow"
    <3>1. \/ status'[r] = status[r]
          \/ status'[r] = "pending" /\ r[3] = e /\ r[2] = version[r[1]] /\ status[r] = "none"
      BY <1>2, <2>2 DEF FanOutWorkflowRuns, Queue, Queued
    <3> QED
      BY <1>2, <2>2, <3>1
  <2> QED
    BY <2>1, <2>2
<1>3. ASSUME NEW c \in Dates, QueueTimeTriggeredRuns(c) PROVE Goal
  BY <1>3 DEF QueueTimeTriggeredRuns, Queue, Queued
<1>4. ASSUME NEW q \in Runs, LeaseExpires(q) \/ Prune(q) PROVE Goal
  BY <1>1, <1>4 DEF LeaseExpires, Prune
<1>5. ASSUME NEW w \in Workers, NEW S \in SUBSET Claimable, ClaimWorkflowRuns(w, S) PROVE Goal
  BY <1>1, <1>5 DEF ClaimWorkflowRuns, Claimable
<1>6. ASSUME NEW w \in Workers, CommitRun(w) \/ FailWorkflowRun(w) PROVE Goal
  <2>1. current[w] \in Runs /\ status[current[w]] # "none"
    BY <1>6 DEF CommitRun, FailWorkflowRun, HandsOK, InHand, BatchHasRows
  <2>2. UNCHANGED rows \/ Finish(current[w], "succeeded") \/ Finish(current[w], "failed")
    BY <1>6 DEF CommitRun, FailWorkflowRun
  <2> QED
    BY <1>1, <2>1, <2>2 DEF Finish, rows
<1>7. ASSUME UNCHANGED status PROVE Goal
  BY <1>1, <1>7
<1>8. ASSUME NEW w \in Workers, \/ \E q \in Runs : ExecuteWorkflowRun(w, q)
                                \/ SendMessage(w) \/ RunThrows(w) \/ EndTurn(w) \/ Crash(w)
      PROVE Goal
  BY <1>7, <1>8 DEF ExecuteWorkflowRun, SendMessage, RunThrows, EndTurn, Crash, rows
<1>9. ASSUME NEW f \in Workflows, UpdateWorkflow(f) \/ SetWorkflowStatus(f) PROVE Goal
  BY <1>7, <1>9 DEF UpdateWorkflow, SetWorkflowStatus, rows
<1>10. ASSUME NEW e \in Events, UserEvent(e) PROVE Goal
  BY <1>7, <1>10 DEF UserEvent, rows
<1> QED
  BY <1>2, <1>3, <1>4, <1>5, <1>6, <1>7, <1>8, <1>9, <1>10 DEF Next, WorkerStep, vars, rows

\* A cause once known stays what it was, and an event fanned out stays so.
LEMMA CauseStands ==
  ASSUME TypeOK, [Next]_vars, NEW e \in Events
  PROVE  /\ origin[e] # "none" => origin'[e] = origin[e]
         /\ fanned[e] => fanned'[e]
<1> DEFINE Goal == /\ origin[e] # "none" => origin'[e] = origin[e]
                   /\ fanned[e] => fanned'[e]
<1> USE DEF TypeOK, Causes
<1>1. ASSUME UNCHANGED <<origin, fanned>> PROVE Goal
  BY <1>1
<1>2. ASSUME NEW d \in Events, UserEvent(d) \/ FanOutWorkflowRuns(d) PROVE Goal
  BY <1>2 DEF UserEvent, FanOutWorkflowRuns
<1>3. ASSUME NEW c \in Dates, QueueTimeTriggeredRuns(c) PROVE Goal
  BY <1>3 DEF QueueTimeTriggeredRuns
<1>4. ASSUME NEW w \in Workers, CommitRun(w) PROVE Goal
  BY <1>4 DEF CommitRun
<1>5. ASSUME NEW w \in Workers, \/ \E S \in SUBSET Claimable : ClaimWorkflowRuns(w, S)
                                \/ \E q \in Runs : ExecuteWorkflowRun(w, q)
                                \/ SendMessage(w) \/ RunThrows(w) \/ FailWorkflowRun(w) \/ EndTurn(w) \/ Crash(w)
      PROVE Goal
  BY <1>1, <1>5 DEF ClaimWorkflowRuns, ExecuteWorkflowRun, SendMessage, RunThrows, FailWorkflowRun, EndTurn, Crash
<1>6. ASSUME NEW f \in Workflows, UpdateWorkflow(f) \/ SetWorkflowStatus(f) PROVE Goal
  BY <1>1, <1>6 DEF UpdateWorkflow, SetWorkflowStatus
<1>7. ASSUME NEW r \in Runs, LeaseExpires(r) \/ Prune(r) PROVE Goal
  BY <1>1, <1>7 DEF LeaseExpires, Prune
<1> QED
  BY <1>1, <1>2, <1>3, <1>4, <1>5, <1>6, <1>7 DEF Next, WorkerStep, vars

\* A worker's batch grows only by a claim.
LEMMA BatchMoves ==
  ASSUME TypeOK, [Next]_vars
  PROVE  \/ \E w \in Workers : \E S \in SUBSET Claimable : ClaimWorkflowRuns(w, S)
         \/ \A v \in Workers : batch'[v] \subseteq batch[v]
<1> DEFINE Shrink == \A v \in Workers : batch'[v] \subseteq batch[v]
<1> USE DEF TypeOK
<1>1. ASSUME NEW w \in Workers, \/ \E q \in Runs : ExecuteWorkflowRun(w, q)
                                \/ SendMessage(w) \/ RunThrows(w) \/ CommitRun(w) \/ FailWorkflowRun(w)
                                \/ EndTurn(w) \/ Crash(w)
      PROVE Shrink
  <2>1. \/ batch' = batch
        \/ batch' = [batch EXCEPT ![w] = @ \ {current[w]}]
        \/ batch' = [batch EXCEPT ![w] = {}]
    BY <1>1 DEF ExecuteWorkflowRun, SendMessage, RunThrows, CommitRun, FailWorkflowRun, Release, EndTurn, Crash
  <2> QED
    BY <2>1
<1>2. ASSUME UNCHANGED batch PROVE Shrink
  BY <1>2
<1>3. ASSUME NEW f \in Workflows, UpdateWorkflow(f) \/ SetWorkflowStatus(f) PROVE Shrink
  BY <1>2, <1>3 DEF UpdateWorkflow, SetWorkflowStatus, turns
<1>4. ASSUME NEW r \in Runs, LeaseExpires(r) \/ Prune(r) PROVE Shrink
  BY <1>2, <1>4 DEF LeaseExpires, Prune, turns
<1>5. ASSUME NEW e \in Events, UserEvent(e) \/ FanOutWorkflowRuns(e) PROVE Shrink
  BY <1>2, <1>5 DEF UserEvent, FanOutWorkflowRuns, turns
<1>6. ASSUME NEW c \in Dates, QueueTimeTriggeredRuns(c) PROVE Shrink
  BY <1>2, <1>6 DEF QueueTimeTriggeredRuns, turns
<1> QED
  BY <1>1, <1>2, <1>3, <1>4, <1>5, <1>6 DEF Next, WorkerStep, vars, turns

\* What a worker has claimed is a run that exists.
LEMMA BatchStep == BatchHasRows /\ TypeOK /\ HandsOK /\ [Next]_vars => BatchHasRows'
<1> SUFFICES ASSUME TypeOK, HandsOK, BatchHasRows, [Next]_vars PROVE BatchHasRows'
  OBVIOUS
<1> USE DEF TypeOK
<1>1. \A r \in Runs : status[r] # "none" => status'[r] # "none"
  BY QueuedBy
<1>2. CASE \A v \in Workers : batch'[v] \subseteq batch[v]
  BY <1>1, <1>2 DEF BatchHasRows
<1>3. ASSUME NEW w \in Workers, NEW S \in SUBSET Claimable, ClaimWorkflowRuns(w, S) PROVE BatchHasRows'
  <2>1. \A v \in Workers : batch'[v] \subseteq batch[v] \cup S
    BY <1>3 DEF ClaimWorkflowRuns
  <2>2. \A r \in S : r \in Runs /\ status[r] # "none"
    BY DEF Claimable
  <2> QED
    BY <1>1, <2>1, <2>2 DEF BatchHasRows
<1> QED
  BY <1>2, <1>3, BatchMoves

\* The inductive invariant behind NoLoops and OneRunEach.
CauseInv == TypeOK /\ HandsOK /\ BatchHasRows /\ NoChainReaction /\ UnfannedHasNone /\ OneRunPerEvent

\* A run is made by the fan-out of its event alone, which passes over what a workflow published.
LEMMA CauseStep == CauseInv /\ [Next]_vars => CauseInv'
<1> SUFFICES ASSUME CauseInv, [Next]_vars PROVE CauseInv'
  OBVIOUS
<1> USE DEF CauseInv
<1>1. NoChainReaction'
  <2> SUFFICES ASSUME NEW r \in Runs, status'[r] # "none", r[3] \in Events
               PROVE  origin'[r[3]] = "user"
    BY DEF NoChainReaction
  <2>1. CASE status[r] # "none"
    BY <2>1, CauseStands DEF NoChainReaction
  <2>2. CASE status[r] = "none"
    <3>1. FanOutWorkflowRuns(r[3]) /\ origin[r[3]] # "workflow"
      BY <2>2, QueuedBy
    <3>2. origin[r[3]] = "user" /\ origin' = origin
      BY <3>1 DEF FanOutWorkflowRuns, TypeOK
    <3> QED
      BY <3>2
  <2> QED
    BY <2>1, <2>2
<1>2. UnfannedHasNone'
  <2> SUFFICES ASSUME NEW r \in Runs, r[3] \in Events, ~fanned'[r[3]], status'[r] # "none"
               PROVE  FALSE
    BY DEF UnfannedHasNone
  <2>1. ~fanned[r[3]] /\ status[r] = "none"
    BY CauseStands DEF UnfannedHasNone
  <2>2. FanOutWorkflowRuns(r[3])
    BY <2>1, QueuedBy
  <2> QED
    BY <2>2 DEF FanOutWorkflowRuns, TypeOK, Causes
<1>3. OneRunPerEvent'
  <2> SUFFICES ASSUME NEW q \in Runs, NEW r \in Runs, q # r, q[1] = r[1], q[3] = r[3], q[3] \in Events,
                      status'[q] # "none", status'[r] # "none"
               PROVE  FALSE
    BY DEF OneRunPerEvent
  <2>1. status[q] = "none" \/ status[r] = "none"
    BY DEF OneRunPerEvent
  <2>2. FanOutWorkflowRuns(q[3])
    BY <2>1, QueuedBy
  <2>3. status[q] = "none" /\ status[r] = "none"
    BY <2>2 DEF FanOutWorkflowRuns, UnfannedHasNone
  <2>4. q[2] = version[q[1]] /\ r[2] = version[r[1]]
    BY <2>3, QueuedBy
  <2> QED
    BY <2>4, RunParts
<1> QED
  BY <1>1, <1>2, <1>3, TypeStep, HandsStep, BatchStep

\* With no runs there is none without its cause.
LEMMA CauseInit == Init => CauseInv
BY InitTyped DEF Init, CauseInv, HandsOK, InHand, BatchHasRows, NoChainReaction, UnfannedHasNone, OneRunPerEvent

\* So every run has its cause throughout.
LEMMA CauseInvariant == Spec => []CauseInv
BY CauseInit, CauseStep, PTL DEF Spec

\* An event that a workflow's own actions published starts no workflow, whatever is
\* fanned out, activated, saved anew, crashed or tried again meanwhile.
THEOREM NoLoops == Spec => []NoChainReaction
<1>1. CauseInv => NoChainReaction
  BY DEF CauseInv
<1> QED
  BY <1>1, CauseInvariant, PTL

\* One event gets one run per workflow: the versions saved before, between and after
\* its fan-outs cannot double it.  No assumption on leases.
THEOREM OneRunEach == Spec => []OneRunPerEvent
<1>1. CauseInv => OneRunPerEvent
  BY DEF CauseInv
<1> QED
  BY <1>1, CauseInvariant, PTL

-----------------------------------------------------------------------------
(* The contract of a durable queue. *)

\* A run in a worker's batch is running under a live lease; only a lost answer to
\* its commit leaves it finished, or even pruned, and still in hand.
HolderAgrees ==
    \A w \in Workers : \A r \in batch[w] :
        \/ status[r] = "running" /\ lease[r] = "live"
        \/ /\ status[r] \in {"succeeded", "gone"}
           /\ phase[w] = "failing" /\ current[w] = r
           /\ applied[r] > 0

\* No run is in two batches.
OneHolder == \A v, w \in Workers : v # w => batch[v] \cap batch[w] = {}

\* A run that is still to finish has committed nothing.
OpenUnapplied == \A r \in Runs : status[r] \in {"none", "pending", "running"} => applied[r] = 0

\* The inductive invariant behind Refines.
Inv == CauseInv /\ HolderAgrees /\ OneHolder /\ OpenUnapplied

\* A claim takes no run that another worker has, while leases outlast batches.
LEMMA OneHolderStep ==
  ASSUME CauseInv, HolderAgrees, OneHolder, [Next]_vars
  PROVE  OneHolder'
<1> USE DEF CauseInv, TypeOK
<1>1. ASSUME NEW w \in Workers, NEW S \in SUBSET Claimable, ClaimWorkflowRuns(w, S) PROVE OneHolder'
  <2>1. \A v \in Workers : S \cap batch[v] = {}
    BY DEF Claimable, HolderAgrees
  <2>2. batch' = batch \/ batch' = [batch EXCEPT ![w] = S]
    BY <1>1 DEF ClaimWorkflowRuns
  <2> QED
    BY <2>1, <2>2 DEF OneHolder
<1>2. CASE \A v \in Workers : batch'[v] \subseteq batch[v]
  BY <1>2 DEF OneHolder
<1> QED
  BY <1>1, <1>2, BatchMoves

\* While leases outlast batches, what a worker has in its batch is running under its lease.
LEMMA HolderStep ==
  ASSUME ~Overrun, CauseInv, HolderAgrees, OneHolder, [Next]_vars
  PROVE  HolderAgrees'
<1> USE DEF CauseInv, TypeOK, HolderAgrees
<1>1. ASSUME UNCHANGED <<status, lease, turns, applied>> PROVE HolderAgrees'
  BY <1>1 DEF turns
<1>2. ASSUME NEW f \in Workflows, UpdateWorkflow(f) \/ SetWorkflowStatus(f) PROVE HolderAgrees'
  BY <1>1, <1>2 DEF UpdateWorkflow, SetWorkflowStatus, rows
<1>3. ASSUME NEW e \in Events, UserEvent(e) PROVE HolderAgrees'
  BY <1>1, <1>3 DEF UserEvent, rows
<1>4. ASSUME UNCHANGED <<lease, turns, applied>>, \A r \in Runs : status[r] # "none" => status'[r] = status[r]
      PROVE HolderAgrees'
  BY <1>4 DEF turns
<1>5. ASSUME NEW e \in Events, FanOutWorkflowRuns(e) PROVE HolderAgrees'
  BY <1>4, <1>5 DEF FanOutWorkflowRuns, Queue, Queued
<1>6. ASSUME NEW c \in Dates, QueueTimeTriggeredRuns(c) PROVE HolderAgrees'
  BY <1>4, <1>6 DEF QueueTimeTriggeredRuns, Queue, Queued
<1>7. ASSUME NEW r \in Runs, LeaseExpires(r) \/ Prune(r) PROVE HolderAgrees'
  <2>1. UNCHANGED <<turns, applied>> /\ \A q \in Runs \ {r} : status'[q] = status[q] /\ lease'[q] = lease[q]
    BY <1>7 DEF LeaseExpires, Prune
  <2>2. \A w \in Workers : r \in batch[w] =>
           \/ status'[r] = status[r] /\ lease'[r] = lease[r]
           \/ status[r] \in {"succeeded", "failed"} /\ status'[r] = "gone"
    BY <1>7 DEF LeaseExpires, Prune
  <2> QED
    BY <2>1, <2>2 DEF turns
<1>8. ASSUME NEW w \in Workers, NEW S \in SUBSET Claimable, ClaimWorkflowRuns(w, S) PROVE HolderAgrees'
  <2>1. \A v \in Workers : \A r \in batch[v] : r \notin S
    BY DEF Claimable
  <2>2. \A r \in Runs : r \in S => status'[r] = "running" /\ lease'[r] = "live"
    BY <1>8 DEF ClaimWorkflowRuns
  <2>3. \A r \in Runs \ S : status'[r] = status[r] /\ lease'[r] = lease[r]
    BY <1>8 DEF ClaimWorkflowRuns
  <2>4. batch'[w] \subseteq S /\ \A v \in Workers \ {w} : batch'[v] = batch[v] /\ phase'[v] = phase[v]
    BY <1>8 DEF ClaimWorkflowRuns, HandsOK, InHand, To
  <2>5. S \subseteq Runs /\ UNCHANGED <<current, applied>>
    BY <1>8 DEF ClaimWorkflowRuns, Claimable
  <2> QED
    BY <2>1, <2>2, <2>3, <2>4, <2>5
<1>9. ASSUME NEW w \in Workers, \/ \E q \in Runs : ExecuteWorkflowRun(w, q)
                                \/ SendMessage(w) \/ RunThrows(w) \/ EndTurn(w) \/ Crash(w)
      PROVE HolderAgrees'
  <2>1. \A r \in batch[w] : phase[w] # "failing" => status[r] = "running" /\ lease[r] = "live"
    OBVIOUS
  <2>2. UNCHANGED <<status, lease, applied>>
    BY <1>9 DEF ExecuteWorkflowRun, SendMessage, RunThrows, EndTurn, Crash, rows
  <2>3. /\ batch'[w] \subseteq batch[w]
        /\ \A v \in Workers \ {w} : batch'[v] = batch[v] /\ phase'[v] = phase[v] /\ current'[v] = current[v]
    BY <1>9 DEF ExecuteWorkflowRun, SendMessage, RunThrows, EndTurn, Crash, To
  <2>4. phase[w] # "failing" \/ batch'[w] = {}
    BY <1>9 DEF ExecuteWorkflowRun, SendMessage, RunThrows, EndTurn, Crash
  <2> QED
    BY <2>1, <2>2, <2>3, <2>4
<1>10. ASSUME NEW w \in Workers, CommitRun(w) \/ FailWorkflowRun(w) PROVE HolderAgrees'
  <2>1. PICK r \in Runs : r = current[w] /\ r \in batch[w] /\ \A v \in Workers \ {w} : r \notin batch[v]
    BY <1>10 DEF CommitRun, FailWorkflowRun, HandsOK, InHand, OneHolder
  <2>2. \A q \in Runs \ {r} : status'[q] = status[q] /\ applied'[q] = applied[q]
    BY <1>10, <2>1 DEF CommitRun, FailWorkflowRun, Finish, rows
  <2>3. UNCHANGED lease /\ \A v \in Workers \ {w} :
           batch'[v] = batch[v] /\ phase'[v] = phase[v] /\ current'[v] = current[v]
    BY <1>10 DEF CommitRun, FailWorkflowRun, Finish, Release, To, rows
  <2>4. \A q \in batch[w] : q # r => status[q] = "running" /\ lease[q] = "live"
    BY <2>1
  <2>5. CASE batch' = [batch EXCEPT ![w] = @ \ {r}]
    BY <2>1, <2>2, <2>3, <2>4, <2>5
  <2>6. CASE CommitRun(w) /\ To(w, "failing") /\ UNCHANGED <<batch, current>>
    <3>1. status[r] = "running"
      BY <2>1, <2>6 DEF CommitRun
    <3>2. status'[r] = "succeeded" /\ applied'[r] > 0 /\ phase'[w] = "failing"
      BY <2>1, <2>6, <3>1 DEF CommitRun, Finish, To
    <3> QED
      BY <2>1, <2>2, <2>3, <2>4, <2>6, <3>2
  <2> QED
    BY <1>10, <2>1, <2>5, <2>6 DEF CommitRun, FailWorkflowRun, Release
<1> QED
  BY <1>1, <1>2, <1>3, <1>5, <1>6, <1>7, <1>8, <1>9, <1>10 DEF Next, WorkerStep, vars, rows, turns

\* A run that is not finished has committed nothing.
LEMMA UnappliedStep ==
  ASSUME CauseInv, HolderAgrees, OpenUnapplied, [Next]_vars
  PROVE  OpenUnapplied'
<1> USE DEF CauseInv, TypeOK, OpenUnapplied
<1>1. ASSUME UNCHANGED applied,
             \A r \in Runs : status'[r] \in {"none", "pending", "running"} =>
                                status[r] \in {"none", "pending", "running"}
      PROVE OpenUnapplied'
  BY <1>1
<1>2. ASSUME NEW f \in Workflows, UpdateWorkflow(f) \/ SetWorkflowStatus(f) PROVE OpenUnapplied'
  BY <1>1, <1>2 DEF UpdateWorkflow, SetWorkflowStatus, rows
<1>3. ASSUME NEW e \in Events, UserEvent(e) \/ FanOutWorkflowRuns(e) PROVE OpenUnapplied'
  BY <1>1, <1>3 DEF UserEvent, FanOutWorkflowRuns, Queue, Queued, rows
<1>4. ASSUME NEW c \in Dates, QueueTimeTriggeredRuns(c) PROVE OpenUnapplied'
  BY <1>1, <1>4 DEF QueueTimeTriggeredRuns, Queue, Queued
<1>5. ASSUME NEW r \in Runs, LeaseExpires(r) \/ Prune(r) PROVE OpenUnapplied'
  BY <1>1, <1>5 DEF LeaseExpires, Prune
<1>6. ASSUME NEW w \in Workers, NEW S \in SUBSET Claimable, ClaimWorkflowRuns(w, S) PROVE OpenUnapplied'
  BY <1>1, <1>6 DEF ClaimWorkflowRuns, Claimable
<1>7. ASSUME NEW w \in Workers, FailWorkflowRun(w) PROVE OpenUnapplied'
  BY <1>1, <1>7 DEF FailWorkflowRun, Finish, rows
<1>8. ASSUME NEW w \in Workers, CommitRun(w) PROVE OpenUnapplied'
  <2>1. PICK r \in Runs : r = current[w]
    BY <1>8 DEF CommitRun, HandsOK, InHand
  <2>2. status'[r] \in {"succeeded", "gone"}
    BY <1>8, <2>1 DEF CommitRun, Finish
  <2>3. \A q \in Runs \ {r} : status'[q] = status[q] /\ applied'[q] = applied[q]
    BY <1>8, <2>1 DEF CommitRun, Finish
  <2> QED
    BY <2>2, <2>3
<1>9. ASSUME NEW w \in Workers, \/ \E q \in Runs : ExecuteWorkflowRun(w, q)
                                \/ SendMessage(w) \/ RunThrows(w) \/ EndTurn(w) \/ Crash(w)
      PROVE OpenUnapplied'
  BY <1>1, <1>9 DEF ExecuteWorkflowRun, SendMessage, RunThrows, EndTurn, Crash, rows
<1> QED
  BY <1>1, <1>2, <1>3, <1>4, <1>5, <1>6, <1>7, <1>8, <1>9 DEF Next, WorkerStep, vars, rows

\* While the five minutes outlast a batch, a run is in the hands of one worker at
\* most and commits nothing before it is finished.
THEOREM Invariance == ASSUME ~Overrun PROVE Spec => []Inv
<1> DEFINE J == HolderAgrees /\ OneHolder /\ OpenUnapplied
<1>1. Init => J
  BY DEF Init, HolderAgrees, OneHolder, OpenUnapplied
<1>2. CauseInv /\ J /\ [Next]_vars => J'
  BY HolderStep, OneHolderStep, UnappliedStep
<1> QED
  BY <1>1, <1>2, CauseInvariant, PTL DEF Spec, Inv

\* A run whose status and effect a step leaves alone looks the same.
LEMMA SeenStays ==
  ASSUME NEW r, status'[r] = status[r], applied'[r] = applied[r]
  PROVE  Seen(r)' = Seen(r)
BY DEF Seen

\* What the publisher of the events sees of the runs is a behaviour of
\* DeliveryContract in which taking effect and being done are one step: whatever
\* the row says after a lost answer, no run takes effect twice or after it failed.
THEOREM Refines == ASSUME ~Overrun PROVE Spec => KeepsContract
<1> DEFINE seen == [r \in Runs |-> Seen(r)]
<1>1. Init => Contract!Init
  BY DEF Init, Contract!Init, Seen
<1>2. ASSUME Inv, [Next]_vars PROVE [Contract!Next]_(Contract!vars)
  <2> USE <1>2 DEF Inv, CauseInv, TypeOK
  <2>0. ASSUME UNCHANGED <<status, applied>> PROVE UNCHANGED Contract!vars
    BY <2>0 DEF Contract!vars, Seen
  <2>1. ASSUME NEW r \in Runs, NEW c, Seen(r)' = c,
               \A q \in Runs \ {r} : status'[q] = status[q] /\ applied'[q] = applied[q]
        PROVE  seen' = [q \in Runs |-> IF q \in {r} THEN c ELSE seen[q]]
    <3>1. \A q \in Runs \ {r} : Seen(q)' = Seen(q)
      BY <2>1, SeenStays
    <3> QED
      BY <2>1, <3>1
  <2>2. ASSUME NEW c \in Causes, Queue(c), UNCHANGED applied PROVE Contract!Next
    <3> DEFINE I == Queued(c)
    <3>1. I \in SUBSET Runs /\ \A r \in I : status[r] = "none"
      BY DEF Queued
    <3>2. \A r \in Runs : status'[r] = IF r \in I THEN "pending" ELSE status[r]
      BY <2>2 DEF Queue
    <3>3. \A r \in Runs : Seen(r)' = IF r \in I THEN "open" ELSE Seen(r)
      <4>1. \A r \in I : Seen(r)' = "open"
        BY <3>1, <3>2 DEF Seen
      <4>2. \A r \in Runs \ I : Seen(r)' = Seen(r)
        BY <2>2, <3>2, SeenStays
      <4> QED
        BY <4>1, <4>2
    <3>4. \A r \in I : seen[r] = "none"
      BY <3>1 DEF Seen
    <3>5. Contract!Accept(I)
      BY <2>2, <3>3, <3>4 DEF Contract!Accept, Contract!Enter, Contract!To
    <3> QED
      BY <3>1, <3>5 DEF Contract!Next
  <2>3. ASSUME NEW e \in Events, FanOutWorkflowRuns(e) PROVE [Contract!Next]_(Contract!vars)
    BY <2>0, <2>2, <2>3 DEF FanOutWorkflowRuns, Causes
  <2>4. ASSUME NEW c \in Dates, QueueTimeTriggeredRuns(c) PROVE Contract!Next
    BY <2>2, <2>4 DEF QueueTimeTriggeredRuns, Causes
  <2>5. ASSUME NEW r \in Runs, Prune(r) PROVE Contract!Next
    <3>1. Seen(r) \in {"done", "dead"} /\ Seen(r)' = "gone"
      BY <2>5 DEF Prune, Seen
    <3>2. Contract!Forget({r})
      BY <2>1, <2>5, <3>1 DEF Prune, Contract!Forget, Contract!To
    <3> QED
      BY <3>2 DEF Contract!Next
  <2>6. ASSUME NEW w \in Workers, NEW S \in SUBSET Claimable, ClaimWorkflowRuns(w, S)
        PROVE  UNCHANGED Contract!vars
    <3>1. \A r \in Runs : Seen(r)' = Seen(r)
      <4>1. \A r \in S : r \in Runs => Seen(r)' = "open" /\ Seen(r) = "open"
        BY <2>6 DEF ClaimWorkflowRuns, Claimable, Seen
      <4>2. \A r \in Runs \ S : Seen(r)' = Seen(r)
        BY <2>6, SeenStays DEF ClaimWorkflowRuns
      <4> QED
        BY <4>1, <4>2
    <3> QED
      BY <2>6, <3>1 DEF ClaimWorkflowRuns, Contract!vars
  <2>7. ASSUME NEW w \in Workers, CommitRun(w) PROVE Contract!Next
    <3>1. PICK r \in Runs : r = current[w] /\ r \in batch[w] /\ status[r] = "running"
      BY <2>7 DEF CommitRun, HandsOK, InHand, HolderAgrees
    <3>2. applied' = [applied EXCEPT ![r] = @ + 1] /\ status' = [status EXCEPT ![r] = "succeeded"]
      BY <2>7, <3>1 DEF CommitRun, Finish
    <3>3. Seen(r) = "open" /\ Seen(r)' = "done"
      BY <3>1, <3>2 DEF Seen
    <3>4. Contract!Deliver(r)
      BY <2>1, <3>2, <3>3 DEF Contract!Deliver, Contract!Owed, Contract!To
    <3> QED
      BY <3>4 DEF Contract!Next
  <2>8. ASSUME NEW w \in Workers, FailWorkflowRun(w) PROVE [Contract!Next]_(Contract!vars)
    <3>1. PICK r \in Runs : r = current[w] /\ r \in batch[w]
      BY <2>8 DEF FailWorkflowRun, HandsOK, InHand
    <3>2. UNCHANGED applied /\ \A q \in Runs \ {r} : status'[q] = status[q] /\ applied'[q] = applied[q]
      BY <2>8, <3>1 DEF FailWorkflowRun, Finish, rows
    <3>3. CASE UNCHANGED rows
      BY <2>0, <3>2, <3>3 DEF rows
    <3>4. CASE Finish(r, "failed") /\ status[r] = "running"
      <4>1. Seen(r) = "open" /\ Seen(r)' = "dead"
        BY <3>2, <3>4 DEF Finish, Seen, OpenUnapplied
      <4>2. Contract!GiveUp(r)
        BY <2>1, <3>2, <4>1 DEF Contract!GiveUp, Contract!Owed, Contract!To
      <4> QED
        BY <4>2 DEF Contract!Next
    <3>5. CASE Finish(r, "failed") /\ status[r] \in {"succeeded", "gone"} /\ applied[r] > 0
      <4>1. Seen(r)' = Seen(r)
        BY <3>2, <3>5 DEF Finish, Seen
      <4>2. \A q \in Runs : Seen(q)' = Seen(q)
        BY <3>2, <4>1, SeenStays
      <4> QED
        BY <3>2, <4>2 DEF Contract!vars
    <3> QED
      BY <2>8, <3>1, <3>3, <3>4, <3>5 DEF FailWorkflowRun, HolderAgrees
  <2>9. ASSUME NEW f \in Workflows, UpdateWorkflow(f) \/ SetWorkflowStatus(f) PROVE UNCHANGED Contract!vars
    BY <2>0, <2>9 DEF UpdateWorkflow, SetWorkflowStatus, rows
  <2>10. ASSUME NEW e \in Events, UserEvent(e) PROVE UNCHANGED Contract!vars
    BY <2>0, <2>10 DEF UserEvent, rows
  <2>11. ASSUME NEW r \in Runs, LeaseExpires(r) PROVE UNCHANGED Contract!vars
    BY <2>0, <2>11 DEF LeaseExpires
  <2>12. ASSUME NEW w \in Workers, \/ \E q \in Runs : ExecuteWorkflowRun(w, q)
                                   \/ SendMessage(w) \/ RunThrows(w) \/ EndTurn(w) \/ Crash(w)
         PROVE  UNCHANGED Contract!vars
    BY <2>0, <2>12 DEF ExecuteWorkflowRun, SendMessage, RunThrows, EndTurn, Crash, rows
  <2>13. CASE UNCHANGED vars
    BY <2>0, <2>13 DEF vars, rows
  <2> QED
    BY <2>3, <2>4, <2>5, <2>6, <2>7, <2>8, <2>9, <2>10, <2>11, <2>12, <2>13 DEF Next, WorkerStep
<1> QED
  BY <1>1, <1>2, Invariance, PTL DEF Spec, KeepsContract, Contract!Spec
=============================================================================

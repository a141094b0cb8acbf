-------------------------- MODULE MediaJobs_proofs --------------------------
(***************************************************************************)
(* Proofs about MediaJobs for every number of rows, workers and messages.  *)
(* The inductive invariant ties the two halves of a claim together: a row  *)
(* an open transaction has locked is PENDING and due, a row of a committed *)
(* batch is neither, and no row is in two workers' hands.                  *)
(***************************************************************************)
EXTENDS MediaJobs, TLAPS

USE JobsAssumption, MsgsAssumption, ImageAssumption, LimitAssumption, InlineAssumption

(* A retried record is a record again: its budget never drops below zero.  *)
LEMMA RetriedType ==
  ASSUME NEW rec \in Message
  PROVE  Retried(rec) \in Message
<1>1. rec.job \in Jobs /\ rec.left \in 0..RetryLimit
  BY DEF Message
<1>2. rec = [state |-> rec.state, job |-> rec.job, left |-> rec.left]
  BY DEF Message
<1>3. CASE rec.left > 0
  <2>1. Retried(rec) = [state |-> "ready", job |-> rec.job, left |-> rec.left - 1]
    BY <1>2, <1>3 DEF Retried
  <2>2. rec.left - 1 \in 0..RetryLimit
    BY <1>1, <1>3
  <2> QED
    BY <1>1, <2>1, <2>2 DEF Message
<1>4. CASE ~(rec.left > 0)
  <2>1. Retried(rec) = [state |-> "done", job |-> rec.job, left |-> rec.left]
    BY <1>2, <1>4 DEF Retried
  <2> QED
    BY <1>1, <2>1 DEF Message
<1> QED
  BY <1>3, <1>4

LEMMA EndRunType ==
  ASSUME TypeOK, NEW r \in runs, NEW ok \in BOOLEAN, EndRun(r, ok)
  PROVE  msg' \in [Msgs -> Message] /\ runs' \in SUBSET Run
<1>1. msg[r.msg] \in Message /\ r.msg \in Msgs
  BY DEF TypeOK, Run
<1>2. [msg[r.msg] EXCEPT !.state = "done"] \in Message
  BY <1>1 DEF Message
<1>3. Retried(msg[r.msg]) \in Message
  BY <1>1, RetriedType
<1> QED
  BY <1>1, <1>2, <1>3 DEF EndRun, TypeOK

LEMMA AdvanceType ==
  ASSUME TypeOK, NEW r \in runs,
         NEW at \in {"fetched", "running", "returned", "threw", "succeeded", "failed"},
         Advance(r, at)
  PROVE  runs' \in SUBSET Run
<1>1. [r EXCEPT !.at = at] \in Run
  BY DEF TypeOK, Run
<1> QED
  BY <1>1 DEF Advance, TypeOK

(* Every variable keeps its type: media_jobs rows, claims, pg-boss records  *)
(* and runMediaJob calls.                                                   *)
LEMMA TypeInit == Init => TypeOK
<1> SUFFICES ASSUME Init PROVE TypeOK
  OBVIOUS
<1>1. (CHOOSE j \in Jobs : TRUE) \in Jobs
  OBVIOUS
<1> QED
  BY <1>1 DEF Init, TypeOK, Message, Status

LEMMA TypeStep == TypeOK /\ [Next]_vars => TypeOK'
<1> SUFFICES ASSUME TypeOK, [Next]_vars PROVE TypeOK'
  OBVIOUS
<1>1. ASSUME NEW j \in Jobs, NEW now \in BOOLEAN, Enqueue(j, now) PROVE TypeOK'
  BY <1>1 DEF TypeOK, Enqueue, Status
<1>2. ASSUME NEW j \in Jobs, Elapse(j) PROVE TypeOK'
  BY <1>2 DEF TypeOK, Elapse
<1>3. ASSUME NEW w \in Workers, Publish(w) PROVE TypeOK'
  <2>1. CASE SelectDue(w)
    BY <2>1 DEF TypeOK, SelectDue, OldestOf, Claimable
  <2>2. CASE CommitClaim(w)
    BY <2>2 DEF TypeOK, CommitClaim, Status
  <2>3. CASE RollbackClaim(w)
    BY <2>3 DEF TypeOK, RollbackClaim
  <2>4. CASE ReleaseFails(w)
    BY <2>4 DEF TypeOK, ReleaseFails
  <2>5. ASSUME NEW j \in Jobs, SendFails(w, j) PROVE TypeOK'
    BY <2>5 DEF TypeOK, SendFails
  <2>6. ASSUME NEW j \in Jobs, Release(w, j) PROVE TypeOK'
    BY <2>6 DEF TypeOK, Release, ReleasedStatus, AfterRelease, Status, Started
  <2>7. ASSUME NEW j \in Jobs, NEW m \in Msgs, Send(w, j, m) PROVE TypeOK'
    <3>1. [state |-> "ready", job |-> j, left |-> RetryLimit] \in Message
      BY DEF Message
    <3> QED
      BY <2>7, <3>1 DEF TypeOK, Send, Stored
  <2>8. ASSUME NEW j \in Jobs, NEW m \in Msgs, SendAnswerLost(w, j, m) PROVE TypeOK'
    <3>1. [state |-> "ready", job |-> j, left |-> RetryLimit] \in Message
      BY DEF Message
    <3> QED
      BY <2>8, <3>1 DEF TypeOK, SendAnswerLost, Stored
  <2> QED
    BY <1>3, <2>1, <2>2, <2>3, <2>4, <2>5, <2>6, <2>7, <2>8 DEF Publish
<1>4. ASSUME NEW w \in Workers, NEW m \in Msgs, Deliver(w, m) PROVE TypeOK'
  <2>1. [msg[m] EXCEPT !.state = "active"] \in Message
    BY DEF TypeOK, Message
  <2>2. [msg |-> m, left |-> msg[m].left, worker |-> w, awaited |-> TRUE,
         at |-> "fetched"] \in Run
    BY DEF TypeOK, Message, Run
  <2> QED
    BY <1>4, <2>1, <2>2 DEF TypeOK, Deliver
<1>5. ASSUME NEW m \in Msgs, Expire(m) PROVE TypeOK'
  <2>1. Retried(msg[m]) \in Message
    BY RetriedType DEF TypeOK
  <2>2. \A r \in runs : [r EXCEPT !.awaited = FALSE] \in Run
    BY DEF TypeOK, Run
  <2> QED
    BY <1>5, <2>1, <2>2 DEF TypeOK, Expire
<1>6. ASSUME NEW r \in runs, Handle(r) PROVE TypeOK'
  <2>0. r \in Run /\ JobOf(r) \in Jobs
    BY DEF TypeOK, Run, JobOf, Message
  <2>1. CASE MarkRunning(r)
    BY <2>0, <2>1, AdvanceType DEF TypeOK, MarkRunning, Status, Started
  <2>2. CASE MarkRunningFails(r)
    BY <2>0, <2>2, EndRunType DEF TypeOK, MarkRunningFails
  <2>3. ASSUME NEW at \in {"returned", "threw"}, HandlerEnds(r, at) PROVE TypeOK'
    BY <2>3, AdvanceType DEF TypeOK, HandlerEnds
  <2>4. CASE MarkSettled(r)
    BY <2>0, <2>4, AdvanceType DEF TypeOK, MarkSettled, Status, Started
  <2>5. CASE MarkSucceededFails(r)
    BY <2>5, AdvanceType DEF TypeOK, MarkSucceededFails
  <2>6. CASE MarkFailedFails(r)
    BY <2>0, <2>6, EndRunType DEF TypeOK, MarkFailedFails
  <2>7. CASE Acknowledge(r)
    BY <2>7, EndRunType DEF TypeOK, Acknowledge
  <2> QED
    BY <1>6, <2>1, <2>2, <2>3, <2>4, <2>5, <2>6, <2>7 DEF Handle
<1>7. ASSUME NEW s \in {"SUCCEEDED", "FAILED"}, InlineSettle(s) PROVE TypeOK'
  BY <1>7 DEF TypeOK, InlineSettle, Status, Started
<1>8. ASSUME NEW w \in Workers, Crash(w) PROVE TypeOK'
  <2>1. \A x \in runs : JobOf(x) \in Jobs
    BY DEF TypeOK, Run, JobOf, Message
  <2> QED
    BY <1>8, <2>1 DEF TypeOK, Crash
<1>9. CASE UNCHANGED vars
  BY <1>9 DEF TypeOK, vars
<1> QED
  BY <1>1, <1>2, <1>3, <1>4, <1>5, <1>6, <1>7, <1>8, <1>9 DEF Next

(* Type correctness of the media job pipeline, for all rows and workers.   *)
THEOREM TypeCorrect == Spec => []TypeOK
<1> QED
  BY TypeInit, TypeStep, PTL DEF Spec

-----------------------------------------------------------------------------
\* A worker publishes its batch to the end before it claims again.
OneBatch == \A w \in Workers : picked[w] = {} \/ batch[w] = {}
ClaimInv == ClaimedOnce /\ BatchNotClaimable /\ OneBatch

(* The transaction's row locks keep every other writer off a selected row,  *)
(* and a committed row is no longer PENDING, so it cannot be selected again. *)
LEMMA ClaimStep == TypeOK /\ ClaimInv /\ [Next]_vars => ClaimInv'
<1> SUFFICES ASSUME TypeOK, ClaimInv, [Next]_vars PROVE ClaimInv'
  OBVIOUS
<1> USE DEF ClaimInv, ClaimedOnce, BatchNotClaimable, OneBatch, Held
<1>0. /\ status \in [Jobs -> Status] /\ due \in [Jobs -> BOOLEAN]
      /\ picked \in [Workers -> SUBSET Jobs] /\ batch \in [Workers -> SUBSET Jobs]
  BY DEF TypeOK
<1>1. ASSUME NEW j \in Jobs, NEW now \in BOOLEAN, Enqueue(j, now) PROVE ClaimInv'
  BY <1>0, <1>1 DEF Enqueue
<1>2. ASSUME NEW j \in Jobs, Elapse(j) PROVE ClaimInv'
  BY <1>0, <1>2 DEF Elapse
<1>3. ASSUME NEW w \in Workers, Publish(w) PROVE ClaimInv'
  <2>1. CASE SelectDue(w)
    <3>1. OldestOf(Claimable) \subseteq Claimable
      BY DEF OldestOf
    <3>2. \A v \in Workers : Claimable \cap Held(v) = {}
      BY DEF Claimable, Writable
    <3>3. \A v \in Workers : v # w => picked'[v] = picked[v]
      BY <1>0, <2>1 DEF SelectDue
    <3>4. picked'[w] = OldestOf(Claimable)
      BY <1>0, <2>1 DEF SelectDue
    <3> QED
      BY <1>0, <2>1, <3>1, <3>2, <3>3, <3>4 DEF SelectDue, Claimable
  <2>2. CASE CommitClaim(w)
    <3>1. /\ picked'[w] = {} /\ batch'[w] = picked[w]
          /\ \A v \in Workers : v # w => picked'[v] = picked[v] /\ batch'[v] = batch[v]
      BY <1>0, <2>2 DEF CommitClaim
    <3>2. \A j \in Jobs : status'[j] = IF j \in picked[w] THEN "QUEUED" ELSE status[j]
      BY <2>2 DEF CommitClaim
    <3> QED
      BY <1>0, <2>2, <3>1, <3>2 DEF CommitClaim
  <2>3. CASE RollbackClaim(w)
    BY <1>0, <2>3 DEF RollbackClaim
  <2>4. CASE ReleaseFails(w)
    BY <1>0, <2>4 DEF ReleaseFails
  <2>5. ASSUME NEW j \in Jobs, SendFails(w, j) PROVE ClaimInv'
    BY <2>5 DEF SendFails
  <2>6. ASSUME NEW j \in Jobs, Release(w, j) PROVE ClaimInv'
    <3>1. /\ batch'[w] \subseteq batch[w] \ {j}
          /\ \A v \in Workers : v # w => batch'[v] = batch[v]
      BY <1>0, <2>6 DEF Release, AfterRelease
    <3>2. \A i \in Jobs : i # j => status'[i] = status[i]
      BY <1>0, <2>6 DEF Release
    <3>3. j \in batch[w] /\ \A v \in Workers : j \notin picked[v]
      BY <2>6 DEF Release, Oldest, Writable
    <3> QED
      BY <1>0, <2>6, <3>1, <3>2, <3>3 DEF Release
  <2>7. ASSUME NEW j \in Jobs, NEW m \in Msgs, Send(w, j, m) PROVE ClaimInv'
    BY <1>0, <2>7 DEF Send
  <2>8. ASSUME NEW j \in Jobs, NEW m \in Msgs, SendAnswerLost(w, j, m) PROVE ClaimInv'
    BY <2>8 DEF SendAnswerLost
  <2> QED
    BY <1>3, <2>1, <2>2, <2>3, <2>4, <2>5, <2>6, <2>7, <2>8 DEF Publish
<1>4. ASSUME NEW w \in Workers, NEW m \in Msgs, Deliver(w, m) PROVE ClaimInv'
  BY <1>4 DEF Deliver
<1>5. ASSUME NEW m \in Msgs, Expire(m) PROVE ClaimInv'
  BY <1>5 DEF Expire
<1>6. ASSUME NEW r \in runs, Handle(r) PROVE ClaimInv'
  <2>0. JobOf(r) \in Jobs
    BY DEF TypeOK, Run, JobOf, Message
  <2>1. CASE MarkRunning(r)
    BY <1>0, <2>0, <2>1 DEF MarkRunning, Writable
  <2>2. CASE MarkRunningFails(r)
    BY <2>2 DEF MarkRunningFails
  <2>3. ASSUME NEW at \in {"returned", "threw"}, HandlerEnds(r, at) PROVE ClaimInv'
    BY <2>3 DEF HandlerEnds
  <2>4. CASE MarkSettled(r)
    BY <1>0, <2>0, <2>4 DEF MarkSettled, Writable
  <2>5. CASE MarkSucceededFails(r)
    BY <2>5 DEF MarkSucceededFails
  <2>6. CASE MarkFailedFails(r)
    BY <2>6 DEF MarkFailedFails
  <2>7. CASE Acknowledge(r)
    BY <2>7 DEF Acknowledge
  <2> QED
    BY <1>6, <2>1, <2>2, <2>3, <2>4, <2>5, <2>6, <2>7 DEF Handle
<1>7. ASSUME NEW s \in {"SUCCEEDED", "FAILED"}, InlineSettle(s) PROVE ClaimInv'
  BY <1>0, <1>7 DEF InlineSettle, Writable
<1>8. ASSUME NEW w \in Workers, Crash(w) PROVE ClaimInv'
  BY <1>0, <1>8 DEF Crash
<1>9. CASE UNCHANGED vars
  BY <1>9 DEF vars
<1> QED
  BY <1>1, <1>2, <1>3, <1>4, <1>5, <1>6, <1>7, <1>8, <1>9 DEF Next

(* One worker per claimed row, and no claimed row can be claimed again, for *)
(* any number of workers and whatever crashes, errors and expiries happen.  *)
THEOREM ClaimedOnceHolds == Spec => [](ClaimedOnce /\ BatchNotClaimable)
<1>1. Init => ClaimInv
  BY DEF Init, ClaimInv, ClaimedOnce, BatchNotClaimable, OneBatch, Held
<1>2. ClaimInv => ClaimedOnce /\ BatchNotClaimable
  BY DEF ClaimInv
<1> QED
  BY <1>1, <1>2, TypeInit, TypeStep, ClaimStep, PTL DEF Spec

(* What a worker is about to hand over is not PENDING, for any number of    *)
(* workers: markQueuedAndSend never sends a row that a second claim could   *)
(* still select.                                                            *)
THEOREM BatchNotClaimableHolds == Spec => []BatchNotClaimable
  BY ClaimedOnceHolds, PTL

-----------------------------------------------------------------------------
(* A row that a handler has started, or that is settled, is in no open      *)
(* claim, and releaseToPending writes only rows still QUEUED: no step of    *)
(* any worker takes such a row back.                                        *)
LEMMA RequeueStep ==
  TypeOK /\ ClaimInv /\ [Next]_vars
    => [\A j \in Jobs : status[j] \in Started => status'[j] \in Started]_status
<1> SUFFICES ASSUME TypeOK, ClaimInv, [Next]_vars, NEW j \in Jobs, status[j] \in Started
             PROVE  status'[j] \in Started
  OBVIOUS
<1>0. /\ status \in [Jobs -> Status]
      /\ \A w \in Workers : j \notin picked[w]
  BY DEF TypeOK, ClaimInv, BatchNotClaimable, Started
<1>1. CASE UNCHANGED status
  BY <1>1
<1>2. ASSUME NEW i \in Jobs, NEW now \in BOOLEAN, Enqueue(i, now)
      PROVE  status'[j] \in Started
  BY <1>0, <1>2 DEF Enqueue, Started
<1>3. ASSUME NEW w \in Workers, CommitClaim(w) PROVE status'[j] \in Started
  BY <1>0, <1>3 DEF CommitClaim
<1>4. ASSUME NEW w \in Workers, NEW i \in Jobs, Release(w, i)
      PROVE  status'[j] \in Started
  BY <1>0, <1>4 DEF Release, ReleasedStatus, Started
<1>5. ASSUME NEW r \in runs, MarkRunning(r) \/ MarkSettled(r)
      PROVE  status'[j] \in Started
  BY <1>0, <1>5 DEF MarkRunning, MarkSettled, Started
<1>6. ASSUME NEW s \in {"SUCCEEDED", "FAILED"}, InlineSettle(s)
      PROVE  status'[j] \in Started
  BY <1>0, <1>6 DEF InlineSettle, Started
<1> QED
  BY <1>1, <1>2, <1>3, <1>4, <1>5, <1>6
     DEF Next, vars, Publish, Handle, Elapse, SelectDue, RollbackClaim, ReleaseFails,
         SendFails, Send, SendAnswerLost, Deliver, Expire, MarkRunningFails, HandlerEnds,
         MarkSucceededFails, MarkFailedFails, Acknowledge, Crash

(* Once a handler has started a row, or the row is settled, it never waits  *)
(* for a publisher again.                                                   *)
THEOREM StartedNotRequeuedHolds == Spec => StartedNotRequeued
<1>1. Init => ClaimInv
  BY DEF Init, ClaimInv, ClaimedOnce, BatchNotClaimable, OneBatch, Held
<1> QED
  BY <1>1, TypeInit, TypeStep, ClaimStep, RequeueStep, PTL DEF Spec, StartedNotRequeued

-----------------------------------------------------------------------------
(* Where the work on an unsettled row is: a QUEUED row is in a batch, in a  *)
(* message or in a run that has not written yet; a RUNNING row is in a run  *)
(* that will still write; a message being delivered has its run.  Each with *)
(* the exception that a fault has hit the row.                              *)
RunsHaveMessages == \A r \in runs : msg[r.msg].state # "unused"
RunsHaveStarted == \A r \in runs : r.at # "fetched" => status[JobOf(r)] \in Started
DeliveryInv ==
  \A m \in Msgs : msg[m].state = "active" =>
     (\E r \in runs : r.msg = m /\ r.awaited) \/ msg[m].job \in faulted
QueuedInv == \A j \in Jobs : status[j] = "QUEUED" => Live(j) \/ j \in faulted
RunningInv ==
  \A j \in Jobs : status[j] = "RUNNING" =>
     \/ \E r \in runs : JobOf(r) = j /\ r.at \in {"running", "returned", "threw"}
     \/ j \in faulted
LossInv == RunsHaveMessages /\ RunsHaveStarted /\ DeliveryInv /\ QueuedInv /\ RunningInv

(* What one step of a run does to the runs: it advances or it ends.         *)
LEMMA AdvanceFacts ==
  ASSUME TypeOK, NEW r \in runs,
         NEW at \in {"fetched", "running", "returned", "threw", "succeeded", "failed"},
         Advance(r, at)
  PROVE  \E n \in runs' : /\ runs' = (runs \ {r}) \cup {n}
                          /\ n.msg = r.msg /\ n.awaited = r.awaited /\ n.at = at
<1>1. r \in Run
  BY DEF TypeOK
<1>2. LET n == [r EXCEPT !.at = at] IN n.msg = r.msg /\ n.awaited = r.awaited /\ n.at = at
  BY <1>1 DEF Run
<1> QED
  BY <1>2 DEF Advance

LEMMA EndRunFacts ==
  ASSUME TypeOK, NEW r \in runs, NEW ok \in BOOLEAN, EndRun(r, ok)
  PROVE  /\ runs' = runs \ {r}
         /\ \A m \in Msgs : m # r.msg \/ ~r.awaited => msg'[m] = msg[m]
         /\ \A m \in Msgs : msg'[m].job = msg[m].job
         /\ r.awaited => msg'[r.msg].state \in {"ready", "done"}
<1>1. msg \in [Msgs -> Message] /\ r.msg \in Msgs /\ msg[r.msg] \in Message
  BY DEF TypeOK, Run
<1>2. ASSUME NEW rec \in Message
      PROVE  Retried(rec).state \in {"ready", "done"} /\ Retried(rec).job = rec.job
  BY <1>2 DEF Retried, Message
<1>3. LET d == [msg[r.msg] EXCEPT !.state = "done"] IN d.state = "done" /\ d.job = msg[r.msg].job
  BY <1>1 DEF Message
<1>4. runs' = runs \ {r}
  BY DEF EndRun
<1>5. CASE ~r.awaited
  BY <1>4, <1>5 DEF EndRun
<1>6. CASE r.awaited /\ ok
  BY <1>1, <1>3, <1>4, <1>6 DEF EndRun
<1>7. CASE r.awaited /\ ~ok
  BY <1>1, <1>2, <1>4, <1>7 DEF EndRun
<1> QED
  BY <1>5, <1>6, <1>7

LEMMA LossStep == TypeOK /\ ClaimInv /\ LossInv /\ [Next]_vars => LossInv'
<1> SUFFICES ASSUME TypeOK, ClaimInv, LossInv, [Next]_vars PROVE LossInv'
  OBVIOUS
<1> USE DEF LossInv, RunsHaveMessages, RunsHaveStarted, DeliveryInv, QueuedInv,
            RunningInv, Live, JobOf
<1>0. /\ status \in [Jobs -> Status] /\ msg \in [Msgs -> Message]
      /\ batch \in [Workers -> SUBSET Jobs] /\ picked \in [Workers -> SUBSET Jobs]
      /\ \A r \in runs : r.msg \in Msgs /\ JobOf(r) \in Jobs
      /\ \A m \in Msgs : msg[m].job \in Jobs
  BY DEF TypeOK, Run, Message
<1>1. ASSUME NEW j \in Jobs, NEW now \in BOOLEAN, Enqueue(j, now) PROVE LossInv'
  BY <1>0, <1>1 DEF Enqueue, Started
<1>2. ASSUME NEW j \in Jobs, Elapse(j) PROVE LossInv'
  BY <1>2 DEF Elapse
<1>3. ASSUME NEW w \in Workers, Publish(w) PROVE LossInv'
  <2>1. CASE SelectDue(w) \/ RollbackClaim(w)
    BY <2>1 DEF SelectDue, RollbackClaim
  <2>2. CASE CommitClaim(w)
    <3>1. /\ batch'[w] = picked[w]
          /\ \A v \in Workers : v # w => batch'[v] = batch[v]
      BY <1>0, <2>2 DEF CommitClaim
    <3>2. \A j \in Jobs : status'[j] = IF j \in picked[w] THEN "QUEUED" ELSE status[j]
      BY <2>2 DEF CommitClaim
    <3>3. \A j \in picked[w] : status[j] = "PENDING"
      BY DEF ClaimInv, BatchNotClaimable
    <3>4. UNCHANGED <<msg, runs, faulted>>
      BY <2>2 DEF CommitClaim
    <3>5. QueuedInv'
      <4> SUFFICES ASSUME NEW j \in Jobs, status'[j] = "QUEUED", j \notin faulted
                   PROVE  Live(j)'
        BY <3>4
      <4>1. CASE j \in picked[w]
        BY <3>1, <4>1
      <4>2. CASE j \notin picked[w]
        <5>1. Live(j)
          BY <3>2, <4>2
        <5>2. \A v \in Workers : batch[v] \subseteq batch'[v]
          BY <2>2, <3>1 DEF CommitClaim, ClaimInv, OneBatch
        <5> QED
          BY <3>4, <5>1, <5>2
      <4> QED
        BY <4>1, <4>2
    <3>6. RunsHaveStarted'
      BY <1>0, <3>2, <3>3, <3>4 DEF Started
    <3> QED
      BY <1>0, <3>2, <3>3, <3>4, <3>5, <3>6
  <2>4. CASE ReleaseFails(w)
    BY <1>0, <2>4 DEF ReleaseFails
  <2>5. ASSUME NEW j \in Jobs, SendFails(w, j) PROVE LossInv'
    BY <2>5 DEF SendFails
  <2>6. ASSUME NEW j \in Jobs, Release(w, j) PROVE LossInv'
    <3>1. /\ \A v \in Workers : v # w => batch'[v] = batch[v]
          /\ \A i \in batch[w] : i = j \/ i \in batch'[w] \/ i \in faulted'
          /\ faulted \subseteq faulted'
      BY <1>0, <2>6 DEF Release, AfterRelease
    <3>2. \A i \in Jobs : i # j => status'[i] = status[i]
      BY <1>0, <2>6 DEF Release
    <3>3. status'[j] = IF status[j] = "QUEUED" THEN "PENDING" ELSE status[j]
      BY <1>0, <2>6 DEF Release, ReleasedStatus
    <3>4. UNCHANGED <<msg, runs>>
      BY <2>6 DEF Release
    <3> QED
      BY <1>0, <3>1, <3>2, <3>3, <3>4 DEF Started
  <2>7. ASSUME NEW j \in Jobs, NEW m \in Msgs, Send(w, j, m) \/ SendAnswerLost(w, j, m)
        PROVE  LossInv'
    <3>1. /\ msg[m].state = "unused"
          /\ msg'[m].state = "ready" /\ msg'[m].job = j
          /\ \A n \in Msgs : n # m => msg'[n] = msg[n]
      BY <1>0, <2>7 DEF Send, SendAnswerLost, Stored, Oldest
    <3>2. \A r \in runs : r.msg # m
      BY <3>1
    <3>3. UNCHANGED <<status, runs, faulted>>
      BY <2>7 DEF Send, SendAnswerLost
    <3>4. \A v \in Workers : batch[v] \ {j} \subseteq batch'[v]
      BY <1>0, <2>7 DEF Send, SendAnswerLost
    <3>5. \A r \in runs : r.msg \in Msgs /\ msg'[r.msg] = msg[r.msg]
      BY <1>0, <3>1, <3>2
    <3>6. RunsHaveMessages' /\ RunsHaveStarted' /\ RunningInv'
      BY <3>3, <3>5
    <3>7. DeliveryInv'
      BY <3>1, <3>3
    <3>8. QueuedInv'
      <4> SUFFICES ASSUME NEW i \in Jobs, status[i] = "QUEUED", i \notin faulted, i # j
                   PROVE  Live(i)'
        BY <3>1, <3>3
      <4>1. CASE \E v \in Workers : i \in batch[v]
        BY <3>4, <4>1
      <4>2. CASE \E n \in Msgs : msg[n].job = i /\ msg[n].state \in {"ready", "active"}
        BY <3>1, <4>2
      <4>3. CASE \E r \in runs : JobOf(r) = i
        BY <3>3, <3>5, <4>3
      <4> QED
        BY <4>1, <4>2, <4>3
    <3> QED
      BY <3>6, <3>7, <3>8
  <2> QED
    BY <1>3, <2>1, <2>2, <2>4, <2>5, <2>6, <2>7 DEF Publish
<1>4. ASSUME NEW w \in Workers, NEW m \in Msgs, Deliver(w, m) PROVE LossInv'
  <2> DEFINE d == [msg |-> m, left |-> msg[m].left, worker |-> w, awaited |-> TRUE,
                   at |-> "fetched"]
  <2>1. runs' = runs \cup {d} /\ UNCHANGED <<status, batch, faulted>>
    BY <1>4 DEF Deliver
  <2>2. /\ msg'[m].state = "active" /\ msg'[m].job = msg[m].job
        /\ \A n \in Msgs : n # m => msg'[n] = msg[n]
    BY <1>0, <1>4 DEF Deliver, Message
  <2>3. \A n \in Msgs : msg'[n].job = msg[n].job
    BY <2>2
  <2>4. d.msg = m /\ d.awaited = TRUE /\ d.at = "fetched"
    OBVIOUS
  <2> HIDE DEF d
  <2> QED
    BY <1>0, <2>1, <2>2, <2>3, <2>4
<1>5. ASSUME NEW m \in Msgs, Expire(m) PROVE LossInv'
  <2> DEFINE X(r) == IF r.msg = m THEN [r EXCEPT !.awaited = FALSE] ELSE r
  <2>1. \A r \in runs : X(r).msg = r.msg /\ X(r).at = r.at /\ (r.msg # m => X(r) = r)
    BY DEF TypeOK, Run
  <2>2. runs' = {X(r) : r \in runs} /\ UNCHANGED <<status, batch, faulted>>
    BY <1>5 DEF Expire
  <2>3. /\ msg[m].state = "active" /\ msg'[m].state \in {"ready", "done"}
        /\ msg'[m].job = msg[m].job
        /\ \A n \in Msgs : n # m => msg'[n] = msg[n]
    <3>1. msg[m] \in Message
      BY <1>0
    <3>2. Retried(msg[m]).state \in {"ready", "done"} /\ Retried(msg[m]).job = msg[m].job
      BY <3>1 DEF Retried, Message
    <3> QED
      BY <1>0, <1>5, <3>2 DEF Expire
  <2> HIDE DEF X
  <2>4. \A n \in Msgs : msg'[n].job = msg[n].job
    BY <2>3
  <2>9. \A x \in runs' : \E r \in runs : x = X(r) /\ x.msg = r.msg /\ x.at = r.at
    BY <2>1, <2>2
  <2>5. RunsHaveMessages' /\ RunsHaveStarted'
    <3> SUFFICES ASSUME NEW x \in runs'
                 PROVE  /\ msg'[x.msg].state # "unused"
                        /\ x.at # "fetched" => status'[msg'[x.msg].job] \in Started
      OBVIOUS
    <3>1. PICK r \in runs : x.msg = r.msg /\ x.at = r.at
      BY <2>9
    <3>2. r.msg \in Msgs /\ msg[r.msg].state # "unused"
          /\ (r.at # "fetched" => status[msg[r.msg].job] \in Started)
      BY <1>0
    <3> QED
      BY <2>2, <2>3, <2>4, <3>1, <3>2
  <2>6. DeliveryInv'
    <3> SUFFICES ASSUME NEW n \in Msgs, msg'[n].state = "active", msg'[n].job \notin faulted'
                 PROVE  \E r \in runs' : r.msg = n /\ r.awaited
      OBVIOUS
    <3>1. n # m /\ msg[n].state = "active" /\ msg[n].job \notin faulted
      BY <2>2, <2>3
    <3>2. PICK r \in runs : r.msg = n /\ r.awaited
      BY <3>1
    <3>3. r \in runs'
      BY <2>1, <2>2, <3>1, <3>2
    <3> QED
      BY <3>2, <3>3
  <2>7. QueuedInv'
    <3> SUFFICES ASSUME NEW j \in Jobs, status[j] = "QUEUED", j \notin faulted
                 PROVE  Live(j)'
      BY <2>2
    <3>1. CASE \E v \in Workers : j \in batch[v]
      BY <2>2, <3>1
    <3>2. CASE \E r \in runs : JobOf(r) = j
      <4>1. PICK r \in runs : JobOf(r) = j
        BY <3>2
      <4>2. X(r) \in runs' /\ X(r).msg = r.msg
        BY <2>1, <2>2
      <4>3. msg'[r.msg].job = j
        BY <1>0, <2>4, <4>1
      <4> QED
        BY <4>2, <4>3
    <3>3. CASE \E n \in Msgs : msg[n].job = j /\ msg[n].state \in {"ready", "active"}
      <4>1. PICK n \in Msgs : msg[n].job = j /\ msg[n].state \in {"ready", "active"}
        BY <3>3
      <4>2. CASE n # m
        BY <2>3, <4>1, <4>2
      <4>3. CASE n = m
        <5>1. PICK r \in runs : r.msg = m
          BY <2>3, <4>1, <4>3
        <5> QED
          BY <3>2, <4>1, <4>3, <5>1
      <4> QED
        BY <4>2, <4>3
    <3> QED
      BY <3>1, <3>2, <3>3
  <2>8. RunningInv'
    <3> SUFFICES ASSUME NEW j \in Jobs, status[j] = "RUNNING", j \notin faulted
                 PROVE  \E x \in runs' : /\ msg'[x.msg].job = j
                                        /\ x.at \in {"running", "returned", "threw"}
      BY <2>2
    <3>1. PICK r \in runs : JobOf(r) = j /\ r.at \in {"running", "returned", "threw"}
      OBVIOUS
    <3>2. X(r) \in runs' /\ X(r).msg = r.msg /\ X(r).at = r.at
      BY <2>1, <2>2
    <3>3. msg'[r.msg].job = j
      BY <1>0, <2>4, <3>1
    <3> QED
      BY <3>1, <3>2, <3>3
  <2> QED
    BY <2>5, <2>6, <2>7, <2>8
<1>6. ASSUME NEW r \in runs, Handle(r) PROVE LossInv'
  <2>1. ASSUME NEW at \in {"running", "returned", "threw"},
               Advance(r, at), UNCHANGED <<batch, msg, faulted>>,
               status' = [status EXCEPT ![JobOf(r)] = "RUNNING"]
                 \/ (r.at \in {"running", "returned", "threw"} /\ UNCHANGED status)
        PROVE  LossInv'
    <3>1. PICK n \in runs' : /\ runs' = (runs \ {r}) \cup {n}
                            /\ n.msg = r.msg /\ n.awaited = r.awaited /\ n.at = at
      BY <2>1, AdvanceFacts
    <3>2. status'[JobOf(r)] \in Started
      BY <1>0, <2>1 DEF Started
    <3>3. \A j \in Jobs : j # JobOf(r) => status'[j] = status[j]
      BY <1>0, <2>1
    <3>4. \A j \in Jobs : status'[j] = "QUEUED" => status[j] = "QUEUED"
      BY <1>0, <2>1
    <3>5. RunsHaveMessages' /\ RunsHaveStarted'
      <4>1. \A x \in runs : status'[JobOf(x)] \in Started \/ x.at = "fetched"
        BY <1>0, <3>2, <3>3
      <4> QED
        BY <2>1, <3>1, <3>2, <4>1
    <3>6. DeliveryInv'
      BY <2>1, <3>1
    <3>7. QueuedInv'
      BY <2>1, <3>1, <3>4
    <3>8. RunningInv'
      BY <1>0, <2>1, <3>1, <3>3
    <3> QED
      BY <3>5, <3>6, <3>7, <3>8
  <2>2. ASSUME MarkSettled(r) PROVE LossInv'
    <3>1. PICK n \in runs' : /\ runs' = (runs \ {r}) \cup {n}
                            /\ n.msg = r.msg /\ n.awaited = r.awaited
      BY <2>2, AdvanceFacts DEF MarkSettled
    <3>2. status'[JobOf(r)] \in {"SUCCEEDED", "FAILED"}
      BY <1>0, <2>2 DEF MarkSettled
    <3>3. \A j \in Jobs : j # JobOf(r) => status'[j] = status[j]
      BY <1>0, <2>2 DEF MarkSettled
    <3>4. UNCHANGED <<batch, msg, faulted>>
      BY <2>2 DEF MarkSettled
    <3>5. RunsHaveMessages' /\ RunsHaveStarted' /\ DeliveryInv' /\ QueuedInv'
      BY <1>0, <3>1, <3>2, <3>3, <3>4 DEF Started
    <3>6. RunningInv'
      BY <1>0, <3>1, <3>2, <3>3, <3>4
    <3> QED
      BY <3>5, <3>6
  <2>3. ASSUME NEW ok \in BOOLEAN, EndRun(r, ok), UNCHANGED <<status, batch>>,
               faulted \subseteq faulted',
               JobOf(r) \in faulted' \/ r.at \in {"succeeded", "failed"}
        PROVE  LossInv'
    <3>1. /\ runs' = runs \ {r}
          /\ \A m \in Msgs : m # r.msg \/ ~r.awaited => msg'[m] = msg[m]
          /\ \A m \in Msgs : msg'[m].job = msg[m].job
          /\ r.awaited => msg'[r.msg].state \in {"ready", "done"}
      BY <2>3, EndRunFacts
    <3>2. RunsHaveMessages' /\ RunsHaveStarted' /\ DeliveryInv'
      BY <1>0, <2>3, <3>1
    <3>3. QueuedInv'
      <4> SUFFICES ASSUME NEW j \in Jobs, status[j] = "QUEUED", j \notin faulted'
                   PROVE  Live(j)'
        BY <2>3
      <4>1. j # JobOf(r) /\ Live(j)
        BY <2>3 DEF Started
      <4>2. CASE \E v \in Workers : j \in batch[v]
        BY <2>3, <4>2
      <4>3. CASE \E m \in Msgs : msg[m].job = j /\ msg[m].state \in {"ready", "active"}
        BY <3>1, <4>1, <4>3
      <4>4. CASE \E x \in runs : JobOf(x) = j
        BY <1>0, <3>1, <4>1, <4>4
      <4> QED
        BY <4>1, <4>2, <4>3, <4>4
    <3>4. RunningInv'
      BY <1>0, <2>3, <3>1
    <3> QED
      BY <3>2, <3>3, <3>4
  <2>4. CASE MarkRunning(r)
    BY <2>1, <2>4 DEF MarkRunning
  <2>5. ASSUME NEW at \in {"returned", "threw"}, HandlerEnds(r, at) PROVE LossInv'
    BY <2>1, <2>5 DEF HandlerEnds
  <2>6. CASE MarkSucceededFails(r)
    BY <2>1, <2>6 DEF MarkSucceededFails
  <2>7. CASE MarkRunningFails(r) \/ MarkFailedFails(r)
    BY <2>3, <2>7 DEF MarkRunningFails, MarkFailedFails
  <2>8. CASE Acknowledge(r)
    BY <2>3, <2>8 DEF Acknowledge
  <2> QED
    BY <1>6, <2>2, <2>4, <2>5, <2>6, <2>7, <2>8 DEF Handle
<1>7. ASSUME NEW s \in {"SUCCEEDED", "FAILED"}, InlineSettle(s) PROVE LossInv'
  <2>1. \A j \in Jobs : status'[j] = s \/ status'[j] = status[j]
    BY <1>7 DEF InlineSettle
  <2>2. UNCHANGED <<batch, msg, runs, faulted>>
    BY <1>7 DEF InlineSettle
  <2> QED
    BY <1>0, <2>1, <2>2 DEF Started
<1>8. ASSUME NEW w \in Workers, Crash(w) PROVE LossInv'
  <2>1. /\ UNCHANGED <<status, msg>> /\ faulted \subseteq faulted'
        /\ runs' \subseteq runs
        /\ \A r \in runs : r \notin runs' => JobOf(r) \in faulted'
        /\ \A v \in Workers : \A j \in batch[v] : j \in batch'[v] \/ j \in faulted'
    BY <1>0, <1>8 DEF Crash
  <2> QED
    BY <1>0, <2>1
<1>9. CASE UNCHANGED vars
  BY <1>9 DEF vars
<1> QED
  BY <1>1, <1>2, <1>3, <1>4, <1>5, <1>6, <1>7, <1>8, <1>9 DEF Next

(* A row is abandoned at QUEUED or RUNNING only if a crash, a failed write  *)
(* or an abandoned batch hit that very row.                                 *)
THEOREM NoSilentLossHolds == Spec => []NoSilentLoss
<1>1. Init => ClaimInv
  BY DEF Init, ClaimInv, ClaimedOnce, BatchNotClaimable, OneBatch, Held
<1>2. Init => LossInv
  <2> SUFFICES ASSUME Init PROVE LossInv
    OBVIOUS
  <2> QED
    BY DEF Init, LossInv, RunsHaveMessages, RunsHaveStarted, DeliveryInv, QueuedInv, RunningInv
<1>3. LossInv => NoSilentLoss
  BY DEF LossInv, QueuedInv, RunningInv, NoSilentLoss, Live
<1> QED
  BY <1>1, <1>2, <1>3, TypeInit, TypeStep, ClaimStep, LossStep, PTL DEF Spec

-----------------------------------------------------------------------------
(* run_after holds a row back all the way: what is claimed or handed over   *)
(* is due, and time only moves forward.                                     *)
ParkedInv ==
  /\ ParkedNotPublished
  /\ \A w \in Workers : \A j \in batch[w] : due[j]
  /\ \A m \in Msgs : msg[m].state # "unused" => status[msg[m].job] # "absent"

LEMMA ParkedStep == TypeOK /\ ClaimInv /\ LossInv /\ ParkedInv /\ [Next]_vars => ParkedInv'
<1> SUFFICES ASSUME TypeOK, ClaimInv, LossInv, ParkedInv, [Next]_vars PROVE ParkedInv'
  OBVIOUS
<1> USE DEF ParkedInv, ParkedNotPublished
<1>0. /\ status \in [Jobs -> Status] /\ due \in [Jobs -> BOOLEAN]
      /\ msg \in [Msgs -> Message]
      /\ batch \in [Workers -> SUBSET Jobs] /\ picked \in [Workers -> SUBSET Jobs]
      /\ \A r \in runs : r.msg \in Msgs /\ JobOf(r) \in Jobs
      /\ \A m \in Msgs : msg[m].job \in Jobs
      /\ \A w \in Workers : \A j \in batch[w] : status[j] \notin {"absent", "PENDING"}
      /\ \A w \in Workers : \A j \in picked[w] : status[j] = "PENDING" /\ due[j]
  BY DEF TypeOK, Run, Message, JobOf, ClaimInv, BatchNotClaimable
<1>1. ASSUME NEW j \in Jobs, NEW now \in BOOLEAN, Enqueue(j, now) PROVE ParkedInv'
  BY <1>0, <1>1 DEF Enqueue
<1>2. ASSUME NEW j \in Jobs, Elapse(j) PROVE ParkedInv'
  BY <1>0, <1>2 DEF Elapse
<1>3. ASSUME NEW w \in Workers, Publish(w) PROVE ParkedInv'
  <2>1. CASE SelectDue(w) \/ RollbackClaim(w)
    BY <2>1 DEF SelectDue, RollbackClaim
  <2>2. CASE CommitClaim(w)
    BY <1>0, <2>2 DEF CommitClaim
  <2>3. CASE ReleaseFails(w)
    BY <1>0, <2>3 DEF ReleaseFails
  <2>4. ASSUME NEW j \in Jobs, SendFails(w, j) PROVE ParkedInv'
    BY <2>4 DEF SendFails
  <2>5. ASSUME NEW j \in Jobs, Release(w, j) PROVE ParkedInv'
    BY <1>0, <2>5 DEF Release, ReleasedStatus, AfterRelease
  <2>6. ASSUME NEW j \in Jobs, NEW m \in Msgs, Send(w, j, m) \/ SendAnswerLost(w, j, m)
        PROVE  ParkedInv'
    <3>1. j \in batch[w] /\ status[j] # "absent" /\ due[j]
      BY <1>0, <2>6 DEF Send, SendAnswerLost, Oldest
    <3>2. msg'[m].job = j /\ \A n \in Msgs : n # m => msg'[n] = msg[n]
      BY <1>0, <2>6 DEF Send, SendAnswerLost, Stored
    <3>3. /\ UNCHANGED <<status, due>>
          /\ \A v \in Workers : batch'[v] \subseteq batch[v]
      BY <1>0, <2>6 DEF Send, SendAnswerLost
    <3> QED
      BY <1>0, <3>1, <3>2, <3>3
  <2> QED
    BY <1>3, <2>1, <2>2, <2>3, <2>4, <2>5, <2>6 DEF Publish
<1>4. ASSUME NEW w \in Workers, NEW m \in Msgs, Deliver(w, m) PROVE ParkedInv'
  BY <1>0, <1>4 DEF Deliver, Message
<1>5. ASSUME NEW m \in Msgs, Expire(m) PROVE ParkedInv'
  <2>1. Retried(msg[m]).job = msg[m].job
    BY <1>0 DEF Retried, Message
  <2> QED
    BY <1>0, <1>5, <2>1 DEF Expire
<1>6. ASSUME NEW r \in runs, Handle(r) PROVE ParkedInv'
  <2>1. msg[r.msg].state # "unused" /\ status[JobOf(r)] # "absent" /\ due[JobOf(r)]
    BY <1>0 DEF LossInv, RunsHaveMessages, JobOf
  <2>2. ASSUME NEW ok \in BOOLEAN, EndRun(r, ok), UNCHANGED <<status, due, batch>>
        PROVE  ParkedInv'
    <3>1. /\ \A m \in Msgs : m # r.msg \/ ~r.awaited => msg'[m] = msg[m]
          /\ \A m \in Msgs : msg'[m].job = msg[m].job
      BY <2>2, EndRunFacts
    <3>2. \A m \in Msgs : msg'[m].state # "unused"
                           => due[msg[m].job] /\ status[msg[m].job] # "absent"
      <4> SUFFICES ASSUME NEW m \in Msgs, msg'[m].state # "unused"
                   PROVE  due[msg[m].job] /\ status[msg[m].job] # "absent"
        OBVIOUS
      <4>1. CASE m = r.msg
        BY <2>1, <4>1 DEF JobOf
      <4>2. CASE m # r.msg
        BY <3>1, <4>2
      <4> QED
        BY <4>1, <4>2
    <3>3. ParkedNotPublished'
      BY <2>2, <3>1, <3>2
    <3>4. \A m \in Msgs : msg'[m].state # "unused" => status'[msg'[m].job] # "absent"
      BY <2>2, <3>1, <3>2
    <3>5. \A w \in Workers : \A j \in batch'[w] : due'[j]
      BY <2>2
    <3> QED
      BY <3>3, <3>4, <3>5
  <2>3. CASE MarkRunning(r) \/ MarkSettled(r)
    <3>1. /\ status'[JobOf(r)] \in {"RUNNING", "SUCCEEDED", "FAILED"}
          /\ \A j \in Jobs : j # JobOf(r) => status'[j] = status[j]
      BY <1>0, <2>3 DEF MarkRunning, MarkSettled
    <3>2. UNCHANGED <<due, batch, msg>>
      BY <2>3 DEF MarkRunning, MarkSettled
    <3> QED
      BY <1>0, <3>1, <3>2
  <2>4. ASSUME NEW at \in {"returned", "threw"}, HandlerEnds(r, at) PROVE ParkedInv'
    BY <2>4 DEF HandlerEnds
  <2>5. CASE MarkSucceededFails(r)
    BY <2>5 DEF MarkSucceededFails
  <2>6. CASE MarkRunningFails(r) \/ MarkFailedFails(r) \/ Acknowledge(r)
    BY <2>2, <2>6 DEF MarkRunningFails, MarkFailedFails, Acknowledge
  <2> QED
    BY <1>6, <2>3, <2>4, <2>5, <2>6 DEF Handle
<1>7. ASSUME NEW s \in {"SUCCEEDED", "FAILED"}, InlineSettle(s) PROVE ParkedInv'
  BY <1>0, <1>7 DEF InlineSettle
<1>8. ASSUME NEW w \in Workers, Crash(w) PROVE ParkedInv'
  BY <1>0, <1>8 DEF Crash
<1>9. CASE UNCHANGED vars
  BY <1>9 DEF vars
<1> QED
  BY <1>1, <1>2, <1>3, <1>4, <1>5, <1>6, <1>7, <1>8, <1>9 DEF Next

(* A parked job is never claimed nor handed to the queue before its time.   *)
THEOREM ParkedNotPublishedHolds == Spec => []ParkedNotPublished
<1>1. Init => ClaimInv /\ LossInv /\ ParkedInv
  <2> SUFFICES ASSUME Init PROVE ClaimInv /\ LossInv /\ ParkedInv
    OBVIOUS
  <2>1. \A j \in Jobs : status[j] = "absent"
    BY DEF Init
  <2>2. runs = {} /\ \A m \in Msgs : msg[m].state = "unused"
    BY DEF Init
  <2>3. \A w \in Workers : picked[w] = {} /\ batch[w] = {}
    BY DEF Init
  <2>4. LossInv
    BY <2>1, <2>2 DEF LossInv, RunsHaveMessages, RunsHaveStarted, DeliveryInv, QueuedInv, RunningInv
  <2>5. ClaimInv
    BY <2>3 DEF ClaimInv, ClaimedOnce, BatchNotClaimable, OneBatch, Held
  <2> QED
    BY <2>1, <2>2, <2>3, <2>4, <2>5 DEF ParkedInv, ParkedNotPublished
<1>2. ParkedInv => ParkedNotPublished
  BY DEF ParkedInv
<1> QED
  BY <1>1, <1>2, TypeInit, TypeStep, ClaimStep, LossStep, ParkedStep, PTL DEF Spec
=============================================================================

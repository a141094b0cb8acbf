----------------------------- MODULE MediaJobs -----------------------------
(***************************************************************************)
(* The media job pipeline: rows of the media_jobs table, the publish loop  *)
(* of every media worker (claimDueMediaJobs / publishClaimedJobs), the     *)
(* pg-boss queues the rows are handed to (external), and the handler runs  *)
(* (runMediaJob) that write the row's status back.  The app's inline       *)
(* transcription runner writes the same rows from another process.         *)
(*                                                                         *)
(* Jobs are numbered in created_at order, so "the oldest" is the least.    *)
(* The payload, the error text, the attempts counter and the timestamps    *)
(* are abstracted; what a handler does is abstracted to "returns" or       *)
(* "throws".                                                               *)
(***************************************************************************)
EXTENDS Integers, FiniteSets

CONSTANTS
  Jobs,         \* the rows of media_jobs, numbered in created_at order
  Workers,      \* media worker processes
  Image,        \* Image[w]: the jobs whose kind worker w's image has a queue for
  QueueOf,      \* QueueOf[j]: the pg-boss queue of j's kind (queueForKind)
  InlineJobs,   \* rows the app's inline transcription settles together
  BatchLimit,   \* MEDIA_JOB_PUBLISH_BATCH
  RetryLimit,   \* pg-boss: redeliveries after the first delivery
  Msgs,         \* bound: the pg-boss messages a behaviour can create
  Faults        \* which of "crash", "sendError", "dbError", "expiry" happen

ASSUME JobsAssumption == Jobs \subseteq Nat /\ Jobs # {}
ASSUME MsgsAssumption == Msgs \subseteq Nat
ASSUME ImageAssumption == Image \in [Workers -> SUBSET Jobs]
ASSUME LimitAssumption == BatchLimit \in Nat /\ RetryLimit \in Nat
ASSUME InlineAssumption == InlineJobs \subseteq Jobs

VARIABLES
  status,     \* media_jobs.status of every row
  due,        \* whether run_after is NULL or has passed
  picked,     \* rows w's open claim transaction has selected and locked
  batch,      \* rows w has claimed and not yet handed to the queue
  releasing,  \* w's send failed: releaseToPending(oldest of batch) is next
  msg,        \* pg-boss's own job records
  runs,       \* live runMediaJob invocations
  faulted     \* history: rows whose bookkeeping a crash or an error cut short

vars == <<status, due, picked, batch, releasing, msg, runs, faulted>>

Started == {"RUNNING", "SUCCEEDED", "FAILED"}
Status == {"absent", "PENDING", "QUEUED"} \cup Started
Active == {"PENDING", "QUEUED", "RUNNING"}

\* A pg-boss record: its state, the row it carries and the retries it has left.
Message == [state : {"unused", "ready", "active", "done"},
            job : Jobs, left : 0..RetryLimit]

\* A runMediaJob call: the message and retry it serves, the worker it runs in,
\* whether pg-boss still waits for it, and how far it has got.
Run == [msg : Msgs, left : 0..RetryLimit, worker : Workers, awaited : BOOLEAN,
        at : {"fetched", "running", "returned", "threw", "succeeded", "failed"}]

TypeOK ==
  /\ status \in [Jobs -> Status]
  /\ due \in [Jobs -> BOOLEAN]
  /\ picked \in [Workers -> SUBSET Jobs]
  /\ batch \in [Workers -> SUBSET Jobs]
  /\ releasing \in [Workers -> BOOLEAN]
  /\ msg \in [Msgs -> Message]
  /\ runs \in SUBSET Run
  /\ faulted \in SUBSET Jobs

Init ==
  /\ status = [j \in Jobs |-> "absent"]
  /\ due = [j \in Jobs |-> FALSE]
  /\ picked = [w \in Workers |-> {}]
  /\ batch = [w \in Workers |-> {}]
  /\ releasing = [w \in Workers |-> FALSE]
  /\ msg = [m \in Msgs |-> [state |-> "unused", job |-> CHOOSE j \in Jobs : TRUE,
                             left |-> RetryLimit]]
  /\ runs = {}
  /\ faulted = {}

JobOf(r) == msg[r.msg].job
Writable(j) == \A w \in Workers : j \notin picked[w]
Oldest(S, j) == j \in S /\ \A i \in S : j <= i

-----------------------------------------------------------------------------
(* Producers: any route or job that inserts a row, due now or run_after.   *)

Enqueue(j, now) ==
  /\ status[j] = "absent"
  /\ \A i \in Jobs : i < j => status[i] # "absent"
  /\ status' = [status EXCEPT ![j] = "PENDING"]
  /\ due' = [due EXCEPT ![j] = now]
  /\ UNCHANGED <<picked, batch, releasing, msg, runs, faulted>>

Elapse(j) ==
  /\ status[j] # "absent" /\ ~due[j]
  /\ due' = [due EXCEPT ![j] = TRUE]
  /\ UNCHANGED <<status, picked, batch, releasing, msg, runs, faulted>>

-----------------------------------------------------------------------------
(* The publish loop of one worker.                                         *)

\* Mutants of Claimable: without SKIP LOCKED, and without the run_after test.
ClaimableIgnoringLocks == {j \in Jobs : status[j] = "PENDING" /\ due[j]}
ClaimableIgnoringRunAfter == {j \in Jobs : status[j] = "PENDING" /\ Writable(j)}

Claimable == {j \in Jobs : status[j] = "PENDING" /\ due[j] /\ Writable(j)}

OldestOf(S) == {j \in S : Cardinality({i \in S : i < j}) < BatchLimit}

\* BEGIN; SELECT ... ORDER BY created_at FOR UPDATE SKIP LOCKED LIMIT n.
SelectDue(w) ==
  /\ picked[w] = {} /\ batch[w] = {}
  /\ Claimable # {}
  /\ picked' = [picked EXCEPT ![w] = OldestOf(Claimable)]
  /\ UNCHANGED <<status, due, batch, releasing, msg, runs, faulted>>

\* The UPDATEs to QUEUED and the COMMIT that makes them visible.
CommitClaim(w) ==
  /\ picked[w] # {}
  /\ status' = [j \in Jobs |-> IF j \in picked[w] THEN "QUEUED" ELSE status[j]]
  /\ batch' = [batch EXCEPT ![w] = picked[w]]
  /\ picked' = [picked EXCEPT ![w] = {}]
  /\ UNCHANGED <<due, releasing, msg, runs, faulted>>

\* Any error before COMMIT: ROLLBACK leaves the rows PENDING.
RollbackClaim(w) ==
  /\ "dbError" \in Faults
  /\ picked[w] # {}
  /\ picked' = [picked EXCEPT ![w] = {}]
  /\ UNCHANGED <<status, due, batch, releasing, msg, runs, faulted>>

\* boss.send stored the message.
Stored(m, j) ==
  /\ Oldest({i \in Msgs : msg[i].state = "unused"}, m)
  /\ msg' = [msg EXCEPT ![m] = [state |-> "ready", job |-> j, left |-> RetryLimit]]

Send(w, j, m) ==
  /\ Oldest(batch[w], j) /\ ~releasing[w]
  /\ j \in Image[w]
  /\ Stored(m, j)
  /\ batch' = [batch EXCEPT ![w] = @ \ {j}]
  /\ UNCHANGED <<status, due, picked, releasing, runs, faulted>>

\* queueForKind throws UnknownJobKindError, or boss.send fails before the
\* message is stored.
SendFails(w, j) ==
  /\ Oldest(batch[w], j) /\ ~releasing[w]
  /\ j \notin Image[w] \/ "sendError" \in Faults
  /\ releasing' = [releasing EXCEPT ![w] = TRUE]
  /\ UNCHANGED <<status, due, picked, batch, msg, runs, faulted>>

\* boss.send stores the message and its answer is lost.
SendAnswerLost(w, j, m) ==
  /\ "sendError" \in Faults
  /\ Oldest(batch[w], j) /\ ~releasing[w]
  /\ j \in Image[w]
  /\ Stored(m, j)
  /\ releasing' = [releasing EXCEPT ![w] = TRUE]
  /\ UNCHANGED <<status, due, picked, batch, runs, faulted>>

\* Mutants of ReleasedStatus: UPDATE without "AND status = 'QUEUED'", and a
\* release that does not write at all.
ReleaseUnguarded(j) == "PENDING"
ReleaseSkipped(j) == status[j]

\* UPDATE ... SET status = 'PENDING' WHERE id = $1 AND status = 'QUEUED'.
ReleasedStatus(j) == IF status[j] = "QUEUED" THEN "PENDING" ELSE status[j]

\* Mutant of AfterRelease: the batch is abandoned for an unknown kind as well.
AbandonAlways(w, j) == {}

\* publishClaimedJobs continues past an unknown kind and throws otherwise.
AfterRelease(w, j) == IF j \in Image[w] THEN {} ELSE batch[w] \ {j}

Release(w, j) ==
  /\ releasing[w] /\ Oldest(batch[w], j) /\ Writable(j)
  /\ status' = [status EXCEPT ![j] = ReleasedStatus(j)]
  /\ releasing' = [releasing EXCEPT ![w] = FALSE]
  /\ batch' = [batch EXCEPT ![w] = AfterRelease(w, j)]
  /\ faulted' = IF j \in Image[w] THEN faulted \cup (batch[w] \ {j}) ELSE faulted
  /\ UNCHANGED <<due, picked, msg, runs>>

\* releaseToPending throws out of publishClaimedJobs: the whole rest is left.
ReleaseFails(w) ==
  /\ "dbError" \in Faults
  /\ releasing[w]
  /\ releasing' = [releasing EXCEPT ![w] = FALSE]
  /\ batch' = [batch EXCEPT ![w] = {}]
  /\ faulted' = faulted \cup batch[w]
  /\ UNCHANGED <<status, due, picked, msg, runs>>

-----------------------------------------------------------------------------
(* pg-boss (external): at-least-once delivery with a bounded retry.        *)

\* A queue's work loop has at most one delivery it waits for.
Deliver(w, m) ==
  /\ msg[m].state = "ready"
  /\ msg[m].job \in Image[w]
  /\ \A r \in runs : r.worker = w /\ r.awaited
                        => QueueOf[JobOf(r)] # QueueOf[msg[m].job]
  /\ msg' = [msg EXCEPT ![m].state = "active"]
  /\ runs' = runs \cup {[msg |-> m, left |-> msg[m].left, worker |-> w,
                         awaited |-> TRUE, at |-> "fetched"]}
  /\ UNCHANGED <<status, due, picked, batch, releasing, faulted>>

\* Mutant of Retried: the retry budget is tested after it is spent.
RetriedOffByOne(rec) == [rec EXCEPT !.state = "ready", !.left = @ - 1]

Retried(rec) == IF rec.left > 0 THEN [rec EXCEPT !.state = "ready", !.left = @ - 1]
                                ELSE [rec EXCEPT !.state = "done"]

\* The delivery times out: its run, if the process still lives, goes on unheard.
Expire(m) ==
  /\ msg[m].state = "active"
  /\ "expiry" \in Faults \/ \A r \in runs : ~(r.msg = m /\ r.awaited)
  /\ msg' = [msg EXCEPT ![m] = Retried(@)]
  /\ runs' = {IF r.msg = m THEN [r EXCEPT !.awaited = FALSE] ELSE r : r \in runs}
  /\ UNCHANGED <<status, due, picked, batch, releasing, faulted>>

\* The run ends and pg-boss learns the outcome, unless it stopped waiting.
EndRun(r, ok) ==
  /\ runs' = runs \ {r}
  /\ msg' = IF ~r.awaited THEN msg
            ELSE [msg EXCEPT ![r.msg] = IF ok THEN [@ EXCEPT !.state = "done"]
                                              ELSE Retried(@)]

-----------------------------------------------------------------------------
(* runMediaJob.                                                            *)

Advance(r, at) == runs' = (runs \ {r}) \cup {[r EXCEPT !.at = at]}

MarkRunning(r) ==
  /\ r.at = "fetched" /\ Writable(JobOf(r))
  /\ status' = [status EXCEPT ![JobOf(r)] = "RUNNING"]
  /\ Advance(r, "running")
  /\ UNCHANGED <<due, picked, batch, releasing, msg, faulted>>

\* markJob(RUNNING) is outside the try: its error ends the run at once.
MarkRunningFails(r) ==
  /\ "dbError" \in Faults
  /\ r.at = "fetched"
  /\ EndRun(r, FALSE)
  /\ faulted' = faulted \cup {JobOf(r)}
  /\ UNCHANGED <<status, due, picked, batch, releasing>>

HandlerEnds(r, at) ==
  /\ r.at = "running" /\ at \in {"returned", "threw"}
  /\ Advance(r, at)
  /\ UNCHANGED <<status, due, picked, batch, releasing, msg, faulted>>

MarkSettled(r) ==
  /\ r.at \in {"returned", "threw"} /\ Writable(JobOf(r))
  /\ status' = [status EXCEPT ![JobOf(r)] =
                  IF r.at = "returned" THEN "SUCCEEDED" ELSE "FAILED"]
  /\ Advance(r, IF r.at = "returned" THEN "succeeded" ELSE "failed")
  /\ UNCHANGED <<due, picked, batch, releasing, msg, faulted>>

\* markJob(SUCCEEDED) is inside the try: its error is caught like a handler's.
MarkSucceededFails(r) ==
  /\ "dbError" \in Faults
  /\ r.at = "returned"
  /\ Advance(r, "threw")
  /\ UNCHANGED <<status, due, picked, batch, releasing, msg, faulted>>

\* markJob(FAILED) is in the catch: its error leaves the row as it was.
MarkFailedFails(r) ==
  /\ "dbError" \in Faults
  /\ r.at = "threw"
  /\ EndRun(r, FALSE)
  /\ faulted' = faulted \cup {JobOf(r)}
  /\ UNCHANGED <<status, due, picked, batch, releasing>>

Acknowledge(r) ==
  /\ r.at \in {"succeeded", "failed"}
  /\ EndRun(r, r.at = "succeeded")
  /\ UNCHANGED <<status, due, picked, batch, releasing, faulted>>

-----------------------------------------------------------------------------
(* markJobs of the app's inline transcription: one UPDATE over the rows of *)
(* its version that are still active.                                      *)

InlineSettle(s) ==
  /\ s \in {"SUCCEEDED", "FAILED"}
  /\ \A j \in InlineJobs : Writable(j)
  /\ \E j \in InlineJobs : status[j] \in Active
  /\ status' = [j \in Jobs |-> IF j \in InlineJobs /\ status[j] \in Active
                                 THEN s ELSE status[j]]
  /\ UNCHANGED <<due, picked, batch, releasing, msg, runs, faulted>>

\* The worker process dies and is started again: its open transaction rolls
\* back, its claimed batch and its runs are forgotten.
Crash(w) ==
  /\ "crash" \in Faults
  /\ picked' = [picked EXCEPT ![w] = {}]
  /\ batch' = [batch EXCEPT ![w] = {}]
  /\ releasing' = [releasing EXCEPT ![w] = FALSE]
  /\ runs' = {r \in runs : r.worker # w}
  /\ faulted' = faulted \cup batch[w] \cup {JobOf(r) : r \in {x \in runs : x.worker = w}}
  /\ UNCHANGED <<status, due, msg>>

-----------------------------------------------------------------------------
Publish(w) ==
  \/ SelectDue(w) \/ CommitClaim(w) \/ RollbackClaim(w) \/ ReleaseFails(w)
  \/ \E j \in Jobs : SendFails(w, j) \/ Release(w, j)
  \/ \E j \in Jobs, m \in Msgs : Send(w, j, m) \/ SendAnswerLost(w, j, m)

Handle(r) ==
  \/ MarkRunning(r) \/ MarkRunningFails(r)
  \/ \E at \in {"returned", "threw"} : HandlerEnds(r, at)
  \/ MarkSettled(r) \/ MarkSucceededFails(r) \/ MarkFailedFails(r)
  \/ Acknowledge(r)

Next ==
  \/ \E j \in Jobs, now \in BOOLEAN : Enqueue(j, now)
  \/ \E j \in Jobs : Elapse(j)
  \/ \E w \in Workers : Publish(w)
  \/ \E w \in Workers, m \in Msgs : Deliver(w, m)
  \/ \E m \in Msgs : Expire(m)
  \/ \E r \in runs : Handle(r)
  \/ \E s \in {"SUCCEEDED", "FAILED"} : InlineSettle(s)
  \/ \E w \in Workers : Crash(w)

Spec == Init /\ [][Next]_vars

\* The loop of start() ticks every two seconds whatever a tick did, pg-boss
\* polls its queues, time passes, and a handler ends one way or the other.
Fairness ==
  /\ \A j \in Jobs : WF_vars(Elapse(j))
  /\ \A w \in Workers : WF_vars(Publish(w))
  /\ \A m \in Msgs : /\ WF_vars(\E w \in Workers : Deliver(w, m))
                     /\ WF_vars(\E r \in runs : r.msg = m /\ Handle(r))
                     /\ WF_vars(Expire(m))

FairSpec == Spec /\ Fairness

-----------------------------------------------------------------------------
(* Properties.                                                             *)

Held(w) == picked[w] \cup batch[w]

\* "The SKIP LOCKED is what keeps two workers from claiming the same rows":
\* between its SELECT and the end of its publish loop a row is in the hands of
\* one worker only.
ClaimedOnce == \A w, v \in Workers : w # v => Held(w) \cap Held(v) = {}

\* A row that a worker is about to hand over is not PENDING, so no second
\* claim can take it; the rows of an open claim are all still PENDING and due.
BatchNotClaimable ==
  \A w \in Workers : /\ \A j \in batch[w] : status[j] \notin {"absent", "PENDING"}
                     /\ \A j \in picked[w] : status[j] = "PENDING" /\ due[j]

\* No message and no claimed row belongs to a job whose run_after has not
\* passed: a parked assembly stays invisible to every worker.
ParkedNotPublished ==
  /\ \A m \in Msgs : msg[m].state # "unused" => due[msg[m].job]
  /\ \A j \in Jobs : status[j] = "QUEUED" => due[j]

Live(j) ==
  \/ \E w \in Workers : j \in batch[w]
  \/ \E m \in Msgs : msg[m].job = j /\ msg[m].state \in {"ready", "active"}
  \/ \E r \in runs : JobOf(r) = j

\* A row is left at QUEUED or RUNNING with nobody working on it only if a
\* crash, a failed bookkeeping write or an abandoned batch hit that very row.
NoSilentLoss ==
  \A j \in Jobs : status[j] \in {"QUEUED", "RUNNING"} /\ ~Live(j) => j \in faulted

\* No step takes a row a handler has started, or that has been settled, back to
\* PENDING or QUEUED: what a late release or a second claim must never do.
StartedNotRequeued ==
  [][\A j \in Jobs : status[j] \in Started => status'[j] \in Started]_status

Known == {j \in Jobs : \A w \in Workers : j \in Image[w]}
Settled(j) == status[j] \in {"SUCCEEDED", "FAILED"}

\* Without faults every row of a kind the workers know is settled for good, the
\* rows of kinds they do not know notwithstanding ("everything queued behind it
\* keeps moving").
KnownJobsSettle == \A j \in Known : status[j] = "PENDING" ~> []Settled(j)

\* A row no worker can publish is never left QUEUED: it waits at PENDING for a
\* rebuilt worker image.
UnknownJobsWait ==
  \A j \in Jobs : (\A w \in Workers : j \notin Image[w])
                    => (status[j] = "QUEUED" ~> status[j] = "PENDING")
=============================================================================

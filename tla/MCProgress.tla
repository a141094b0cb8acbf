----------------------------- MODULE MCProgress -----------------------------
(***************************************************************************)
(* TLC instance for the progress of the two workers, one scene each: the   *)
(* media worker's job queue without faults, with a job its image does not  *)
(* know, and a batch of two comments planned by the agent worker and       *)
(* rendered.                                                               *)
(***************************************************************************)
EXTENDS Naturals, FiniteSets, TLC

CONSTANTS w1, w2, c1, c2, t1, r1, r2, j1, v1, x1, None

VARIABLES
  scene,
  status, due, picked, batch, releasing, msg, runs, faulted,   \* MediaJobs
  comment, task, archive, run, exec, job, version, call        \* CommentEdit

\* Job 1 is a burn-in neither image knows, job 2 a probe, job 3 an assembly (which
\* a run may park).
Queue == INSTANCE MediaJobs WITH
  Jobs <- {1, 2, 3}, Workers <- {w1, w2}, Msgs <- {1, 2},
  Image <- [w \in {w1, w2} |-> {2, 3}],
  QueueOf <- 1 :> "burn-subtitles" @@ 2 :> "probe-media" @@ 3 :> "assemble-rough-cut",
  InlineJobs <- {}, BatchLimit <- 2, RetryLimit <- 1, Faults <- {}

\* No comment is deleted, no worker stopped at work; the draft's cut may be deleted.
Editing == INSTANCE CommentEdit WITH
  Comments <- {c1, c2}, Editable <- {}, Deletable <- {}, Removable <- {j1},
  Texts <- {t1}, Runs <- {r1, r2}, Jobs <- {j1}, Versions <- {v1}, Calls <- {x1},
  Actions <- {"queue", "run"}, Paired <- {}, MayStop <- FALSE

queueVars == <<status, due, picked, batch, releasing, msg, runs, faulted>>
editVars == <<comment, task, archive, run, exec, job, version, call>>
vars == <<queueVars, editVars, scene>>

Init == Queue!Init /\ Editing!Init /\ scene \in {"queue", "editing"}

In(name) == scene = name /\ UNCHANGED scene
InQueue == In("queue") /\ UNCHANGED editVars
InEditing == In("editing") /\ UNCHANGED queueVars

Next == (InQueue /\ Queue!Next) \/ (InEditing /\ Editing!Next)

\* What Queue!Fairness and Editing!FairSpec ask, each in its scene.
Fairness ==
  /\ \A j \in {1, 2, 3} : WF_vars(InQueue /\ Queue!Elapse(j))
  /\ \A w \in {w1, w2} : WF_vars(InQueue /\ Queue!Publish(w))
  /\ \A m \in {1, 2} :
       /\ WF_vars(InQueue /\ \E w \in {w1, w2} : Queue!Deliver(w, m))
       /\ WF_vars(InQueue /\ \E r \in runs : r.msg = m /\ Queue!Handle(r))
       /\ WF_vars(InQueue /\ Queue!Expire(m))
  /\ \A r \in {r1, r2} : WF_vars(InEditing /\ Editing!WorkerStep(r))
  /\ WF_vars(InEditing /\ Editing!RenderStep(j1))

Spec == Init /\ [][Next]_vars /\ Fairness

\* Every row of a kind the workers know is settled for good.
KnownJobsSettle == Queue!KnownJobsSettle

\* A row of a kind no worker knows goes back to PENDING.
UnknownJobsWait == Queue!UnknownJobsWait

\* A task that shows planning or rendering gets a result.
Settles == Editing!Settles
=============================================================================

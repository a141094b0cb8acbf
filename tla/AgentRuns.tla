----------------------------- MODULE AgentRuns -----------------------------
(***************************************************************************)
(* The queue of agent runs of one version: requests that enqueue a review, *)
(* workers that claim a few runs in one transaction (FOR UPDATE SKIP       *)
(* LOCKED) and execute them one after the other, posting the findings of   *)
(* each as comments.  A worker that stops or dies leaves what it has in    *)
(* hand.  (The rankings of short-form batches, which other transactions    *)
(* create, go through the same queue: see ShortForm.)                      *)
(***************************************************************************)
EXTENDS Naturals, FiniteSets

CONSTANTS
  Runs,      \* bound: agent runs, numbered as they are created
  Askers,    \* requests to enqueue that can be in progress at once
  Workers,   \* agent workers
  Take,      \* claimPendingAgentRuns(limit)
  Findings,  \* findings the model reports of a run
  NoRun

ASSUME RunNumbersAssumption == Runs \subseteq Nat /\ Take \in Nat \ {0} /\ Findings \in Nat
ASSUME NoRunAssumption ==
  NoRun \notin Runs /\ NoRun \notin {"PENDING", "RUNNING", "SUCCEEDED", "FAILED"}

VARIABLES
  run,      \* agent_runs.status
  request,  \* requests that have found no active run
  locked,   \* rows a worker's claim holds locked
  inHand,   \* claimed runs a worker has not executed yet
  current,  \* the run a worker executes
  posted,   \* comments posted for a run
  left      \* runs a stopped or dead worker has left behind

agentVars == <<run, request, locked, inHand, current, posted, left>>

AgentRunsTypeOK ==
  /\ run \in [Runs -> {NoRun, "PENDING", "RUNNING", "SUCCEEDED", "FAILED"}]
  /\ request \subseteq Askers
  /\ locked \in [Workers -> SUBSET Runs]
  /\ inHand \in [Workers -> SUBSET Runs]
  /\ current \in [Workers -> Runs \cup {NoRun}]
  /\ posted \in [Runs -> 0..Findings]
  /\ left \subseteq Runs

AgentRunsInit ==
  /\ run = [r \in Runs |-> NoRun]
  /\ request = {}
  /\ locked = [w \in Workers |-> {}]
  /\ inHand = [w \in Workers |-> {}]
  /\ current = [w \in Workers |-> NoRun]
  /\ posted = [r \in Runs |-> 0]
  /\ left = {}

Oldest(S, r) == r \in S /\ \A q \in S : r <= q

-----------------------------------------------------------------------------
(* enqueueAgentRun: a read and an insert, with nothing between them.       *)

FindNoActiveRun(q) ==
  /\ q \notin request
  /\ \A r \in Runs : run[r] \notin {"PENDING", "RUNNING"}
  /\ request' = request \cup {q}
  /\ UNCHANGED <<run, locked, inHand, current, posted, left>>

CreateRun(q, r) ==
  /\ q \in request /\ Oldest({s \in Runs : run[s] = NoRun}, r)
  /\ run' = [run EXCEPT ![r] = "PENDING"]
  /\ request' = request \ {q}
  /\ UNCHANGED <<locked, inHand, current, posted, left>>

-----------------------------------------------------------------------------
(* claimPendingAgentRuns.                                                  *)

Free(w) == locked[w] = {} /\ inHand[w] = {} /\ current[w] = NoRun

\* Mutant of Claimable: a plain SELECT.
ClaimableLocked == {r \in Runs : run[r] = "PENDING"}

\* FOR UPDATE SKIP LOCKED.
Claimable == {r \in Runs : run[r] = "PENDING" /\ \A w \in Workers : r \notin locked[w]}

\* ORDER BY created_at LIMIT.
LockPending(w) ==
  /\ Free(w) /\ Claimable # {}
  /\ locked' = [locked EXCEPT ![w] =
       {r \in Claimable : Cardinality({q \in Claimable : q < r}) < Take}]
  /\ UNCHANGED <<run, request, inHand, current, posted, left>>

\* UPDATE ... WHERE status = 'PENDING', and the ids that were selected.
CommitClaim(w) ==
  /\ locked[w] # {}
  /\ run' = [r \in Runs |->
       IF r \in locked[w] /\ run[r] = "PENDING" THEN "RUNNING" ELSE run[r]]
  /\ inHand' = [inHand EXCEPT ![w] = locked[w]]
  /\ locked' = [locked EXCEPT ![w] = {}]
  /\ UNCHANGED <<request, current, posted, left>>

AbortClaim(w) ==
  /\ locked[w] # {}
  /\ locked' = [locked EXCEPT ![w] = {}]
  /\ UNCHANGED <<run, request, inHand, current, posted, left>>

-----------------------------------------------------------------------------
(* tick, executeAgentRun and publishFindings.                              *)

TakeUp(w, r) ==
  /\ current[w] = NoRun /\ Oldest(inHand[w], r)
  /\ inHand' = [inHand EXCEPT ![w] = @ \ {r}]
  /\ current' = [current EXCEPT ![w] = IF run[r] = "SUCCEEDED" THEN NoRun ELSE r]
  /\ UNCHANGED <<run, request, locked, posted, left>>

\* One comment; the same one again is skipped.
PostFinding(w) ==
  /\ current[w] # NoRun /\ posted[current[w]] < Findings
  /\ posted' = [posted EXCEPT ![current[w]] = @ + 1]
  /\ UNCHANGED <<run, request, locked, inHand, current, left>>

Settle(w, status) ==
  /\ current[w] # NoRun
  /\ run' = [run EXCEPT ![current[w]] = status]
  /\ current' = [current EXCEPT ![w] = NoRun]
  /\ UNCHANGED <<request, locked, inHand, posted, left>>

FinishRun(w) == current[w] # NoRun /\ posted[current[w]] = Findings /\ Settle(w, "SUCCEEDED")

\* The model, or a comment, fails: what has been posted stays.
FailRun(w) == Settle(w, "FAILED")

\* SIGTERM is seen between two runs; a crash comes at any time.  Nothing gives the
\* runs back.
StopWorker(w) ==
  /\ inHand[w] # {} \/ current[w] # NoRun
  /\ left' = left \cup inHand[w] \cup ({current[w]} \ {NoRun})
  /\ inHand' = [inHand EXCEPT ![w] = {}]
  /\ current' = [current EXCEPT ![w] = NoRun]
  /\ UNCHANGED <<run, request, locked, posted>>

-----------------------------------------------------------------------------
AgentRunsNext ==
  \/ \E q \in Askers : FindNoActiveRun(q) \/ \E r \in Runs : CreateRun(q, r)
  \/ \E w \in Workers :
       \/ LockPending(w) \/ CommitClaim(w) \/ AbortClaim(w)
       \/ PostFinding(w) \/ FinishRun(w) \/ FailRun(w) \/ StopWorker(w)
       \/ \E r \in Runs : TakeUp(w, r)

AgentRunsSpec == AgentRunsInit /\ [][AgentRunsNext]_agentVars

-----------------------------------------------------------------------------
(* Properties.                                                             *)

HeldBy(w) == inHand[w] \cup ({current[w]} \ {NoRun})

\* However workers claim side by side, a run that is RUNNING is in the hands of
\* exactly one of them, or of none after that one stopped: no run is executed
\* twice, and none is forgotten while its worker lives.
OneWorkerPerRun ==
  \A r \in Runs :
    Cardinality({w \in Workers : r \in HeldBy(w)})
      = IF run[r] = "RUNNING" /\ r \notin left THEN 1 ELSE 0
=============================================================================

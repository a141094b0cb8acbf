-------------------------- MODULE Services_proofs --------------------------
(***************************************************************************)
(* Proofs about the queue of agent runs (AgentRuns), for any number of     *)
(* runs, requests, workers and batches; short form (ShortForm), whose      *)
(* rankings are agent runs; a review page (CutReview); a comment list      *)
(* (CommentFeed); and the parts together (MCServices): each scene is a     *)
(* behaviour of its part.                                                  *)
(***************************************************************************)
EXTENDS MCServices, Accounts_proofs, EditLists_proofs, FiniteSetTheorems, TLAPS

-----------------------------------------------------------------------------
(* Agent runs: the inductive invariant.                                    *)

Held(r, w) == r \in inHand[w] \/ r = current[w]

\* A claim locks rows that are PENDING, and no two claims the same one.
LocksApart ==
  /\ \A w \in Workers : \A r \in locked[w] : run[r] = "PENDING"
  /\ \A w, x \in Workers : w # x => locked[w] \cap locked[x] = {}

\* A worker claims with empty hands, and what it executes it has put down.
OneThingAtATime ==
  \A w \in Workers :
    /\ locked[w] # {} => inHand[w] = {} /\ current[w] = NoRun
    /\ current[w] \notin inHand[w]

\* What is in a worker's hands is RUNNING and nobody else's; what was left behind is
\* RUNNING and nobody's.
HeldApart ==
  \A r \in Runs :
    /\ \A w \in Workers : Held(r, w) => run[r] = "RUNNING" /\ r \notin left
    /\ \A w, x \in Workers : Held(r, w) /\ Held(r, x) => w = x
    /\ r \in left => run[r] = "RUNNING"
    /\ run[r] = "RUNNING" /\ r \notin left => \E w \in Workers : Held(r, w)

IInv == AgentRunsTypeOK /\ LocksApart /\ OneThingAtATime /\ HeldApart

-----------------------------------------------------------------------------
(* AgentRunsTypeOK.                                                        *)

LEMMA InitType == AgentRunsInit => AgentRunsTypeOK
  BY RunNumbersAssumption DEF AgentRunsInit, AgentRunsTypeOK

LEMMA StepType == AgentRunsTypeOK /\ [AgentRunsNext]_agentVars => AgentRunsTypeOK'
<1> SUFFICES ASSUME AgentRunsTypeOK, [AgentRunsNext]_agentVars PROVE AgentRunsTypeOK'
    OBVIOUS
<1> USE RunNumbersAssumption, NoRunAssumption DEF AgentRunsTypeOK
<1>1. ASSUME NEW q \in Askers, FindNoActiveRun(q) PROVE AgentRunsTypeOK'
      BY <1>1 DEF FindNoActiveRun
<1>2. ASSUME NEW q \in Askers, NEW r \in Runs, CreateRun(q, r) PROVE AgentRunsTypeOK'
      BY <1>2 DEF CreateRun
<1>3. ASSUME NEW w \in Workers, LockPending(w) PROVE AgentRunsTypeOK'
      BY <1>3 DEF LockPending, Claimable
<1>4. ASSUME NEW w \in Workers, CommitClaim(w) PROVE AgentRunsTypeOK'
      BY <1>4 DEF CommitClaim
<1>5. ASSUME NEW w \in Workers, AbortClaim(w) PROVE AgentRunsTypeOK'
      BY <1>5 DEF AbortClaim
<1>6. ASSUME NEW w \in Workers, PostFinding(w) PROVE AgentRunsTypeOK'
  <2>1. current[w] \in Runs /\ posted[current[w]] < Findings
        BY <1>6 DEF PostFinding
  <2>2. posted[current[w]] \in 0..Findings
        BY <2>1
  <2>3. posted[current[w]] + 1 \in 0..Findings
        BY <2>1, <2>2
  <2>4. posted' \in [Runs -> 0..Findings]
        BY <1>6, <2>1, <2>3 DEF PostFinding
  <2> QED BY <1>6, <2>4 DEF PostFinding
<1>7. ASSUME NEW w \in Workers, FinishRun(w) \/ FailRun(w) PROVE AgentRunsTypeOK'
      BY <1>7 DEF FinishRun, FailRun, Settle
<1>8. ASSUME NEW w \in Workers, StopWorker(w) PROVE AgentRunsTypeOK'
      BY <1>8 DEF StopWorker
<1>9. ASSUME NEW w \in Workers, NEW r \in Runs, TakeUp(w, r) PROVE AgentRunsTypeOK'
      BY <1>9 DEF TakeUp
<1>10. CASE UNCHANGED agentVars
      BY <1>10 DEF agentVars
<1> QED BY <1>1, <1>2, <1>3, <1>4, <1>5, <1>6, <1>7, <1>8, <1>9, <1>10 DEF AgentRunsNext

\* Every variable of the queue keeps its type: no row leaves the statuses that
\* agent_runs has, and a run never has more comments than findings.
THEOREM AgentRunsTypeCorrect == AgentRunsSpec => []AgentRunsTypeOK
  BY InitType, StepType, PTL DEF AgentRunsSpec

-----------------------------------------------------------------------------
(* Who holds what.                                                         *)

LEMMA InitHolders == AgentRunsInit => LocksApart /\ OneThingAtATime /\ HeldApart
  BY RunNumbersAssumption, NoRunAssumption
  DEF AgentRunsInit, LocksApart, OneThingAtATime, HeldApart, Held

\* Requests only add a PENDING row that nobody has locked or in hand.
LEMMA RequestHolders ==
  ASSUME IInv, NEW q \in Askers, FindNoActiveRun(q) \/ \E r \in Runs : CreateRun(q, r)
  PROVE  (LocksApart /\ OneThingAtATime /\ HeldApart)'
<1>1. CASE FindNoActiveRun(q)
      BY <1>1 DEF IInv, FindNoActiveRun, LocksApart, OneThingAtATime, HeldApart, Held
<1>2. ASSUME NEW r \in Runs, CreateRun(q, r)
      PROVE  (LocksApart /\ OneThingAtATime /\ HeldApart)'
      BY <1>2, NoRunAssumption
      DEF IInv, AgentRunsTypeOK, CreateRun, Oldest, LocksApart, OneThingAtATime, HeldApart, Held
<1> QED BY <1>1, <1>2

\* The rows that are locked were nobody's, and become the worker's alone.
LEMMA ClaimHolders ==
  ASSUME IInv, NEW w \in Workers, LockPending(w) \/ CommitClaim(w) \/ AbortClaim(w)
  PROVE  (LocksApart /\ OneThingAtATime /\ HeldApart)'
<1> USE RunNumbersAssumption, NoRunAssumption DEF IInv, AgentRunsTypeOK
<1>1. CASE LockPending(w)
  <2>1. /\ locked'[w] \subseteq Claimable
        /\ \A x \in Workers : x # w => locked'[x] = locked[x]
        /\ UNCHANGED <<run, inHand, current, left>>
        BY <1>1 DEF LockPending
  <2>2. LocksApart'
        BY <2>1 DEF LocksApart, Claimable
  <2>3. OneThingAtATime'
        BY <1>1, <2>1 DEF OneThingAtATime, LockPending, Free
  <2>4. HeldApart'
        BY <2>1 DEF HeldApart, Held
  <2> QED BY <2>2, <2>3, <2>4
<1>2. CASE CommitClaim(w)
  <2>1. /\ locked'[w] = {} /\ inHand'[w] = locked[w]
        /\ \A x \in Workers : x # w => locked'[x] = locked[x] /\ inHand'[x] = inHand[x]
        /\ \A r \in Runs : run'[r] = IF r \in locked[w] THEN "RUNNING" ELSE run[r]
        /\ UNCHANGED <<current, left>>
        BY <1>2 DEF CommitClaim, LocksApart
  <2>2. inHand[w] = {} /\ current[w] = NoRun
        BY <1>2 DEF CommitClaim, OneThingAtATime
  <2>3. LocksApart'
        BY <2>1 DEF LocksApart
  <2>4. OneThingAtATime'
        BY <2>1, <2>2 DEF OneThingAtATime
  <2>5. HeldApart'
        BY <2>1, <2>2 DEF HeldApart, Held, LocksApart
  <2> QED BY <2>3, <2>4, <2>5
<1>3. CASE AbortClaim(w)
      BY <1>3 DEF AbortClaim, LocksApart, OneThingAtATime, HeldApart, Held
<1> QED BY <1>1, <1>2, <1>3

\* A run goes from hand to execution and from there to its outcome.
LEMMA ExecutionHolders ==
  ASSUME IInv, NEW w \in Workers,
         PostFinding(w) \/ FinishRun(w) \/ FailRun(w) \/ \E r \in Runs : TakeUp(w, r)
  PROVE  (LocksApart /\ OneThingAtATime /\ HeldApart)'
<1> USE NoRunAssumption DEF IInv, AgentRunsTypeOK
<1>1. CASE PostFinding(w)
      BY <1>1 DEF PostFinding, LocksApart, OneThingAtATime, HeldApart, Held
<1>2. CASE FinishRun(w) \/ FailRun(w)
  <2>1. PICK status \in {"SUCCEEDED", "FAILED"} : Settle(w, status)
        BY <1>2 DEF FinishRun, FailRun
  <2>2. /\ current[w] \in Runs
        /\ run' = [run EXCEPT ![current[w]] = status]
        /\ current' = [current EXCEPT ![w] = NoRun]
        /\ UNCHANGED <<locked, inHand, left>>
        BY <2>1 DEF Settle
  <2>3. run[current[w]] = "RUNNING" /\ current[w] \notin left
        BY <2>2 DEF HeldApart, Held
  <2>4. LocksApart'
        BY <2>2, <2>3 DEF LocksApart
  <2>5. OneThingAtATime'
        BY <2>2 DEF OneThingAtATime
  <2>6. HeldApart'
        BY <2>2, <2>3 DEF HeldApart, Held, OneThingAtATime
  <2> QED BY <2>4, <2>5, <2>6
<1>3. ASSUME NEW r \in Runs, TakeUp(w, r)
      PROVE  (LocksApart /\ OneThingAtATime /\ HeldApart)'
  <2>1. r \in inHand[w] /\ current[w] = NoRun /\ run[r] = "RUNNING"
        BY <1>3 DEF TakeUp, Oldest, HeldApart, Held
  <2>2. /\ inHand' = [inHand EXCEPT ![w] = @ \ {r}]
        /\ current' = [current EXCEPT ![w] = r]
        /\ UNCHANGED <<run, locked, left>>
        BY <1>3, <2>1 DEF TakeUp
  <2>3. LocksApart' /\ OneThingAtATime'
        BY <2>1, <2>2 DEF LocksApart, OneThingAtATime
  <2>4. HeldApart'
        BY <2>1, <2>2 DEF HeldApart, Held
  <2> QED BY <2>3, <2>4
<1> QED BY <1>1, <1>2, <1>3

\* A worker that stops leaves what it had, which was nobody else's.
LEMMA StopHolders ==
  ASSUME IInv, NEW w \in Workers, StopWorker(w)
  PROVE  (LocksApart /\ OneThingAtATime /\ HeldApart)'
<1> USE NoRunAssumption DEF IInv, AgentRunsTypeOK, StopWorker
<1>1. LocksApart' /\ OneThingAtATime'
      BY DEF LocksApart, OneThingAtATime
<1>2. HeldApart'
      BY DEF HeldApart, Held
<1> QED BY <1>1, <1>2

LEMMA StepIInv == IInv /\ [AgentRunsNext]_agentVars => IInv'
<1> SUFFICES ASSUME IInv, [AgentRunsNext]_agentVars
             PROVE  (LocksApart /\ OneThingAtATime /\ HeldApart)'
    BY StepType DEF IInv
<1>1. CASE UNCHANGED agentVars
      BY <1>1 DEF agentVars, IInv, LocksApart, OneThingAtATime, HeldApart, Held
<1>2. CASE AgentRunsNext
      BY <1>2, RequestHolders, ClaimHolders, ExecutionHolders, StopHolders DEF AgentRunsNext
<1> QED BY <1>1, <1>2

\* One holder is a set of one, none is the empty set.
LEMMA HoldersCounted == IInv => OneWorkerPerRun
<1> SUFFICES ASSUME IInv, NEW r \in Runs
             PROVE  Cardinality({w \in Workers : r \in HeldBy(w)})
                      = IF run[r] = "RUNNING" /\ r \notin left THEN 1 ELSE 0
    BY DEF OneWorkerPerRun
<1>1. \A w \in Workers : r \in HeldBy(w) <=> Held(r, w)
      BY NoRunAssumption DEF HeldBy, Held
<1>2. CASE run[r] = "RUNNING" /\ r \notin left
  <2>1. PICK w \in Workers : Held(r, w)
        BY <1>2 DEF IInv, HeldApart
  <2>2. {x \in Workers : r \in HeldBy(x)} = {w}
        BY <1>1, <2>1 DEF IInv, HeldApart
  <2> QED BY <1>2, <2>2, FS_Singleton
<1>3. CASE ~(run[r] = "RUNNING" /\ r \notin left)
  <2>1. {x \in Workers : r \in HeldBy(x)} = {}
        BY <1>1, <1>3 DEF IInv, HeldApart
  <2> QED BY <1>3, <2>1, FS_EmptySet
<1> QED BY <1>2, <1>3

\* For any number of workers that claim, stop and die side by side, a RUNNING run is
\* executed by one of them, or by none after that one left it behind.
THEOREM OneWorkerPerRunHolds == AgentRunsSpec => []OneWorkerPerRun
<1>1. AgentRunsInit => IInv
      BY InitType, InitHolders DEF IInv
<1> QED BY <1>1, StepIInv, HoldersCounted, PTL DEF AgentRunsSpec

-----------------------------------------------------------------------------
(* Short form.  Every run has its batch or its job.                        *)

HaveRows ==
  /\ \A c \in Shorts : Exists(c) => batch[short[c].batch] # Nothing
  /\ \A a \in Analyses :
       analysis[a] # Nothing =>
         /\ batch[analysis[a].batch] # Nothing
         /\ analysis[a].at = "done" => \E c \in Shorts : Exists(c) /\ short[c].batch = analysis[a].batch
  /\ \A r \in Rankings : ranking[r] # Nothing => batch[ranking[r].batch] # Nothing
  /\ \A b \in Batches : due[b] > 0 => batch[b] # Nothing
  /\ \A x \in Renders : render[x] # Nothing => click[render[x].click] # Nothing

OneActive == \A b, d \in Batches : IsActive(b) /\ IsActive(d) => b = d

Analysing(b) ==
  \E a \in Analyses : analysis[a] # Nothing /\ analysis[a].batch = b /\ analysis[a].at # "done"

\* A batch no delivery will settle: the last one is out, or a plan is there and a
\* delivery would keep it.
OnItsOwn(b) == due[b] = 0 \/ ShortsOf(b) # {}

InHand(b) == b \in died \/ Analysing(b) \/ \E r \in Rankings : RankedBy(b, r)

OwnInHand == \A b \in Batches : IsActive(b) /\ OnItsOwn(b) => InHand(b)

ShortInv == ShortFormTypeOK /\ HaveRows /\ OneActive /\ OneVideoPerShort /\ OwnInHand

USE ShortNumbersAssumption, NothingAssumption, NoRowAssumption

LEMMA InitShort == ShortFormInit => ShortInv
<1> SUFFICES ASSUME ShortFormInit PROVE ShortInv
    OBVIOUS
<1>1. ShortFormTypeOK
      BY DEF ShortFormInit, ShortFormTypeOK
<1>2. HaveRows /\ OneActive /\ OneVideoPerShort /\ OwnInHand
      BY DEF ShortFormInit, HaveRows, OneActive, OneVideoPerShort, OwnInHand, IsActive, Exists
<1> QED BY <1>1, <1>2 DEF ShortInv

LEMMA Typed ==
  ASSUME ShortInv
  PROVE  /\ \A b \in Batches : batch[b] # Nothing => batch[b] \in BatchRow
         /\ \A c \in Shorts : Exists(c) => short[c] \in Candidate
         /\ \A a \in Analyses : analysis[a] # Nothing => analysis[a] \in Analysis
         /\ \A r \in Rankings : ranking[r] # Nothing => ranking[r] \in Ranking
         /\ \A k \in Clicks : click[k] # Nothing => click[k] \in RenderJob
         /\ \A x \in Renders :
              render[x] # Nothing => render[x] \in RenderRun /\ ShortOf(x) \in Shorts
<1>1. \A x \in Renders : render[x] # Nothing => render[x] \in RenderRun /\ ShortOf(x) \in Shorts
  <2> SUFFICES ASSUME NEW x \in Renders, render[x] # Nothing
               PROVE  render[x] \in RenderRun /\ ShortOf(x) \in Shorts
      OBVIOUS
  <2>1. render[x] \in RenderRun /\ render[x].click \in Clicks
        BY DEF ShortInv, ShortFormTypeOK, RenderRun
  <2>2. click[render[x].click] \in RenderJob
        BY <2>1 DEF ShortInv, ShortFormTypeOK, HaveRows
  <2> QED BY <2>1, <2>2 DEF ShortOf, RenderJob
<1> QED BY <1>1 DEF ShortInv, ShortFormTypeOK, Exists

\* A status is written to a batch.
LEMMA StatusWritten ==
  ASSUME ShortInv, NEW b \in Batches, batch[b] # Nothing,
         NEW status \in Active \cup {"READY", "FAILED"}, SetBatch(b, status)
  PROVE  /\ batch' \in [Batches -> BatchRow \cup {Nothing}]
         /\ batch'[b] # Nothing /\ batch'[b].status = status /\ batch'[b].run = batch[b].run
         /\ \A d \in Batches \ {b} : batch'[d] = batch[d]
<1>1. batch[b] \in BatchRow /\ batch \in [Batches -> BatchRow \cup {Nothing}]
      BY Typed DEF ShortInv, ShortFormTypeOK
<1> DEFINE new == [batch[b] EXCEPT !.status = status]
<1>2. new \in BatchRow /\ new.status = status /\ new.run = batch[b].run
      BY <1>1 DEF BatchRow
<1> HIDE DEF new
<1>3. batch' = [batch EXCEPT ![b] = new]
      BY DEF SetBatch, new
<1> QED BY <1>1, <1>2, <1>3

\* A run of an analysis moves on.
LEMMA AnalysisMoved ==
  ASSUME ShortInv, NEW a \in Analyses, analysis[a] # Nothing,
         NEW at \in {"begun", "analyzing", "planned", "failing", "done"},
         analysis' = [analysis EXCEPT ![a].at = at]
  PROVE  /\ analysis' \in [Analyses -> Analysis \cup {Nothing}]
         /\ analysis'[a] # Nothing /\ analysis'[a].batch = analysis[a].batch /\ analysis'[a].at = at
         /\ \A d \in Analyses \ {a} : analysis'[d] = analysis[d]
<1>1. analysis[a] \in Analysis /\ analysis \in [Analyses -> Analysis \cup {Nothing}]
      BY Typed DEF ShortInv, ShortFormTypeOK
<1> DEFINE new == [analysis[a] EXCEPT !.at = at]
<1>2. new \in Analysis /\ new.at = at /\ new.batch = analysis[a].batch
      BY <1>1 DEF Analysis
<1> HIDE DEF new
<1>3. analysis' = [analysis EXCEPT ![a] = new]
      BY DEF new
<1> QED BY <1>1, <1>2, <1>3

\* An agent run moves on.
LEMMA RankingMoved ==
  ASSUME ShortInv, NEW r \in Rankings, ranking[r] # Nothing,
         NEW status \in {"PENDING", "RUNNING", "loaded", "failing", "clearing", "over"},
         ranking' = [ranking EXCEPT ![r].status = status]
  PROVE  /\ ranking' \in [Rankings -> Ranking \cup {Nothing}]
         /\ ranking'[r] # Nothing /\ ranking'[r].batch = ranking[r].batch
         /\ ranking'[r].status = status
         /\ \A d \in Rankings \ {r} : ranking'[d] = ranking[d]
<1>1. ranking[r] \in Ranking /\ ranking \in [Rankings -> Ranking \cup {Nothing}]
      BY Typed DEF ShortInv, ShortFormTypeOK
<1> DEFINE new == [ranking[r] EXCEPT !.status = status]
<1>2. new \in Ranking /\ new.status = status /\ new.batch = ranking[r].batch
      BY <1>1 DEF Ranking
<1> HIDE DEF new
<1>3. ranking' = [ranking EXCEPT ![r] = new]
      BY DEF new
<1> QED BY <1>1, <1>2, <1>3

\* A candidate's status is written.
LEMMA ShortWritten ==
  ASSUME ShortInv, NEW c \in Shorts, Exists(c),
         NEW status \in {"PROPOSED", "REJECTED", "APPROVED", "RENDERING", "READY", "FAILED"},
         short' = [short EXCEPT ![c].status = status]
  PROVE  /\ short' \in [Shorts -> Candidate \cup {Nothing, Deleted}]
         /\ short'[c] \in Candidate /\ short'[c].batch = short[c].batch
         /\ short'[c].output = short[c].output
         /\ \A d \in Shorts \ {c} : short'[d] = short[d]
<1>1. short[c] \in Candidate /\ short \in [Shorts -> Candidate \cup {Nothing, Deleted}]
      BY Typed DEF ShortInv, ShortFormTypeOK
<1> DEFINE new == [short[c] EXCEPT !.status = status]
<1>2. new \in Candidate /\ new.batch = short[c].batch /\ new.output = short[c].output
      BY <1>1 DEF Candidate
<1> HIDE DEF new
<1>3. short' = [short EXCEPT ![c] = new]
      BY DEF new
<1> QED BY <1>1, <1>2, <1>3

-----------------------------------------------------------------------------
(* What the steps keep of the candidates and of the batches.               *)

\* Candidates keep their batch; with it go the batch's candidates.
SameShorts ==
  /\ short' \in [Shorts -> Candidate \cup {Nothing, Deleted}]
  /\ \A c \in Shorts :
       /\ short'[c] \in {Nothing, Deleted} <=> short[c] \in {Nothing, Deleted}
       /\ Exists(c) => short'[c].batch = short[c].batch

\* The part that editors and renders leave to the analyses and the rankings.
LEMMA ShortsOnly ==
  ASSUME ShortInv, SameShorts, UNCHANGED <<batch, due, analysis, ranking, died>>
  PROVE  /\ \A c \in Shorts : Exists(c) => batch[short[c].batch] # Nothing
         /\ \A b \in Batches : ShortsOf(b)' = ShortsOf(b)
         /\ OneActive' /\ OwnInHand'
<1>1. \A b \in Batches : ShortsOf(b)' = ShortsOf(b)
      BY DEF SameShorts, ShortsOf, Exists
<1>2. OneActive'
      BY DEF ShortInv, OneActive, IsActive
<1>3. OwnInHand'
      BY <1>1 DEF ShortInv, OwnInHand, IsActive, OnItsOwn, InHand, Analysing, RankedBy
<1> QED BY <1>1, <1>2, <1>3 DEF ShortInv, HaveRows

LEMMA ShortsOnlyInv ==
  ASSUME ShortInv, SameShorts, UNCHANGED <<batch, due, analysis, ranking, died>>,
         ShortFormTypeOK', OneVideoPerShort',
         \A x \in Renders : render'[x] # Nothing => click'[render'[x].click] # Nothing
  PROVE  ShortInv'
<1>1. HaveRows'
  <2>1. \A c \in Shorts : Exists(c)' => batch'[short'[c].batch] # Nothing
        BY ShortsOnly DEF SameShorts, Exists
  <2>2. \A a \in Analyses :
          analysis[a] # Nothing =>
            /\ batch[analysis[a].batch] # Nothing
            /\ analysis[a].at = "done" =>
                 \E c \in Shorts : Exists(c)' /\ short'[c].batch = analysis[a].batch
        BY DEF ShortInv, HaveRows, SameShorts, Exists
  <2> QED BY <2>1, <2>2 DEF ShortInv, HaveRows
<1> QED BY <1>1, ShortsOnly DEF ShortInv

\* Nobody's output changes when a status is written.
LEMMA StatusOnly ==
  ASSUME ShortInv, NEW c \in Shorts,
         NEW status \in {"PROPOSED", "REJECTED", "APPROVED", "RENDERING", "READY", "FAILED"},
         SetShort(c, status), UNCHANGED videos
  PROVE  SameShorts /\ OneVideoPerShort'
<1>1. CASE Exists(c)
  <2>1. short' = [short EXCEPT ![c].status = status]
        BY <1>1 DEF SetShort
  <2>2. short'[c] \notin {Nothing, Deleted}
        BY <1>1, <2>1, ShortWritten
  <2> QED BY <1>1, <2>1, <2>2, ShortWritten DEF SameShorts, ShortInv, OneVideoPerShort, Exists
<1>2. CASE ~Exists(c)
      BY <1>2 DEF SetShort, SameShorts, ShortInv, ShortFormTypeOK, OneVideoPerShort, Exists
<1> QED BY <1>1, <1>2

\* A run of a render moves on.
LEMMA RenderMoved ==
  ASSUME ShortInv, NEW x \in Renders, render[x] # Nothing,
         NEW at \in {"begun", "resumed", "resuming", "rendering", "reused", "linked", "probing",
                     "done", "failing"},
         render' = [render EXCEPT ![x].at = at], UNCHANGED click
  PROVE  /\ render' \in [Renders -> RenderRun \cup {Nothing}]
         /\ \A y \in Renders : render'[y] # Nothing => click'[render'[y].click] # Nothing
<1>1. render[x] \in RenderRun /\ render \in [Renders -> RenderRun \cup {Nothing}]
      BY Typed DEF ShortInv, ShortFormTypeOK
<1> DEFINE new == [render[x] EXCEPT !.at = at]
<1>2. new \in RenderRun /\ new.click = render[x].click
      BY <1>1 DEF RenderRun
<1> HIDE DEF new
<1>3. render' = [render EXCEPT ![x] = new]
      BY DEF new
<1> QED BY <1>1, <1>2, <1>3 DEF ShortInv, HaveRows

LEMMA RenderEnded ==
  ASSUME ShortInv, NEW x \in Renders, render' = [render EXCEPT ![x] = Nothing], UNCHANGED click
  PROVE  /\ render' \in [Renders -> RenderRun \cup {Nothing}]
         /\ \A y \in Renders : render'[y] # Nothing => click'[render'[y].click] # Nothing
  BY DEF ShortInv, ShortFormTypeOK, HaveRows

LEMMA RenderSteps ==
  ASSUME ShortInv, NEW x \in Renders,
         \/ MarkRendering(x) \/ Resume(x) \/ FinishRender(x) \/ FailRender(x)
         \/ MarkShortFailed(x) \/ RenderDies(x)
  PROVE  ShortInv'
<1>0. /\ render[x] # Nothing /\ ShortOf(x) \in Shorts /\ render[x] \in RenderRun
      /\ UNCHANGED <<batch, videos, due, analysis, ranking, died, opened, editable, click>>
      BY Typed DEF MarkRendering, Resume, FinishRender, FailRender, MarkShortFailed, RenderDies
<1>1. SameShorts /\ OneVideoPerShort'
  <2>1. CASE UNCHANGED short
        BY <1>0, <2>1 DEF SameShorts, ShortInv, ShortFormTypeOK, OneVideoPerShort, Exists
  <2>2. CASE \E status \in {"RENDERING", "READY", "FAILED"} : SetShort(ShortOf(x), status)
        BY <1>0, <2>2, StatusOnly
  <2> QED BY <2>1, <2>2
      DEF MarkRendering, Resume, FinishRender, FailRender, MarkShortFailed, RenderDies
<1>2. /\ render' \in [Renders -> RenderRun \cup {Nothing}]
      /\ \A y \in Renders : render'[y] # Nothing => click'[render'[y].click] # Nothing
  <2>1. CASE MarkShortFailed(x) \/ RenderDies(x)
        BY <1>0, <2>1, RenderEnded DEF MarkShortFailed, RenderDies
  <2>2. CASE MarkRendering(x)
    <3>1. PICK at \in {"rendering", "resuming"} : render' = [render EXCEPT ![x].at = at]
          BY <2>2 DEF MarkRendering
    <3> QED BY <1>0, <3>1, RenderMoved
  <2>3. CASE Resume(x)
    <3>1. PICK at \in {"rendering", "reused"} : render' = [render EXCEPT ![x].at = at]
          BY <2>3 DEF Resume
    <3> QED BY <1>0, <3>1, RenderMoved
  <2>4. CASE FinishRender(x)
    <3>1. PICK at \in {"probing", "done"} : render' = [render EXCEPT ![x].at = at]
          BY <2>4 DEF FinishRender
    <3> QED BY <1>0, <3>1, RenderMoved
  <2>5. CASE FailRender(x)
        BY <1>0, <2>5, RenderMoved DEF FailRender
  <2> QED BY <2>1, <2>2, <2>3, <2>4, <2>5
<1>3. ShortFormTypeOK'
      BY <1>0, <1>1, <1>2 DEF ShortInv, ShortFormTypeOK, SameShorts
<1> QED BY <1>0, <1>1, <1>2, <1>3, ShortsOnlyInv

\* A job that begins or ends a render.
LEMMA RenderJobSteps ==
  ASSUME ShortInv, NEW x \in Renders,
         EndShortRender(x) \/ \E k \in Clicks : StartRender(x, k)
  PROVE  ShortInv'
<1>0. /\ UNCHANGED <<batch, short, videos, due, analysis, ranking, died, opened, editable>>
      /\ click \in [Clicks -> RenderJob \cup {Nothing}] /\ render \in [Renders -> RenderRun \cup {Nothing}]
      BY DEF EndShortRender, StartRender, ShortInv, ShortFormTypeOK
<1>1. SameShorts /\ OneVideoPerShort'
      BY <1>0 DEF SameShorts, ShortInv, ShortFormTypeOK, OneVideoPerShort, Exists
<1>2. PICK k \in Clicks, n \in 0..Tries :
        /\ click[k] # Nothing /\ click' = [click EXCEPT ![k].left = n]
        /\ \/ render' = [render EXCEPT ![x] = Nothing]
           \/ \E at \in {"begun", "resumed"} : render' = [render EXCEPT ![x] = [click |-> k, at |-> at]]
  <2>1. CASE EndShortRender(x)
    <3>1. render[x] \in RenderRun /\ click[render[x].click] # Nothing
          BY <2>1, Typed DEF EndShortRender, ShortInv, HaveRows
    <3>2. render[x].click \in Clicks /\ 0 \in 0..Tries
          BY <3>1 DEF RenderRun
    <3> QED BY <2>1, <3>1, <3>2 DEF EndShortRender
  <2>2. ASSUME NEW k \in Clicks, StartRender(x, k)
        PROVE  \E n \in 0..Tries :
                 /\ click[k] # Nothing /\ click' = [click EXCEPT ![k].left = n]
                 /\ \/ render' = [render EXCEPT ![x] = Nothing]
                    \/ \E at \in {"begun", "resumed"} :
                         render' = [render EXCEPT ![x] = [click |-> k, at |-> at]]
    <3>1. click[k] # Nothing /\ click[k].left > 0 /\ click[k] \in RenderJob
          BY <2>2, Typed DEF StartRender
    <3>2. click[k].left - 1 \in 0..Tries /\ 0 \in 0..Tries
          BY <3>1 DEF RenderJob
    <3>3. PICK n \in {0, click[k].left - 1} : click' = [click EXCEPT ![k].left = n]
          BY <2>2 DEF StartRender
    <3>4. \/ render' = [render EXCEPT ![x] = Nothing]
          \/ \E at \in {"begun", "resumed"} : render' = [render EXCEPT ![x] = [click |-> k, at |-> at]]
          BY <2>2 DEF StartRender
    <3> QED BY <3>1, <3>2, <3>3, <3>4
  <2> QED BY <2>1, <2>2
<1> DEFINE job == [click[k] EXCEPT !.left = n]
<1>3. job \in RenderJob /\ click' = [click EXCEPT ![k] = job]
      BY <1>0, <1>2, Typed DEF RenderJob
<1> HIDE DEF job
<1>4. click' \in [Clicks -> RenderJob \cup {Nothing}]
      /\ \A l \in Clicks : click[l] # Nothing => click'[l] # Nothing
      BY <1>0, <1>2, <1>3
<1>5. CASE render' = [render EXCEPT ![x] = Nothing]
  <2>1. /\ render' \in [Renders -> RenderRun \cup {Nothing}]
        /\ \A y \in Renders : render'[y] # Nothing => render'[y] = render[y]
        BY <1>0, <1>5
  <2>2. \A y \in Renders : render'[y] # Nothing => click'[render'[y].click] # Nothing
    <3> SUFFICES ASSUME NEW y \in Renders, render'[y] # Nothing
                 PROVE  click'[render'[y].click] # Nothing
        OBVIOUS
    <3>1. render[y].click \in Clicks /\ click[render[y].click] # Nothing
          BY <2>1, Typed DEF ShortInv, HaveRows, RenderRun
    <3> QED BY <1>4, <2>1, <3>1
  <2>3. ShortFormTypeOK'
        BY <1>0, <1>4, <2>1 DEF ShortInv, ShortFormTypeOK
  <2> QED BY <1>0, <1>1, <2>2, <2>3, ShortsOnlyInv
<1>6. ASSUME NEW at \in {"begun", "resumed"}, render' = [render EXCEPT ![x] = [click |-> k, at |-> at]]
      PROVE  ShortInv'
  <2> DEFINE new == [click |-> k, at |-> at]
  <2>0. new \in RenderRun /\ new.click = k
        BY DEF RenderRun
  <2> HIDE DEF new
  <2>1. /\ render' \in [Renders -> RenderRun \cup {Nothing}] /\ render'[x] = new
        /\ \A y \in Renders \ {x} : render'[y] = render[y]
        BY <1>0, <1>6, <2>0 DEF new
  <2>2. \A y \in Renders : render'[y] # Nothing => click'[render'[y].click] # Nothing
    <3> SUFFICES ASSUME NEW y \in Renders, render'[y] # Nothing
                 PROVE  click'[render'[y].click] # Nothing
        OBVIOUS
    <3>1. CASE y = x
          BY <1>2, <1>4, <2>0, <2>1, <3>1
    <3>2. CASE y # x
      <4>1. render[y].click \in Clicks /\ click[render[y].click] # Nothing
            BY <2>1, <3>2, Typed DEF ShortInv, HaveRows, RenderRun
      <4> QED BY <1>4, <2>1, <3>2, <4>1
    <3> QED BY <3>1, <3>2
  <2>3. ShortFormTypeOK'
        BY <1>0, <1>4, <2>1 DEF ShortInv, ShortFormTypeOK
  <2> QED BY <1>0, <1>1, <2>2, <2>3, ShortsOnlyInv
<1> QED BY <1>2, <1>5, <1>6

LEMMA LinkStep ==
  ASSUME ShortInv, NEW x \in Renders, LinkOutput(x)
  PROVE  ShortInv'
<1> DEFINE c == ShortOf(x)
<1>0. /\ render[x] # Nothing /\ c \in Shorts
      /\ UNCHANGED <<batch, due, analysis, ranking, died, opened, editable, click>>
      BY Typed DEF LinkOutput
<1>1. /\ render' \in [Renders -> RenderRun \cup {Nothing}]
      /\ \A y \in Renders : render'[y] # Nothing => click'[render'[y].click] # Nothing
  <2>1. PICK at \in {"linked", "failing"} : render' = [render EXCEPT ![x].at = at]
        BY DEF LinkOutput
  <2> QED BY <1>0, <2>1, RenderMoved
<1> HIDE DEF c
<1>2. CASE ~MayLink(c)
  <2>1. UNCHANGED <<short, videos>>
        BY <1>2 DEF LinkOutput, c
  <2>2. SameShorts /\ OneVideoPerShort' /\ ShortFormTypeOK'
        BY <1>0, <1>1, <2>1 DEF SameShorts, ShortInv, ShortFormTypeOK, OneVideoPerShort, Exists
  <2> QED BY <1>0, <1>1, <2>2, ShortsOnlyInv
<1>3. CASE MayLink(c)
  <2>1. short' = [short EXCEPT ![c].output = TRUE] /\ videos' = [videos EXCEPT ![c] = @ + 1]
        BY <1>3 DEF LinkOutput, c
  <2>2. Exists(c) /\ ~short[c].output /\ short[c] \in Candidate /\ videos[c] = 0
        BY <1>0, <1>3, Typed DEF MayLink, ShortInv, OneVideoPerShort
  <2> DEFINE new == [short[c] EXCEPT !.output = TRUE]
  <2>3. new \in Candidate /\ new.output = TRUE /\ new.batch = short[c].batch
        BY <2>2 DEF Candidate
  <2>4. short' = [short EXCEPT ![c] = new]
        BY <2>1
  <2> HIDE DEF new
  <2>5. /\ short' \in [Shorts -> Candidate \cup {Nothing, Deleted}] /\ short'[c] = new
        /\ \A d \in Shorts \ {c} : short'[d] = short[d]
        BY <1>0, <2>3, <2>4 DEF ShortInv, ShortFormTypeOK
  <2>6. /\ videos' \in [Shorts -> Nat] /\ videos'[c] = 1
        /\ \A d \in Shorts \ {c} : videos'[d] = videos[d]
        BY <1>0, <2>1, <2>2 DEF ShortInv, ShortFormTypeOK
  <2>7. SameShorts
        BY <2>2, <2>3, <2>5 DEF SameShorts, Exists
  <2>8. OneVideoPerShort'
        BY <2>3, <2>5, <2>6 DEF ShortInv, OneVideoPerShort, Exists
  <2>9. ShortFormTypeOK'
        BY <1>0, <1>1, <2>5, <2>6 DEF ShortInv, ShortFormTypeOK
  <2> QED BY <1>0, <1>1, <2>7, <2>8, <2>9, ShortsOnlyInv
<1> QED BY <1>2, <1>3

LEMMA EditorSteps ==
  ASSUME ShortInv,
         \/ \E b \in Batches : FindReady(b)
         \/ \E c \in Shorts : FindEditable(c)
         \/ \E c \in Shorts, k \in Clicks : Approve(k, c)
         \/ \E c \in Shorts, status \in {"PROPOSED", "REJECTED"} : Edit(c, status)
  PROVE  ShortInv'
<1>0. /\ UNCHANGED <<batch, videos, due, analysis, ranking, died, render>>
      /\ opened' \subseteq Batches /\ editable' \subseteq Shorts
      BY DEF FindReady, FindEditable, Approve, Edit, ShortInv, ShortFormTypeOK
<1>1. SameShorts /\ OneVideoPerShort'
  <2>1. CASE UNCHANGED short
        BY <1>0, <2>1 DEF SameShorts, ShortInv, ShortFormTypeOK, OneVideoPerShort, Exists
  <2>2. CASE \E c \in Shorts, status \in {"PROPOSED", "REJECTED", "APPROVED"} : SetShort(c, status)
        BY <1>0, <2>2, StatusOnly
  <2> QED BY <2>1, <2>2 DEF FindReady, FindEditable, Approve, Edit, SetShort
<1>2. /\ click' \in [Clicks -> RenderJob \cup {Nothing}]
      /\ \A k \in Clicks : click[k] # Nothing => click'[k] # Nothing
  <2>1. CASE UNCHANGED click
        BY <2>1 DEF ShortInv, ShortFormTypeOK
  <2>2. ASSUME NEW c \in Shorts, NEW k \in Clicks, Approve(k, c)
        PROVE  /\ click' \in [Clicks -> RenderJob \cup {Nothing}]
               /\ \A l \in Clicks : click[l] # Nothing => click'[l] # Nothing
    <3> DEFINE new == [short |-> c, left |-> Tries]
    <3>1. new \in RenderJob
          BY DEF RenderJob
    <3>2. click' = [click EXCEPT ![k] = new]
          BY <2>2 DEF Approve
    <3> HIDE DEF new
    <3> QED BY <3>1, <3>2 DEF ShortInv, ShortFormTypeOK
  <2> QED BY <2>1, <2>2 DEF FindReady, FindEditable, Edit
<1>3. \A x \in Renders : render[x] # Nothing => click'[render[x].click] # Nothing
  <2> SUFFICES ASSUME NEW x \in Renders, render[x] # Nothing PROVE click'[render[x].click] # Nothing
      OBVIOUS
  <2>1. render[x].click \in Clicks /\ click[render[x].click] # Nothing
        BY Typed DEF ShortInv, HaveRows, RenderRun
  <2> QED BY <1>2, <2>1
<1>4. ShortFormTypeOK'
      BY <1>0, <1>1, <1>2 DEF ShortInv, ShortFormTypeOK, SameShorts
<1> QED BY <1>0, <1>1, <1>3, <1>4, ShortsOnlyInv

LEMMA DeleteVideoStep ==
  ASSUME ShortInv, NEW c \in Shorts, DeleteVideo(c)
  PROVE  ShortInv'
<1>0. /\ Exists(c) /\ short' = [short EXCEPT ![c].output = FALSE]
      /\ videos' = [videos EXCEPT ![c] = 0]
      /\ UNCHANGED <<batch, due, analysis, ranking, died, opened, editable, click>>
      BY DEF DeleteVideo
<1> DEFINE new == [short[c] EXCEPT !.output = FALSE]
<1>1. new \in Candidate /\ new.output = FALSE /\ new.batch = short[c].batch /\ short[c] \in Candidate
      BY <1>0, Typed DEF Candidate
<1> HIDE DEF new
<1>2. /\ short' \in [Shorts -> Candidate \cup {Nothing, Deleted}] /\ short'[c] = new
      /\ \A d \in Shorts \ {c} : short'[d] = short[d]
      BY <1>0, <1>1 DEF new, ShortInv, ShortFormTypeOK
<1>3. /\ videos' \in [Shorts -> Nat] /\ videos'[c] = 0
      /\ \A d \in Shorts \ {c} : videos'[d] = videos[d]
      BY <1>0 DEF ShortInv, ShortFormTypeOK
<1>4. SameShorts
      BY <1>0, <1>1, <1>2 DEF SameShorts, Exists
<1>5. OneVideoPerShort'
      BY <1>1, <1>2, <1>3 DEF ShortInv, OneVideoPerShort, Exists
<1>6. render' \in [Renders -> RenderRun \cup {Nothing}]
      /\ \A x \in Renders :
           render'[x] # Nothing => render[x] # Nothing /\ render'[x].click = render[x].click
  <2>1. \A x \in Renders :
          \/ render'[x] = render[x]
          \/ render[x] # Nothing /\ render'[x] = [render[x] EXCEPT !.at = "failing"]
        BY DEF DeleteVideo
  <2>2. \A x \in Renders :
          render[x] # Nothing => /\ [render[x] EXCEPT !.at = "failing"] \in RenderRun
                                 /\ [render[x] EXCEPT !.at = "failing"].click = render[x].click
        BY Typed DEF RenderRun
  <2>3. render' = [x \in Renders |-> render'[x]]
        BY DEF DeleteVideo
  <2>4. \A x \in Renders : render'[x] \in RenderRun \cup {Nothing}
        BY <2>1, <2>2 DEF ShortInv, ShortFormTypeOK
  <2> QED BY <2>1, <2>2, <2>3, <2>4
<1>7. \A x \in Renders : render'[x] # Nothing => click'[render'[x].click] # Nothing
      BY <1>0, <1>6 DEF ShortInv, HaveRows
<1>8. ShortFormTypeOK'
      BY <1>0, <1>2, <1>3, <1>6 DEF ShortInv, ShortFormTypeOK
<1> QED BY <1>0, <1>4, <1>5, <1>7, <1>8, ShortsOnlyInv

-----------------------------------------------------------------------------
(* The batches' own steps: no candidate is touched.                        *)

SameCandidates == UNCHANGED <<short, videos, opened, editable, click, render>>

\* What such a step has to show.
LEMMA BatchesOnlyInv ==
  ASSUME ShortInv, SameCandidates,
         batch' \in [Batches -> BatchRow \cup {Nothing}], due' \in [Batches -> 0..Tries],
         analysis' \in [Analyses -> Analysis \cup {Nothing}],
         ranking' \in [Rankings -> Ranking \cup {Nothing}], died' \subseteq Batches,
         \A b \in Batches : batch[b] # Nothing => batch'[b] # Nothing,
         \A a \in Analyses :
           analysis'[a] # Nothing =>
             /\ batch'[analysis'[a].batch] # Nothing
             /\ analysis'[a].at = "done" =>
                  analysis[a] # Nothing /\ analysis[a].at = "done" /\ analysis'[a].batch = analysis[a].batch,
         \A r \in Rankings :
           ranking'[r] # Nothing => ranking[r] # Nothing /\ ranking'[r].batch = ranking[r].batch,
         \A b \in Batches : due'[b] > 0 => batch'[b] # Nothing,
         OneActive', OwnInHand'
  PROVE  ShortInv'
<1>1. ShortFormTypeOK' /\ OneVideoPerShort'
      BY DEF ShortInv, ShortFormTypeOK, OneVideoPerShort, Exists, SameCandidates
<1>2. \A r \in Rankings : ranking'[r] # Nothing => batch'[ranking'[r].batch] # Nothing
  <2> SUFFICES ASSUME NEW r \in Rankings, ranking'[r] # Nothing
               PROVE  batch'[ranking'[r].batch] # Nothing
      OBVIOUS
  <2>1. ranking[r] # Nothing /\ ranking'[r].batch = ranking[r].batch /\ ranking[r].batch \in Batches
        BY Typed DEF Ranking
  <2> QED BY <2>1 DEF ShortInv, HaveRows
<1>3. \A c \in Shorts : Exists(c) => batch'[short[c].batch] # Nothing
  <2> SUFFICES ASSUME NEW c \in Shorts, Exists(c) PROVE batch'[short[c].batch] # Nothing
      OBVIOUS
  <2>1. short[c].batch \in Batches
        BY Typed DEF Candidate
  <2> QED BY <2>1 DEF ShortInv, HaveRows
<1>4. HaveRows'
      BY <1>2, <1>3 DEF ShortInv, HaveRows, Exists, SameCandidates
<1> QED BY <1>1, <1>4 DEF ShortInv

LEMMA CreateBatchStep ==
  ASSUME ShortInv, NEW b \in Batches, CreateBatch(b)
  PROVE  ShortInv'
<1> DEFINE new == [status |-> "PENDING", run |-> Nothing]
<1>0. /\ batch[b] = Nothing /\ ~OthersActive(b) /\ SameCandidates
      /\ batch' = [batch EXCEPT ![b] = new] /\ due' = [due EXCEPT ![b] = Tries]
      /\ UNCHANGED <<analysis, ranking, died>>
      BY DEF CreateBatch, SameCandidates
<1>1. new \in BatchRow /\ new.status = "PENDING"
      BY DEF BatchRow, Active
<1> HIDE DEF new
<1>2. /\ batch' \in [Batches -> BatchRow \cup {Nothing}] /\ batch'[b] = new
      /\ \A d \in Batches \ {b} : batch'[d] = batch[d]
      BY <1>0, <1>1 DEF ShortInv, ShortFormTypeOK
<1>3. /\ due' \in [Batches -> 0..Tries] /\ due'[b] = Tries
      /\ \A d \in Batches \ {b} : due'[d] = due[d]
      BY <1>0 DEF ShortInv, ShortFormTypeOK
<1>4. ShortsOf(b) = {}
      BY <1>0 DEF ShortInv, HaveRows, ShortsOf
<1>5. OneActive'
      BY <1>0, <1>2 DEF ShortInv, OneActive, IsActive, OthersActive
<1>6. OwnInHand'
  <2> SUFFICES ASSUME NEW d \in Batches, IsActive(d)', OnItsOwn(d)' PROVE InHand(d)'
      BY DEF OwnInHand
  <2>1. d # b
        BY <1>0, <1>3, <1>4 DEF OnItsOwn, ShortsOf, Exists, SameCandidates
  <2>2. IsActive(d) /\ OnItsOwn(d)
        BY <1>0, <1>2, <1>3, <2>1 DEF IsActive, OnItsOwn, ShortsOf, Exists, SameCandidates
  <2>3. InHand(d)
        BY <2>2 DEF ShortInv, OwnInHand
  <2> QED BY <1>0, <1>2, <2>1, <2>3 DEF InHand, Analysing, RankedBy
<1>7. \A d \in Batches : (batch[d] # Nothing => batch'[d] # Nothing) /\ (due'[d] > 0 => batch'[d] # Nothing)
      BY <1>1, <1>2, <1>3 DEF ShortInv, HaveRows
<1>8. \A a \in Analyses : analysis[a] # Nothing => batch'[analysis[a].batch] # Nothing
  <2> SUFFICES ASSUME NEW a \in Analyses, analysis[a] # Nothing PROVE batch'[analysis[a].batch] # Nothing
      OBVIOUS
  <2>1. analysis[a].batch \in Batches
        BY Typed DEF Analysis
  <2> QED BY <1>7, <2>1 DEF ShortInv, HaveRows
<1>9. /\ analysis' \in [Analyses -> Analysis \cup {Nothing}] /\ died' \subseteq Batches
      /\ ranking' \in [Rankings -> Ranking \cup {Nothing}]
      BY <1>0 DEF ShortInv, ShortFormTypeOK
<1> QED BY <1>0, <1>2, <1>3, <1>5, <1>6, <1>7, <1>8, <1>9, BatchesOnlyInv

LEMMA StartAnalysisStep ==
  ASSUME ShortInv, NEW a \in Analyses, NEW b \in Batches, StartAnalysis(a, b)
  PROVE  ShortInv'
<1> DEFINE new == [batch |-> b, at |-> "begun"]
<1>0. /\ analysis[a] = Nothing /\ due[b] > 0 /\ SameCandidates /\ UNCHANGED <<batch, ranking, died>>
      /\ \/ ShortsOf(b) # {} /\ due' = [due EXCEPT ![b] = 0] /\ UNCHANGED analysis
         \/ due' = [due EXCEPT ![b] = due[b] - 1] /\ analysis' = [analysis EXCEPT ![a] = new]
      BY DEF StartAnalysis, SameCandidates
<1>1. new \in Analysis /\ new.batch = b /\ new.at = "begun"
      BY DEF Analysis
<1> HIDE DEF new
<1>2. PICK n \in 0..Tries : due' = [due EXCEPT ![b] = n]
      BY <1>0 DEF ShortInv, ShortFormTypeOK
<1>3. /\ due' \in [Batches -> 0..Tries] /\ \A d \in Batches \ {b} : due'[d] = due[d]
      /\ batch[b] # Nothing
      BY <1>0, <1>2 DEF ShortInv, ShortFormTypeOK, HaveRows
<1>4. /\ analysis' \in [Analyses -> Analysis \cup {Nothing}]
      /\ \A e \in Analyses \ {a} : analysis'[e] = analysis[e]
      /\ analysis'[a] \in {Nothing, new}
      BY <1>0, <1>1 DEF ShortInv, ShortFormTypeOK
<1>5. OneActive'
      BY <1>0 DEF ShortInv, OneActive, IsActive
<1>6. OwnInHand'
  <2> SUFFICES ASSUME NEW d \in Batches, IsActive(d)', OnItsOwn(d)' PROVE InHand(d)'
      BY DEF OwnInHand
  <2>1. CASE OnItsOwn(d)
    <3>1. InHand(d)
          BY <1>0, <2>1 DEF ShortInv, OwnInHand, IsActive
    <3> QED BY <1>0, <1>4, <3>1 DEF InHand, Analysing, RankedBy
  <2>2. CASE ~OnItsOwn(d)
    <3>1. d = b /\ ShortsOf(b) = {}
          BY <1>0, <1>3, <2>2 DEF OnItsOwn, ShortsOf, Exists, SameCandidates
    <3>2. analysis' = [analysis EXCEPT ![a] = new]
          BY <1>0, <3>1
    <3>3. analysis'[a] = new
          BY <3>2 DEF ShortInv, ShortFormTypeOK
    <3> QED BY <1>1, <3>1, <3>3 DEF InHand, Analysing
  <2> QED BY <2>1, <2>2
<1>7. \A e \in Analyses :
        analysis'[e] # Nothing =>
          /\ batch'[analysis'[e].batch] # Nothing
          /\ analysis'[e].at = "done" =>
               analysis[e] # Nothing /\ analysis[e].at = "done" /\ analysis'[e].batch = analysis[e].batch
      BY <1>0, <1>1, <1>3, <1>4 DEF ShortInv, HaveRows
<1>8. /\ \A d \in Batches : due'[d] > 0 => batch'[d] # Nothing
      /\ ranking' \in [Rankings -> Ranking \cup {Nothing}] /\ died' \subseteq Batches
      /\ batch' \in [Batches -> BatchRow \cup {Nothing}]
      BY <1>0, <1>3 DEF ShortInv, ShortFormTypeOK, HaveRows
<1> QED BY <1>0, <1>3, <1>4, <1>5, <1>6, <1>7, <1>8, BatchesOnlyInv

\* A run of an analysis that moves on, and may write its batch's status.
LEMMA AnalysisGoesOn ==
  ASSUME ShortInv, NEW a \in Analyses, analysis[a] # Nothing, SameCandidates,
         NEW at \in {"analyzing", "planned", "failing"}, analysis[a].at # "done",
         analysis' = [analysis EXCEPT ![a].at = at],
         UNCHANGED batch \/ (~OthersActive(analysis[a].batch) /\
                             \E status \in Active : SetBatch(analysis[a].batch, status)),
         UNCHANGED <<due, ranking, died>>
  PROVE  ShortInv'
<1> DEFINE b == analysis[a].batch
<1>1. b \in Batches /\ batch[b] # Nothing
      BY Typed DEF Analysis, ShortInv, HaveRows
<1>2. /\ analysis' \in [Analyses -> Analysis \cup {Nothing}]
      /\ analysis'[a] # Nothing /\ analysis'[a].batch = b /\ analysis'[a].at = at
      /\ \A d \in Analyses \ {a} : analysis'[d] = analysis[d]
      BY AnalysisMoved
<1> HIDE DEF b
<1>3. /\ batch' \in [Batches -> BatchRow \cup {Nothing}] /\ batch'[b] # Nothing
      /\ batch'[b].run = batch[b].run
      /\ \A d \in Batches \ {b} : batch'[d] = batch[d]
      BY <1>1, StatusWritten DEF b, ShortInv, ShortFormTypeOK
<1>4. OneActive'
  <2>1. CASE UNCHANGED batch
        BY <2>1 DEF ShortInv, OneActive, IsActive
  <2>2. CASE ~OthersActive(b)
        BY <1>3, <2>2 DEF OneActive, IsActive, OthersActive
  <2> QED BY <2>1, <2>2 DEF b
<1>5. OwnInHand'
  <2> SUFFICES ASSUME NEW d \in Batches, IsActive(d)', OnItsOwn(d)' PROVE InHand(d)'
      BY DEF OwnInHand
  <2>1. CASE d = b
        BY <1>2, <2>1 DEF InHand, Analysing
  <2>2. CASE d # b
    <3>1. InHand(d)
          BY <1>3, <2>2 DEF ShortInv, OwnInHand, IsActive, OnItsOwn, ShortsOf, Exists, SameCandidates
    <3> QED BY <1>2, <1>3, <2>2, <3>1 DEF InHand, Analysing, RankedBy
  <2> QED BY <2>1, <2>2
<1>6. \A d \in Batches : (batch[d] # Nothing => batch'[d] # Nothing) /\ (due'[d] > 0 => batch'[d] # Nothing)
      BY <1>3 DEF ShortInv, HaveRows
<1>7. \A e \in Analyses :
        analysis'[e] # Nothing =>
          /\ batch'[analysis'[e].batch] # Nothing
          /\ analysis'[e].at = "done" =>
               analysis[e] # Nothing /\ analysis[e].at = "done" /\ analysis'[e].batch = analysis[e].batch
  <2> SUFFICES ASSUME NEW e \in Analyses, e # a, analysis[e] # Nothing
               PROVE  batch'[analysis[e].batch] # Nothing
      BY <1>2, <1>3
  <2>1. analysis[e].batch \in Batches
        BY Typed DEF Analysis
  <2> QED BY <1>6, <2>1 DEF ShortInv, HaveRows
<1>8. /\ due' \in [Batches -> 0..Tries] /\ died' \subseteq Batches
      /\ ranking' \in [Rankings -> Ranking \cup {Nothing}]
      BY DEF ShortInv, ShortFormTypeOK
<1> QED BY <1>2, <1>3, <1>4, <1>5, <1>6, <1>7, <1>8, BatchesOnlyInv

\* A run of an analysis that ends.
LEMMA AnalysisEnds ==
  ASSUME ShortInv, NEW a \in Analyses, NEW b \in Batches, analysis[a] # Nothing, b = analysis[a].batch,
         SameCandidates, analysis' = [analysis EXCEPT ![a] = Nothing],
         UNCHANGED batch \/ SetBatch(b, "FAILED"),
         UNCHANGED due \/ (analysis[a].at = "done" /\ due' = [due EXCEPT ![b] = 0]),
         died \subseteq died', died' \subseteq Batches, UNCHANGED ranking,
         \/ analysis[a].at = "done"
         \/ ~IsActive(b)' \/ b \in died'
         \/ UNCHANGED due /\ ~OnItsOwn(b)
  PROVE  ShortInv'
<1>1. /\ batch[b] # Nothing
      /\ analysis[a].at = "done" => ShortsOf(b) # {}
      BY Typed DEF Analysis, ShortInv, HaveRows, ShortsOf
<1>2. /\ analysis' \in [Analyses -> Analysis \cup {Nothing}] /\ analysis'[a] = Nothing
      /\ \A d \in Analyses \ {a} : analysis'[d] = analysis[d]
      BY DEF ShortInv, ShortFormTypeOK
<1>3. /\ batch' \in [Batches -> BatchRow \cup {Nothing}] /\ batch'[b] # Nothing
      /\ batch'[b].run = batch[b].run
      /\ batch'[b].status \in {batch[b].status, "FAILED"}
      /\ \A d \in Batches \ {b} : batch'[d] = batch[d]
      BY <1>1, StatusWritten DEF ShortInv, ShortFormTypeOK
<1>4. \A d \in Batches : IsActive(d)' => IsActive(d)
      BY <1>1, <1>3 DEF IsActive, Active
<1>5. OneActive'
      BY <1>4 DEF ShortInv, OneActive
<1>6. /\ due' \in [Batches -> 0..Tries] /\ \A d \in Batches \ {b} : due'[d] = due[d]
      /\ due'[b] \in {due[b], 0}
      BY <1>1 DEF ShortInv, ShortFormTypeOK
<1>7. \A d \in Batches : OnItsOwn(d)' => OnItsOwn(d)
  <2> SUFFICES ASSUME NEW d \in Batches, OnItsOwn(d)' PROVE OnItsOwn(d)
      OBVIOUS
  <2>1. ShortsOf(d)' = ShortsOf(d)
        BY DEF ShortsOf, Exists, SameCandidates
  <2>2. CASE UNCHANGED due
        BY <2>1, <2>2 DEF OnItsOwn
  <2>3. CASE analysis[a].at = "done"
        BY <1>1, <1>6, <2>1, <2>3 DEF OnItsOwn
  <2> QED BY <2>2, <2>3
<1>8. OwnInHand'
  <2> SUFFICES ASSUME NEW d \in Batches, IsActive(d)', OnItsOwn(d)' PROVE InHand(d)'
      BY DEF OwnInHand
  <2>1. InHand(d)
        BY <1>4, <1>7 DEF ShortInv, OwnInHand
  <2>2. CASE d # b \/ analysis[a].at = "done"
    <3>1. CASE d \in died
          BY <3>1 DEF InHand
    <3>2. CASE Analysing(d)
      <4>1. PICK e \in Analyses : analysis[e] # Nothing /\ analysis[e].batch = d /\ analysis[e].at # "done"
            BY <3>2 DEF Analysing
      <4>2. e # a
            BY <2>2, <4>1
      <4> QED BY <1>2, <4>1, <4>2 DEF InHand, Analysing
    <3>3. CASE \E r \in Rankings : RankedBy(d, r)
      <4>1. batch'[d].run = batch[d].run
            BY <1>3
      <4> QED BY <3>3, <4>1 DEF InHand, RankedBy
    <3> QED BY <2>1, <3>1, <3>2, <3>3 DEF InHand
  <2>3. CASE d = b /\ d \in died'
        BY <2>3 DEF InHand
  <2>4. CASE d = b /\ ~OnItsOwn(b)
        BY <1>7, <2>4
  <2>5. CASE d = b /\ ~IsActive(b)'
        BY <2>5
  <2> QED BY <2>2, <2>3, <2>4, <2>5
<1>9. \A d \in Batches : (batch[d] # Nothing => batch'[d] # Nothing) /\ (due'[d] > 0 => batch'[d] # Nothing)
      BY <1>3, <1>6 DEF ShortInv, HaveRows
<1>10. \A e \in Analyses :
        analysis'[e] # Nothing =>
          /\ batch'[analysis'[e].batch] # Nothing
          /\ analysis'[e].at = "done" =>
               analysis[e] # Nothing /\ analysis[e].at = "done" /\ analysis'[e].batch = analysis[e].batch
  <2> SUFFICES ASSUME NEW e \in Analyses, e # a, analysis[e] # Nothing
               PROVE  batch'[analysis[e].batch] # Nothing
      BY <1>2
  <2>1. analysis[e].batch \in Batches
        BY Typed DEF Analysis
  <2> QED BY <1>9, <2>1 DEF ShortInv, HaveRows
<1>11. ranking' \in [Rankings -> Ranking \cup {Nothing}]
      BY DEF ShortInv, ShortFormTypeOK
<1> QED BY <1>2, <1>3, <1>5, <1>6, <1>8, <1>9, <1>10, <1>11, BatchesOnlyInv

LEMMA AnalysisSteps ==
  ASSUME ShortInv, NEW a \in Analyses,
         \/ MarkAnalyzing(a) \/ MarkRanking(a) \/ FailAnalysis(a) \/ RefusePlan(a)
         \/ EndAnalysis(a) \/ MarkFailed(a) \/ AnalysisDies(a)
  PROVE  ShortInv'
<1>0. PICK b \in Batches :
        /\ b = analysis[a].batch /\ analysis[a] # Nothing /\ batch[b] # Nothing
        /\ SameCandidates /\ UNCHANGED ranking /\ died \subseteq Batches
  <2>1. analysis[a] # Nothing
        BY DEF MarkAnalyzing, MarkRanking, FailAnalysis, RefusePlan, EndAnalysis, MarkFailed, AnalysisDies
  <2>2. SameCandidates /\ UNCHANGED ranking
        BY DEF MarkAnalyzing, MarkRanking, FailAnalysis, RefusePlan, EndAnalysis, MarkFailed,
               AnalysisDies, SameCandidates
  <2> QED BY <2>1, <2>2, Typed DEF Analysis, ShortInv, ShortFormTypeOK, HaveRows
<1>1. CASE MarkAnalyzing(a)
  <2>1. UNCHANGED <<due, died>> /\ analysis[a].at # "done"
        BY <1>0, <1>1 DEF MarkAnalyzing
  <2>2. CASE OthersActive(b)
    <3>1. analysis' = [analysis EXCEPT ![a] = Nothing] /\ UNCHANGED batch
          BY <1>0, <1>1, <2>2 DEF MarkAnalyzing
    <3>2. ~IsActive(b)
          BY <1>0, <2>2 DEF OthersActive, ShortInv, OneActive
    <3>3. ~IsActive(b)'
          BY <3>1, <3>2 DEF IsActive
    <3> QED BY <1>0, <2>1, <3>1, <3>3, AnalysisEnds
  <2>3. CASE ~OthersActive(b)
    <3>1. analysis' = [analysis EXCEPT ![a].at = "analyzing"] /\ SetBatch(b, "ANALYZING")
          BY <1>0, <1>1, <2>3 DEF MarkAnalyzing
    <3> QED BY <1>0, <2>1, <2>3, <3>1, AnalysisGoesOn DEF Active
  <2> QED BY <2>2, <2>3
<1>2. CASE MarkRanking(a)
  <2>1. UNCHANGED <<due, died>> /\ analysis[a].at # "done"
        BY <1>0, <1>2 DEF MarkRanking
  <2>2. CASE OthersActive(b)
    <3>1. analysis' = [analysis EXCEPT ![a].at = "failing"] /\ UNCHANGED batch
          BY <1>0, <1>2, <2>2 DEF MarkRanking
    <3> QED BY <1>0, <2>1, <3>1, AnalysisGoesOn
  <2>3. CASE ~OthersActive(b)
    <3>1. analysis' = [analysis EXCEPT ![a].at = "planned"] /\ SetBatch(b, "RANKING")
          BY <1>0, <1>2, <2>3 DEF MarkRanking
    <3> QED BY <1>0, <2>1, <2>3, <3>1, AnalysisGoesOn DEF Active
  <2> QED BY <2>2, <2>3
<1>3. CASE FailAnalysis(a) \/ RefusePlan(a)
  <2>1. /\ UNCHANGED <<batch, due, died>> /\ analysis[a].at # "done"
        /\ analysis' = [analysis EXCEPT ![a].at = "failing"]
        BY <1>0, <1>3 DEF FailAnalysis, RefusePlan
  <2> QED BY <1>0, <2>1, AnalysisGoesOn
<1>4. CASE EndAnalysis(a)
  <2>1. /\ analysis[a].at = "done" /\ analysis' = [analysis EXCEPT ![a] = Nothing]
        /\ due' = [due EXCEPT ![b] = 0] /\ UNCHANGED <<batch, died>>
        BY <1>0, <1>4 DEF EndAnalysis
  <2> QED BY <1>0, <2>1, AnalysisEnds
<1>5. CASE MarkFailed(a)
  <2>1. /\ SetBatch(b, "FAILED") /\ analysis' = [analysis EXCEPT ![a] = Nothing]
        /\ UNCHANGED <<due, died>>
        BY <1>0, <1>5 DEF MarkFailed
  <2>2. ~IsActive(b)'
        BY <1>0, <2>1, StatusWritten DEF IsActive, Active
  <2> QED BY <1>0, <2>1, <2>2, AnalysisEnds
<1>6. CASE AnalysisDies(a)
  <2>1. /\ analysis' = [analysis EXCEPT ![a] = Nothing] /\ UNCHANGED <<batch, due>>
        /\ died' = IF due[b] = 0 \/ (ShortsOf(b) # {} /\ analysis[a].at # "done")
                     THEN died \cup {b} ELSE died
        BY <1>0, <1>6 DEF AnalysisDies
  <2>2. died \subseteq died' /\ died' \subseteq Batches
        BY <1>0, <2>1
  <2>3. \/ analysis[a].at = "done" \/ b \in died' \/ ~OnItsOwn(b)
        BY <1>0, <2>1 DEF OnItsOwn
  <2> QED BY <1>0, <2>1, <2>2, <2>3, AnalysisEnds
<1> QED BY <1>1, <1>2, <1>3, <1>4, <1>5, <1>6

\* An agent run that moves on: its batch is settled, somebody's else, or still ranked.
LEMMA RankingGoesOn ==
  ASSUME ShortInv, NEW r \in Rankings, NEW b \in Batches, ranking[r] # Nothing, b = ranking[r].batch,
         SameCandidates, UNCHANGED <<due, analysis>>, died \subseteq died', died' \subseteq Batches,
         ranking' \in [Rankings -> Ranking \cup {Nothing}], ranking'[r] # Nothing, ranking'[r].batch = b,
         \A d \in Rankings \ {r} : ranking'[d] = ranking[d],
         UNCHANGED batch \/ SetBatch(b, "READY"),
         \/ ranking'[r].status # "over" \/ batch[b].run # r
         \/ ~IsActive(b)' \/ b \in died'
  PROVE  ShortInv'
<1>1. batch[b] # Nothing
      BY DEF ShortInv, HaveRows
<1>2. /\ batch' \in [Batches -> BatchRow \cup {Nothing}] /\ batch'[b] # Nothing
      /\ batch'[b].run = batch[b].run
      /\ batch'[b].status \in {batch[b].status, "READY"}
      /\ \A d \in Batches \ {b} : batch'[d] = batch[d]
      BY <1>1, StatusWritten DEF ShortInv, ShortFormTypeOK
<1>3. \A d \in Batches : IsActive(d)' => IsActive(d)
      BY <1>1, <1>2 DEF IsActive, Active
<1>4. OneActive'
      BY <1>3 DEF ShortInv, OneActive
<1>5. OwnInHand'
  <2> SUFFICES ASSUME NEW d \in Batches, IsActive(d)', OnItsOwn(d)' PROVE InHand(d)'
      BY DEF OwnInHand
  <2>1. InHand(d)
        BY <1>3 DEF ShortInv, OwnInHand, OnItsOwn, ShortsOf, Exists, SameCandidates
  <2>2. CASE d \in died \/ Analysing(d)
        BY <2>2 DEF InHand, Analysing
  <2>3. ASSUME NEW q \in Rankings, RankedBy(d, q) PROVE InHand(d)'
    <3>1. batch'[d].run = batch[d].run
          BY <1>2
    <3>2. CASE q # r
          BY <2>3, <3>1, <3>2 DEF InHand, RankedBy
    <3>3. CASE q = r
      <4>1. d = b /\ batch[b].run = r
            BY <2>3, <3>3 DEF RankedBy
      <4>2. CASE ranking'[r].status # "over"
        <5>1. RankedBy(d, r)'
              BY <3>1, <4>1, <4>2 DEF RankedBy
        <5> QED BY <5>1 DEF InHand
      <4>3. CASE ~IsActive(b)'
            BY <4>1, <4>3
      <4>4. CASE b \in died'
            BY <4>1, <4>4 DEF InHand
      <4> QED BY <4>1, <4>2, <4>3, <4>4
    <3> QED BY <3>2, <3>3
  <2> QED BY <2>1, <2>2, <2>3 DEF InHand
<1>6. \A d \in Batches : (batch[d] # Nothing => batch'[d] # Nothing) /\ (due'[d] > 0 => batch'[d] # Nothing)
      BY <1>2 DEF ShortInv, HaveRows
<1>7. \A e \in Analyses : analysis[e] # Nothing => batch'[analysis[e].batch] # Nothing
  <2> SUFFICES ASSUME NEW e \in Analyses, analysis[e] # Nothing PROVE batch'[analysis[e].batch] # Nothing
      OBVIOUS
  <2>1. analysis[e].batch \in Batches
        BY Typed DEF Analysis
  <2> QED BY <1>6, <2>1 DEF ShortInv, HaveRows
<1>8. due' \in [Batches -> 0..Tries] /\ analysis' \in [Analyses -> Analysis \cup {Nothing}]
      BY DEF ShortInv, ShortFormTypeOK
<1> QED BY <1>2, <1>4, <1>5, <1>6, <1>7, <1>8, BatchesOnlyInv

LEMMA RankingSteps ==
  ASSUME ShortInv, NEW r \in Rankings,
         \/ ClaimRanking(r) \/ LoadRanking(r) \/ CommitRanks(r) \/ FailRanking(r)
         \/ FindBatch(r) \/ ClearBatch(r) \/ RankerDies(r)
  PROVE  ShortInv'
<1>0. PICK b \in Batches :
        /\ b = ranking[r].batch /\ ranking[r] # Nothing /\ ranking[r] \in Ranking /\ batch[b] # Nothing
        /\ SameCandidates /\ UNCHANGED <<due, analysis>> /\ died \subseteq Batches
  <2>1. ranking[r] # Nothing
        BY DEF ClaimRanking, LoadRanking, CommitRanks, FailRanking, FindBatch, ClearBatch, RankerDies
  <2>2. SameCandidates /\ UNCHANGED <<due, analysis>>
        BY DEF ClaimRanking, LoadRanking, CommitRanks, FailRanking, FindBatch, ClearBatch, RankerDies,
               SameCandidates
  <2> QED BY <2>1, <2>2, Typed DEF Ranking, ShortInv, ShortFormTypeOK, HaveRows
<1>1. CASE ClaimRanking(r) \/ FailRanking(r)
  <2>1. PICK status \in {"RUNNING", "failing"} : ranking' = [ranking EXCEPT ![r].status = status]
        BY <1>0, <1>1 DEF ClaimRanking, FailRanking
  <2>2. UNCHANGED <<batch, died>>
        BY <1>0, <1>1 DEF ClaimRanking, FailRanking
  <2>3. /\ ranking' \in [Rankings -> Ranking \cup {Nothing}] /\ ranking'[r] # Nothing
        /\ ranking'[r].batch = b /\ ranking'[r].status # "over"
        /\ \A d \in Rankings \ {r} : ranking'[d] = ranking[d]
        BY <1>0, <2>1, RankingMoved
  <2> QED BY <1>0, <2>2, <2>3, RankingGoesOn
<1>2. CASE LoadRanking(r)
  <2> DEFINE new == IF batch[b].run = r
                      THEN [ranking[r] EXCEPT !.status = "loaded", !.saw = ShortsOf(b)]
                      ELSE [ranking[r] EXCEPT !.status = "failing"]
  <2>1. ranking' = [ranking EXCEPT ![r] = new] /\ UNCHANGED <<batch, died>>
        BY <1>0, <1>2 DEF LoadRanking
  <2>2. ShortsOf(b) \in SUBSET Shorts
        BY DEF ShortsOf
  <2>3. new \in Ranking /\ new.batch = b /\ new.status # "over"
        BY <1>0, <2>2 DEF Ranking
  <2> HIDE DEF new
  <2>4. /\ ranking' \in [Rankings -> Ranking \cup {Nothing}] /\ ranking'[r] # Nothing
        /\ ranking'[r].batch = b /\ ranking'[r].status # "over"
        /\ \A d \in Rankings \ {r} : ranking'[d] = ranking[d]
        BY <2>1, <2>3 DEF ShortInv, ShortFormTypeOK
  <2> QED BY <1>0, <2>1, <2>4, RankingGoesOn
<1>3. CASE FindBatch(r)
  <2>1. /\ ranking' = [ranking EXCEPT ![r].status = IF batch[b].run = r THEN "clearing" ELSE "over"]
        /\ UNCHANGED <<batch, died>>
        BY <1>0, <1>3 DEF FindBatch
  <2>2. PICK status \in {"clearing", "over"} :
          /\ ranking' = [ranking EXCEPT ![r].status = status]
          /\ status = "over" => batch[b].run # r
        BY <2>1
  <2>3. /\ ranking' \in [Rankings -> Ranking \cup {Nothing}] /\ ranking'[r] # Nothing
        /\ ranking'[r].batch = b /\ ranking'[r].status = status
        /\ \A d \in Rankings \ {r} : ranking'[d] = ranking[d]
        BY <1>0, <2>2, RankingMoved
  <2> QED BY <1>0, <2>1, <2>2, <2>3, RankingGoesOn
<1>4. CASE CommitRanks(r) \/ ClearBatch(r) \/ RankerDies(r)
  <2>1. /\ ranking' = [ranking EXCEPT ![r].status = "over"]
        /\ \/ SetBatch(b, "READY") /\ UNCHANGED died
           \/ UNCHANGED batch /\ died' = died \cup {b}
        BY <1>0, <1>4 DEF CommitRanks, ClearBatch, RankerDies
  <2>2. /\ ranking' \in [Rankings -> Ranking \cup {Nothing}] /\ ranking'[r] # Nothing
        /\ ranking'[r].batch = b
        /\ \A d \in Rankings \ {r} : ranking'[d] = ranking[d]
        BY <1>0, <2>1, RankingMoved
  <2>3. ~IsActive(b)' \/ b \in died'
        BY <1>0, <2>1, StatusWritten DEF IsActive, Active
  <2> QED BY <1>0, <2>1, <2>2, <2>3, RankingGoesOn
<1> QED BY <1>1, <1>2, <1>3, <1>4

\* The plan: its candidate takes the place of those that were there, none of which has
\* a video, and the batch is ranked or READY.
LEMMA CommitPlanStep ==
  ASSUME ShortInv, NEW a \in Analyses, NEW c \in Shorts, NEW r \in Rankings, CommitPlan(a, c, r)
  PROVE  ShortInv'
<1>b. PICK b \in Batches : b = analysis[a].batch /\ batch[b] # Nothing
      BY Typed DEF CommitPlan, Analysis, ShortInv, HaveRows
<1> DEFINE plan == [batch |-> b, status |-> "PROPOSED", output |-> FALSE]
<1>0. /\ b = analysis[a].batch /\ analysis[a] # Nothing /\ Kept(b) = {} /\ short[c] = Nothing
      /\ short' = [d \in Shorts |-> IF d = c THEN plan
                                    ELSE IF d \in ShortsOf(b) THEN Deleted ELSE short[d]]
      /\ analysis' = [analysis EXCEPT ![a].at = "done"]
      /\ UNCHANGED <<videos, due, died, opened, editable, click, render>>
      BY <1>b DEF CommitPlan, Fresh
<1>1. b \in Batches /\ batch[b] # Nothing /\ batch[b] \in BatchRow
      BY <1>b, Typed
<1>2. plan \in Candidate /\ plan.batch = b /\ ~plan.output
      BY <1>1 DEF Candidate
<1>3. /\ analysis' \in [Analyses -> Analysis \cup {Nothing}]
      /\ analysis'[a] # Nothing /\ analysis'[a].batch = b /\ analysis'[a].at = "done"
      /\ \A e \in Analyses \ {a} : analysis'[e] = analysis[e]
      BY <1>0, AnalysisMoved
<1>4. \/ /\ UseAi /\ ~OthersActive(b) /\ ranking[r] = Nothing
         /\ ranking' = [ranking EXCEPT ![r] = [batch |-> b, status |-> "PENDING", saw |-> {}]]
         /\ batch' = [batch EXCEPT ![b] = [status |-> "RANKING", run |-> r]]
      \/ SetBatch(b, "READY") /\ UNCHANGED ranking
      BY <1>b DEF CommitPlan
<1> HIDE DEF plan
<1>5. /\ short' \in [Shorts -> Candidate \cup {Nothing, Deleted}] /\ short'[c] = plan
      /\ \A d \in Shorts \ {c} : short'[d] = IF d \in ShortsOf(b) THEN Deleted ELSE short[d]
      BY <1>0, <1>2 DEF ShortInv, ShortFormTypeOK
<1>6. OneVideoPerShort'
  <2> SUFFICES ASSUME NEW d \in Shorts
               PROVE  videos[d] = IF Exists(d)' /\ short'[d].output THEN 1 ELSE 0
      BY <1>0 DEF OneVideoPerShort
  <2>1. CASE d = c
        BY <1>0, <1>2, <1>5, <2>1 DEF ShortInv, OneVideoPerShort, Exists
  <2>2. CASE d # c /\ d \in ShortsOf(b)
    <3>1. ~short[d].output
          BY <1>0, <2>2 DEF Kept
    <3> QED BY <1>5, <2>2, <3>1 DEF ShortInv, OneVideoPerShort, Exists
  <2>3. CASE d # c /\ d \notin ShortsOf(b)
        BY <1>5, <2>3 DEF ShortInv, OneVideoPerShort, Exists
  <2> QED BY <2>1, <2>2, <2>3
<1>7. /\ batch' \in [Batches -> BatchRow \cup {Nothing}] /\ batch'[b] # Nothing
      /\ \A d \in Batches \ {b} : batch'[d] = batch[d]
  <2>1. CASE batch' = [batch EXCEPT ![b] = [status |-> "RANKING", run |-> r]]
    <3>1. [status |-> "RANKING", run |-> r] \in BatchRow
          BY DEF BatchRow, Active
    <3> QED BY <1>1, <2>1, <3>1 DEF ShortInv, ShortFormTypeOK
  <2>2. CASE SetBatch(b, "READY")
        BY <1>1, <2>2, StatusWritten
  <2> QED BY <1>4, <2>1, <2>2
<1>8. /\ ranking' \in [Rankings -> Ranking \cup {Nothing}]
      /\ \A q \in Rankings : ranking'[q] # Nothing => ranking'[q].batch = b \/ ranking'[q] = ranking[q]
      /\ \A q \in Rankings : ranking[q] # Nothing => ranking'[q] = ranking[q]
  <2>1. CASE UNCHANGED ranking
        BY <2>1 DEF ShortInv, ShortFormTypeOK
  <2> DEFINE new == [batch |-> b, status |-> "PENDING", saw |-> {}]
  <2>2. CASE ranking[r] = Nothing /\ ranking' = [ranking EXCEPT ![r] = new]
    <3>1. new \in Ranking /\ new.batch = b
          BY <1>1 DEF Ranking
    <3> HIDE DEF new
    <3> QED BY <2>2, <3>1 DEF ShortInv, ShortFormTypeOK
  <2> QED BY <1>4, <2>1, <2>2
<1>9. OneActive'
  <2>1. CASE UseAi /\ ~OthersActive(b)
        BY <1>7, <2>1 DEF OneActive, IsActive, OthersActive
  <2>2. CASE SetBatch(b, "READY")
    <3>1. ~IsActive(b)'
          BY <1>1, <2>2, StatusWritten DEF IsActive, Active
    <3>2. \A d \in Batches : IsActive(d)' => IsActive(d)
          BY <1>7, <3>1 DEF IsActive
    <3> QED BY <3>2 DEF ShortInv, OneActive
  <2> QED BY <1>4, <2>1, <2>2
<1>10. OwnInHand'
  <2> SUFFICES ASSUME NEW d \in Batches, IsActive(d)', OnItsOwn(d)' PROVE InHand(d)'
      BY DEF OwnInHand
  <2>1. CASE d = b
    <3>1. CASE SetBatch(b, "READY")
      <4>1. ~IsActive(b)'
            BY <1>1, <3>1, StatusWritten DEF IsActive, Active
      <4> QED BY <2>1, <4>1
    <3>2. CASE /\ ranking' = [ranking EXCEPT ![r] = [batch |-> b, status |-> "PENDING", saw |-> {}]]
               /\ batch' = [batch EXCEPT ![b] = [status |-> "RANKING", run |-> r]]
      <4>1. batch'[b].run = r
            BY <1>1, <3>2 DEF ShortInv, ShortFormTypeOK
      <4>2. ranking'[r] = [batch |-> b, status |-> "PENDING", saw |-> {}]
            BY <3>2 DEF ShortInv, ShortFormTypeOK
      <4>3. [batch |-> b, status |-> "PENDING", saw |-> {}] \in Ranking
            BY <1>1 DEF Ranking
      <4>4. RankedBy(b, r)'
            BY <4>1, <4>2, <4>3 DEF RankedBy
      <4> QED BY <2>1, <4>4 DEF InHand
    <3> QED BY <1>4, <3>1, <3>2
  <2>2. CASE d # b
    <3>1. IsActive(d) /\ OnItsOwn(d)
      <4>1. ShortsOf(d)' \subseteq ShortsOf(d)
        <5> SUFFICES ASSUME NEW s \in Shorts, Exists(s)', short'[s].batch = d PROVE s \in ShortsOf(d)
            BY DEF ShortsOf
        <5>1. s # c
              BY <1>2, <1>5, <2>2
        <5> QED BY <1>5, <5>1 DEF ShortsOf, Exists
      <4> QED BY <1>0, <1>7, <2>2, <4>1 DEF IsActive, OnItsOwn
    <3>2. InHand(d)
          BY <3>1 DEF ShortInv, OwnInHand
    <3>3. CASE d \in died
          BY <1>0, <3>3 DEF InHand
    <3>4. CASE Analysing(d)
      <4>1. PICK e \in Analyses : analysis[e] # Nothing /\ analysis[e].batch = d /\ analysis[e].at # "done"
            BY <3>4 DEF Analysing
      <4>2. e # a
            BY <1>b, <2>2, <4>1
      <4> QED BY <1>3, <4>1, <4>2 DEF InHand, Analysing
    <3>5. CASE \E q \in Rankings : RankedBy(d, q)
          BY <1>7, <1>8, <2>2, <3>5 DEF InHand, RankedBy
    <3> QED BY <3>2, <3>3, <3>4, <3>5 DEF InHand
  <2> QED BY <2>1, <2>2
<1>11. HaveRows'
  <2>1. \A d \in Batches : batch[d] # Nothing => batch'[d] # Nothing
        BY <1>7
  <2>2. ASSUME NEW s \in Shorts, Exists(s)' PROVE batch'[short'[s].batch] # Nothing
    <3>1. CASE s = c
          BY <1>2, <1>5, <1>7, <3>1
    <3>2. CASE s # c
      <4>1. short'[s] = short[s] /\ Exists(s)
            BY <1>5, <2>2, <3>2 DEF Exists
      <4>2. short[s].batch \in Batches /\ batch[short[s].batch] # Nothing
            BY <4>1, Typed DEF Candidate, ShortInv, HaveRows
      <4> QED BY <2>1, <4>1, <4>2
    <3> QED BY <3>1, <3>2
  <2>3. ASSUME NEW e \in Analyses, analysis'[e] # Nothing
        PROVE  /\ batch'[analysis'[e].batch] # Nothing
               /\ analysis'[e].at = "done" =>
                    \E s \in Shorts : Exists(s)' /\ short'[s].batch = analysis'[e].batch
    <3>1. Exists(c)' /\ short'[c].batch = b
          BY <1>2, <1>5 DEF Exists
    <3>2. CASE analysis'[e].batch = b
          BY <1>7, <3>1, <3>2
    <3>3. CASE analysis'[e].batch # b
      <4>1. e # a /\ analysis'[e] = analysis[e]
            BY <1>3, <3>3
      <4>2. analysis[e] # Nothing /\ analysis[e].batch \in Batches /\ batch[analysis[e].batch] # Nothing
            BY <2>3, <4>1, Typed DEF Analysis, ShortInv, HaveRows
      <4>3. ASSUME analysis[e].at = "done"
            PROVE  \E s \in Shorts : Exists(s)' /\ short'[s].batch = analysis'[e].batch
        <5>1. PICK s \in Shorts : Exists(s) /\ short[s].batch = analysis[e].batch
              BY <4>2, <4>3 DEF ShortInv, HaveRows
        <5>2. s # c /\ s \notin ShortsOf(b)
              BY <1>0, <3>3, <4>1, <5>1 DEF Exists, ShortsOf
        <5> QED BY <1>5, <4>1, <5>1, <5>2 DEF Exists
      <4> QED BY <2>1, <4>1, <4>2, <4>3
    <3> QED BY <3>2, <3>3
  <2>4. ASSUME NEW q \in Rankings, ranking'[q] # Nothing PROVE batch'[ranking'[q].batch] # Nothing
    <3>1. CASE ranking'[q].batch = b
          BY <1>7, <3>1
    <3>2. CASE ranking'[q].batch # b
      <4>1. ranking'[q] = ranking[q]
            BY <1>8, <2>4, <3>2
      <4>2. ranking[q].batch \in Batches /\ batch[ranking[q].batch] # Nothing
            BY <2>4, <4>1, Typed DEF Ranking, ShortInv, HaveRows
      <4> QED BY <2>1, <4>1, <4>2
    <3> QED BY <3>1, <3>2
  <2>5. /\ \A d \in Batches : due'[d] > 0 => batch'[d] # Nothing
        /\ \A x \in Renders : render'[x] # Nothing => click'[render'[x].click] # Nothing
        BY <1>0, <2>1 DEF ShortInv, HaveRows
  <2> QED BY <2>2, <2>3, <2>4, <2>5 DEF HaveRows
<1>12. ShortFormTypeOK'
      BY <1>0, <1>3, <1>5, <1>7, <1>8 DEF ShortInv, ShortFormTypeOK
<1> QED BY <1>6, <1>9, <1>10, <1>11, <1>12 DEF ShortInv

LEMMA StepShort == ShortInv /\ [ShortFormNext]_shortFormVars => ShortInv'
<1> SUFFICES ASSUME ShortInv, [ShortFormNext]_shortFormVars PROVE ShortInv'
    OBVIOUS
<1>1. CASE UNCHANGED shortFormVars
  <2>1. ShortFormTypeOK' /\ OneActive' /\ OneVideoPerShort'
        BY <1>1 DEF shortFormVars, ShortInv, ShortFormTypeOK, OneActive, IsActive, OneVideoPerShort, Exists
  <2>2. HaveRows' /\ OwnInHand'
        BY <1>1 DEF shortFormVars, ShortInv, HaveRows, OwnInHand, Exists, IsActive, OnItsOwn, ShortsOf,
                    InHand, Analysing, RankedBy
  <2> QED BY <2>1, <2>2 DEF ShortInv
<1>2. CASE AnalysisNext
      BY <1>2, AnalysisSteps, StartAnalysisStep, CommitPlanStep DEF AnalysisNext
<1>3. CASE RankingNext
      BY <1>3, RankingSteps DEF RankingNext
<1>4. CASE EditorNext
      BY <1>4, CreateBatchStep, EditorSteps, DeleteVideoStep DEF EditorNext
<1>5. CASE RenderNext
      BY <1>5, RenderSteps, RenderJobSteps, LinkStep DEF RenderNext
<1> QED BY <1>1, <1>2, <1>3, <1>4, <1>5 DEF ShortFormNext

\* For any number of candidates, renders, clicks and re-analyses: a candidate has one
\* video if its row names one, and none otherwise.
THEOREM OneVideoPerShortHolds == ShortFormSpec => []OneVideoPerShort
<1>1. ShortInv => OneVideoPerShort
      BY DEF ShortInv
<1> QED BY <1>1, InitShort, StepShort, PTL DEF ShortFormSpec

\* For any number of batches, analyses and agent runs: somebody is left to settle an
\* active batch, unless a worker died on it.
THEOREM ActiveBatchHasWorkHolds == ShortFormSpec => []ActiveBatchHasWork
<1>1. ASSUME ShortInv PROVE ActiveBatchHasWork
  <2> SUFFICES ASSUME NEW b \in Batches, IsActive(b), due[b] = 0 PROVE InHand(b)
      BY <1>1 DEF ActiveBatchHasWork, InHand, Analysing, ShortInv, ShortFormTypeOK
  <2> QED BY <1>1 DEF ShortInv, OwnInHand, OnItsOwn
<1> QED BY <1>1, InitShort, StepShort, PTL DEF ShortFormSpec

-----------------------------------------------------------------------------
(* The review.  A reply that may land is of the video on the page, because *)
(* the page has not been pointed at another one since it was asked for;    *)
(* and every row and request carries decisions of its own video only.      *)

RepliesAreOwn ==
  \A l \in Loads :
    loading[l] # Absent =>
      /\ loading[l].video \in Videos /\ loading[l].generation \in 0..generation
      /\ ~IsStale(loading[l].generation) => loading[l].video = open
      /\ loading[l].row # Absent =>
           Of(loading[l].video, loading[l].row.stored) /\ Of(loading[l].video, loading[l].row.rendered)

ChangeIsOwn ==
  change # Absent =>
    /\ change.cut \in Videos /\ change.generation \in 0..generation
    /\ ~IsStale(change.generation) => change.cut = open
    /\ Of(change.cut, change.body)

ReviewInv == CutReviewTypeOK /\ RepliesAreOwn /\ ChangeIsOwn /\ OwnDecisions

Reply == [video : Videos, generation : 0..Generations, row : ReviewRow \cup {Absent}]
Change == [cut : Videos, generation : 0..Generations, body : SUBSET Decisions,
           at : {"save", "saved", "render", "queued", "conflict", "failed"}]

LEMMA InitReview == CutReviewInit => ReviewInv
<1> SUFFICES ASSUME CutReviewInit PROVE ReviewInv
    OBVIOUS
<1> USE GenerationsAssumption DEF CutReviewInit
<1>1. CutReviewTypeOK
  <2>1. /\ stored \in [Videos -> SUBSET Decisions] /\ rendered \in [Videos -> SUBSET Decisions]
        /\ loading \in [Loads -> Reply \cup {Absent}]
        OBVIOUS
  <2>2. generation \in 0..Generations
        OBVIOUS
  <2> QED BY <2>1, <2>2 DEF CutReviewTypeOK, Reply
<1>2. OwnDecisions
      BY DEF OwnDecisions, Of
<1>3. RepliesAreOwn /\ ChangeIsOwn
      BY DEF RepliesAreOwn, ChangeIsOwn
<1> QED BY <1>1, <1>2, <1>3 DEF ReviewInv

LEMMA OwnAreDecisions ==
  ASSUME NEW v \in Videos, NEW D, Of(v, D)
  PROVE  D \in SUBSET Decisions
  BY DEF Of, Decisions

\* Asking for the row of the video on the page.
LEMMA AskIsOwn ==
  ASSUME ReviewInv, NEW l \in Loads, Ask(l, open, generation), UNCHANGED <<open, generation>>
  PROVE  RepliesAreOwn' /\ loading' \in [Loads -> Reply \cup {Absent}]
<1> DEFINE new == [video |-> open, generation |-> generation, row |-> Absent]
<1>1. loading' = [loading EXCEPT ![l] = new] /\ open \in Videos /\ generation \in 0..Generations
      BY DEF Ask, ReviewInv, CutReviewTypeOK
<1>2. new \in Reply /\ new.video = open /\ new.generation = generation /\ new.row = Absent
      BY <1>1 DEF Reply
<1> HIDE DEF new
<1>3. loading' \in [Loads -> Reply \cup {Absent}]
      BY <1>1, <1>2 DEF ReviewInv, CutReviewTypeOK, Reply
<1>4. generation \in 0..generation
      BY <1>1, GenerationsAssumption
<1>5. RepliesAreOwn'
      BY <1>1, <1>2, <1>4 DEF ReviewInv, CutReviewTypeOK, RepliesAreOwn, IsStale
<1> QED BY <1>3, <1>5

LEMMA SwitchStep ==
  ASSUME ReviewInv, NEW v \in Videos, NEW l \in Loads, Switch(v, l)
  PROVE  ReviewInv'
<1> DEFINE new == [video |-> v, generation |-> generation + 1, row |-> Absent]
<1>1. /\ open' = v /\ generation' = generation + 1 /\ Dropped /\ inFlight' = TRUE
      /\ loading[l] = Absent /\ loading' = [loading EXCEPT ![l] = new]
      /\ UNCHANGED <<stored, rendered, rendering, change>>
      BY DEF Switch, Ask, serverVars
<1>2. /\ generation' \in 0..Generations /\ generation \in Nat
      /\ new \in Reply /\ new.video = v /\ new.generation = generation' /\ new.row = Absent
      BY <1>1, GenerationsAssumption DEF Switch, ReviewInv, CutReviewTypeOK, Reply
<1> HIDE DEF new
<1>3. CutReviewTypeOK'
      BY <1>1, <1>2 DEF ReviewInv, CutReviewTypeOK, Dropped, Reply
<1>4. \A g \in 0..generation : g \in 0..generation' /\ g # generation'
      BY <1>1, <1>2
<1>5. generation' \in 0..generation'
      BY <1>2, GenerationsAssumption
<1>6. RepliesAreOwn'
      BY <1>1, <1>2, <1>4, <1>5 DEF ReviewInv, CutReviewTypeOK, RepliesAreOwn, IsStale
<1>7. ChangeIsOwn'
      BY <1>1, <1>4 DEF ReviewInv, ChangeIsOwn, IsStale
<1>8. OwnDecisions'
      BY <1>1 DEF ReviewInv, OwnDecisions, Dropped, Of
<1> QED BY <1>3, <1>6, <1>7, <1>8 DEF ReviewInv

LEMMA OthersSteps ==
  ASSUME ReviewInv, NEW v \in Videos, EndRender(v) \/ \E n \in Options : OtherSaves(v, n)
  PROVE  ReviewInv'
<1>1. ASSUME NEW n \in Options, OtherSaves(v, n) PROVE ReviewInv'
  <2>1. /\ stored' = [stored EXCEPT ![v] = {<<v, n>>}] /\ Of(v, {<<v, n>>})
        /\ UNCHANGED <<rendered, rendering, hookVars, loading, change>>
        BY <1>1 DEF OtherSaves, Of
  <2>2. stored' \in [Videos -> SUBSET Decisions]
        BY <2>1, OwnAreDecisions DEF ReviewInv, CutReviewTypeOK
  <2>3. OwnDecisions'
        BY <2>1 DEF ReviewInv, CutReviewTypeOK, OwnDecisions, hookVars
  <2> QED BY <2>1, <2>2, <2>3
      DEF ReviewInv, CutReviewTypeOK, RepliesAreOwn, ChangeIsOwn, IsStale, hookVars
<1>2. CASE EndRender(v)
  <2>1. /\ rendering' = rendering \ {v}
        /\ rendered' \in {rendered, [rendered EXCEPT ![v] = stored[v]]}
        /\ UNCHANGED <<stored, hookVars, loading, change>>
        BY <1>2 DEF EndRender
  <2>2. OwnDecisions' /\ rendered' \in [Videos -> SUBSET Decisions]
        BY <2>1 DEF ReviewInv, CutReviewTypeOK, OwnDecisions, hookVars
  <2> QED BY <2>1, <2>2
      DEF ReviewInv, CutReviewTypeOK, RepliesAreOwn, ChangeIsOwn, IsStale, hookVars
<1> QED BY <1>1, <1>2

LEMMA LoadSteps ==
  ASSUME ReviewInv, NEW l \in Loads, Load(l) \/ ReadRow(l) \/ DropReply(l) \/ LandReply(l)
  PROVE  ReviewInv'
<1>1. CASE Load(l)
  <2>1. /\ Ask(l, open, generation) /\ inFlight' = TRUE
        /\ UNCHANGED <<stored, rendered, rendering, open, generation, cut, loaded, lastRendered,
                       saved, draft, change>>
        BY <1>1 DEF Load, serverVars
  <2>2. RepliesAreOwn' /\ loading' \in [Loads -> Reply \cup {Absent}]
        BY <2>1, AskIsOwn
  <2>3. CutReviewTypeOK' /\ ChangeIsOwn' /\ OwnDecisions'
        BY <2>1, <2>2 DEF ReviewInv, CutReviewTypeOK, ChangeIsOwn, OwnDecisions, IsStale, Reply
  <2> QED BY <2>2, <2>3 DEF ReviewInv
<1>2. CASE ReadRow(l)
  <2> DEFINE v == loading[l].video
             new == [stored |-> stored[v], rendered |-> rendered[v], rendering |-> v \in rendering]
  <2>1. /\ loading[l] # Absent /\ loading' = [loading EXCEPT ![l].row = new]
        /\ UNCHANGED <<stored, rendered, rendering, hookVars, change>>
        BY <1>2 DEF ReadRow, serverVars
  <2>2. loading[l] \in Reply /\ v \in Videos
        BY <2>1 DEF ReviewInv, CutReviewTypeOK, Reply
  <2>3. new \in ReviewRow /\ Of(v, new.stored) /\ Of(v, new.rendered)
        BY <2>2 DEF ReviewInv, CutReviewTypeOK, OwnDecisions, ReviewRow
  <2> HIDE DEF new
  <2>4. /\ loading'[l].row = new /\ loading'[l].video = v
        /\ loading'[l].generation = loading[l].generation
        /\ \A k \in Loads \ {l} : loading'[k] = loading[k]
        /\ loading' \in [Loads -> Reply \cup {Absent}]
        BY <2>1, <2>2, <2>3 DEF ReviewInv, CutReviewTypeOK, Reply
  <2>5. RepliesAreOwn'
        BY <2>1, <2>2, <2>3, <2>4 DEF ReviewInv, RepliesAreOwn, IsStale, hookVars
  <2>6. CutReviewTypeOK' /\ ChangeIsOwn' /\ OwnDecisions'
        BY <2>1, <2>4 DEF ReviewInv, CutReviewTypeOK, ChangeIsOwn, OwnDecisions, IsStale, Reply, hookVars
  <2> QED BY <2>5, <2>6 DEF ReviewInv
<1>3. CASE DropReply(l)
  <2>1. /\ loading' = [loading EXCEPT ![l] = Absent] /\ inFlight' \in BOOLEAN
        /\ UNCHANGED <<stored, rendered, rendering, open, generation, cut, loaded, lastRendered,
                       saved, draft, change>>
        BY <1>3 DEF DropReply, serverVars
  <2> QED BY <2>1
      DEF ReviewInv, CutReviewTypeOK, RepliesAreOwn, ChangeIsOwn, OwnDecisions, IsStale
<1>4. CASE LandReply(l)
  <2> DEFINE row == loading[l].row
  <2>1. /\ loading[l] # Absent /\ row # Absent /\ ~IsStale(loading[l].generation)
        /\ loading' = [loading EXCEPT ![l] = Absent] /\ inFlight' = FALSE
        /\ cut' = loading[l].video /\ loaded' = TRUE /\ saved' = row.stored
        /\ draft' = Adopted(row)
        /\ lastRendered' = IF loaded /\ row.rendering THEN lastRendered ELSE row.rendered
        /\ UNCHANGED <<stored, rendered, rendering, open, generation, change>>
        BY <1>4 DEF LandReply, serverVars
  <2>2. loading[l].video = open /\ Of(open, row.stored) /\ Of(open, row.rendered)
        BY <2>1 DEF ReviewInv, RepliesAreOwn
  <2>3. open \in Videos /\ Of(open, draft) /\ lastRendered \in SUBSET Decisions
        BY DEF ReviewInv, CutReviewTypeOK, OwnDecisions
  <2> HIDE DEF row
  <2>4. Of(open, draft') /\ Of(open, saved') /\ lastRendered' \in SUBSET Decisions
        BY <2>1, <2>2, <2>3, OwnAreDecisions DEF Adopted
  <2>5. draft' \in SUBSET Decisions /\ saved' \in SUBSET Decisions
        BY <2>3, <2>4, OwnAreDecisions
  <2>6. OwnDecisions' /\ CutReviewTypeOK'
        BY <2>1, <2>2, <2>3, <2>4, <2>5 DEF ReviewInv, CutReviewTypeOK, OwnDecisions
  <2>7. RepliesAreOwn' /\ ChangeIsOwn'
        BY <2>1 DEF ReviewInv, CutReviewTypeOK, RepliesAreOwn, ChangeIsOwn, IsStale
  <2> QED BY <2>6, <2>7 DEF ReviewInv
<1> QED BY <1>1, <1>2, <1>3, <1>4

LEMMA ReviewerSteps ==
  ASSUME ReviewInv,
         \/ Save \/ Render \/ StoreOverrides \/ QueueRender \/ FailChange \/ LandSave \/ EndChange
         \/ \E n \in Options : Decide(n)
         \/ \E l \in Loads : LandConflict(l)
  PROVE  ReviewInv'
<1>0. change # Absent => change \in Change
      BY DEF ReviewInv, CutReviewTypeOK, Change
<1>1. ASSUME NEW n \in Options, Decide(n) PROVE ReviewInv'
  <2>1. Of(open, draft') /\ open \in Videos
        BY <1>1 DEF Decide, ReviewInv, CutReviewTypeOK, OwnDecisions, Of
  <2>2. draft' \in SUBSET Decisions
        BY <2>1, OwnAreDecisions
  <2> QED BY <1>1, <2>1, <2>2
      DEF Decide, ReviewInv, CutReviewTypeOK, RepliesAreOwn, ChangeIsOwn, OwnDecisions, IsStale, serverVars
<1>2. CASE Save \/ Render
  <2>1. PICK at \in {"save", "render"} : Begin(at)
        BY <1>2 DEF Save, Render
  <2> DEFINE new == [cut |-> cut, generation |-> generation, body |-> draft, at |-> at]
  <2>2. /\ cut # Absent /\ change' = new /\ UNCHANGED <<serverVars, hookVars, loading>>
        BY <2>1 DEF Begin
  <2>3. cut = open /\ Of(open, draft) /\ generation \in 0..generation
        BY <2>2, GenerationsAssumption DEF ReviewInv, OwnDecisions, CutReviewTypeOK
  <2>4. new \in Change
        BY <2>3 DEF Change, ReviewInv, CutReviewTypeOK
  <2>5. ChangeIsOwn'
        BY <2>2, <2>3, <2>4 DEF ChangeIsOwn, IsStale, hookVars, Change
  <2>6. CutReviewTypeOK'
        BY <2>2, <2>4 DEF ReviewInv, CutReviewTypeOK, Change, serverVars, hookVars
  <2> QED BY <2>2, <2>5, <2>6 DEF ReviewInv, RepliesAreOwn, OwnDecisions, IsStale, serverVars, hookVars
<1>3. CASE StoreOverrides
  <2>1. /\ change \in Change /\ change # Absent
        /\ stored' = [stored EXCEPT ![change.cut] = change.body]
        /\ change' = [change EXCEPT !.at = "saved"]
        /\ UNCHANGED <<rendered, rendering, hookVars, loading>>
        BY <1>0, <1>3 DEF StoreOverrides
  <2>2. /\ change' \in Change /\ change'.cut = change.cut /\ change'.body = change.body
        /\ change'.generation = change.generation
        BY <2>1 DEF Change
  <2>3. ChangeIsOwn' /\ OwnDecisions'
        BY <2>1, <2>2 DEF ReviewInv, ChangeIsOwn, OwnDecisions, CutReviewTypeOK, IsStale, hookVars, Change
  <2>4. CutReviewTypeOK'
        BY <2>1, <2>2 DEF ReviewInv, CutReviewTypeOK, Change, hookVars
  <2> QED BY <2>1, <2>3, <2>4 DEF ReviewInv, RepliesAreOwn, IsStale, hookVars
<1>4. CASE QueueRender \/ FailChange
  <2>1. PICK at \in {"conflict", "queued", "failed"} : change' = [change EXCEPT !.at = at]
        BY <1>4 DEF QueueRender, FailChange
  <2>2. /\ change \in Change /\ change # Absent /\ UNCHANGED <<stored, rendered, hookVars, loading>>
        /\ rendering' \in {rendering, rendering \cup {change.cut}}
        BY <1>0, <1>4 DEF QueueRender, FailChange, serverVars
  <2>3. /\ change' \in Change /\ change'.cut = change.cut /\ change'.body = change.body
        /\ change'.generation = change.generation
        BY <2>1, <2>2 DEF Change
  <2>4. ChangeIsOwn' /\ CutReviewTypeOK'
        BY <2>2, <2>3 DEF ReviewInv, ChangeIsOwn, CutReviewTypeOK, IsStale, hookVars, Change
  <2> QED BY <2>2, <2>4 DEF ReviewInv, RepliesAreOwn, OwnDecisions, IsStale, hookVars
<1>5. CASE LandSave
  <2>1. /\ change \in Change /\ Of(open, change.body) /\ saved' = change.body /\ draft' = change.body
        /\ change' = Absent
        /\ UNCHANGED <<serverVars, open, generation, cut, loaded, lastRendered, inFlight, loading>>
        BY <1>0, <1>5 DEF LandSave, ReviewInv, ChangeIsOwn
  <2>2. CutReviewTypeOK' /\ OwnDecisions'
        BY <2>1 DEF ReviewInv, CutReviewTypeOK, OwnDecisions, Change, serverVars
  <2> QED BY <2>1, <2>2 DEF ReviewInv, RepliesAreOwn, ChangeIsOwn, IsStale
<1>6. CASE EndChange
  <2>1. change' = Absent /\ UNCHANGED <<serverVars, hookVars, loading>>
        BY <1>6 DEF EndChange
  <2> QED BY <2>1 DEF ReviewInv, CutReviewTypeOK, RepliesAreOwn, ChangeIsOwn, OwnDecisions, IsStale,
                      serverVars, hookVars
<1>7. ASSUME NEW l \in Loads, LandConflict(l) PROVE ReviewInv'
  <2>1. /\ change' = Absent
        /\ UNCHANGED <<stored, rendered, rendering, open, generation, cut, loaded, lastRendered,
                       saved, draft>>
        BY <1>7 DEF LandConflict, serverVars
  <2>2. CASE inFlight
    <3>1. UNCHANGED <<loading, inFlight>>
          BY <1>7, <2>2 DEF LandConflict
    <3> QED BY <2>1, <3>1
        DEF ReviewInv, CutReviewTypeOK, RepliesAreOwn, ChangeIsOwn, OwnDecisions, IsStale
  <2>3. CASE ~inFlight
    <3>1. inFlight' = TRUE /\ Ask(l, open, generation)
          BY <1>7, <2>3 DEF LandConflict
    <3>2. RepliesAreOwn' /\ loading' \in [Loads -> Reply \cup {Absent}]
          BY <2>1, <3>1, AskIsOwn
    <3>3. CutReviewTypeOK' /\ ChangeIsOwn' /\ OwnDecisions'
          BY <2>1, <3>1, <3>2 DEF ReviewInv, CutReviewTypeOK, ChangeIsOwn, OwnDecisions, Reply
    <3> QED BY <3>2, <3>3 DEF ReviewInv
  <2> QED BY <2>2, <2>3
<1> QED BY <1>1, <1>2, <1>3, <1>4, <1>5, <1>6, <1>7

LEMMA StepReview == ReviewInv /\ [CutReviewNext]_reviewVars => ReviewInv'
<1> SUFFICES ASSUME ReviewInv, [CutReviewNext]_reviewVars PROVE ReviewInv'
    OBVIOUS
<1>1. CASE UNCHANGED reviewVars
      BY <1>1 DEF reviewVars, serverVars, hookVars, ReviewInv, CutReviewTypeOK, RepliesAreOwn,
                  ChangeIsOwn, OwnDecisions, IsStale
<1> QED BY <1>1, SwitchStep, OthersSteps, LoadSteps, ReviewerSteps DEF CutReviewNext

\* For any number of videos, loads in flight and switches between videos: no decision of
\* one video reaches another, on the page or in the rows.
THEOREM OwnDecisionsHolds == CutReviewSpec => []OwnDecisions
<1>1. ReviewInv => OwnDecisions
      BY DEF ReviewInv
<1> QED BY <1>1, InitReview, StepReview, PTL DEF CutReviewSpec

LEMMA ReplyKeepsWork ==
  ASSUME ReviewInv, [CutReviewNext]_reviewVars
  PROVE  [\A l \in Loads :
            loading[l] # Absent /\ loading'[l] = Absent /\ loaded /\ draft # saved
              => draft' = draft]_reviewVars
<1> SUFFICES ASSUME CutReviewNext, NEW l \in Loads, loading[l] # Absent, loading'[l] = Absent,
                    loaded, draft # saved
             PROVE  draft' = draft
    OBVIOUS
<1>1. ASSUME NEW k \in Loads, LandReply(k) PROVE draft' = draft
      BY <1>1 DEF LandReply, Adopted
<1>2. ASSUME NEW v \in Videos, NEW k \in Loads, Switch(v, k) PROVE FALSE
  <2>1. loading[k] = Absent /\ \A j \in Loads \ {k} : loading'[j] = loading[j]
        BY <1>2 DEF Switch, Ask, ReviewInv, CutReviewTypeOK
  <2> QED BY <2>1
<1>3. ASSUME UNCHANGED loading PROVE FALSE
      BY <1>3
<1>4. \/ UNCHANGED loading \/ UNCHANGED draft \/ \E k \in Loads : LandReply(k)
      \/ \E v \in Videos, k \in Loads : Switch(v, k)
      BY DEF CutReviewNext, EndRender, OtherSaves, Load, ReadRow, DropReply, LandConflict, Decide,
             Save, Render, Begin, StoreOverrides, QueueRender, FailChange, LandSave, EndChange, hookVars
<1> QED BY <1>1, <1>2, <1>3, <1>4

\* No reply, whichever load it answers, replaces decisions that are not saved.
THEOREM UnsavedOutlivesReloadHolds == CutReviewSpec => UnsavedOutlivesReload
  BY InitReview, StepReview, ReplyKeepsWork, PTL DEF CutReviewSpec, UnsavedOutlivesReload

-----------------------------------------------------------------------------
(* The comments.  A row no newer than a revision that was read is in every *)
(* list read after that revision, unless a write was committed since that  *)
(* is no newer than the revision: then the version, or the read, is late.  *)

USE FeedAssumption, NoRevisionAssumption, NoWriteAssumption

\* The list has every row of the version that is as old as the revision.
HasOld(table, v, rev, items) ==
  \A c \in Comments :
    table[c] # NoTag /\ table[c].of = v /\ table[c].at <= rev.last
      => [id |-> c, done |-> table[c].done] \in items

\* A list was read after its revision.
PollHasOld(q, table) ==
  q # NoTag =>
    /\ q.read => q.rev # NoTag
    /\ q.read /\ ~q.late => HasOld(table, q.of, q.rev, q.list)

PollsHaveOld == \A p \in Polls : PollHasOld(poll[p], rows)

VersionHasOld(table, v, tag, items) == tag # NoTag => HasOld(table, v, tag, items)

PageHasOld ==
  \A v \in Cuts : v \notin touched \union late => VersionHasOld(rows, v, page.etag[v], page.shown[v])

FeedInv == FeedTypeOK /\ PollsHaveOld /\ PageHasOld

WriteType == [Comments \union Edits -> Write \union {NoTag}]
PageType == [active : Cuts, shown : [Cuts -> SUBSET Item],
             etag : [Cuts -> Revisions \union {NoTag}], mutating : BOOLEAN, opened : BOOLEAN]
PollType == [of : Cuts, tag : Revisions \union {NoTag}, rev : Revisions \union {NoTag},
             list : SUBSET Item, read : BOOLEAN, late : BOOLEAN]

LEMMA InitFeed == FeedInit => FeedInv
<1> SUFFICES ASSUME FeedInit PROVE FeedInv
    OBVIOUS
<1>1. FeedTypeOK
  <2>1. /\ rows \in [Comments -> Row \union {NoTag}] /\ clock \in 0..MaxWrites
        /\ poll \in [Polls -> {NoTag}] /\ edit \in [Edits -> {NoTag}]
        /\ write \in [Comments \union Edits -> Write \union {NoTag}]
        BY DEF FeedInit
  <2>2. page \in [active : Cuts, shown : [Cuts -> SUBSET Item],
                  etag : [Cuts -> Revisions \union {NoTag}], mutating : BOOLEAN, opened : BOOLEAN]
        BY DEF FeedInit
  <2> QED BY <2>1, <2>2 DEF FeedInit, FeedTypeOK
<1>2. PollsHaveOld /\ PageHasOld
      BY DEF FeedInit, PollsHaveOld, PollHasOld, PageHasOld, VersionHasOld
<1> QED BY <1>1, <1>2 DEF FeedInv

\* The revision is typed, and no row of the version is newer.
LEMMA RevisionIsNewest ==
  ASSUME FeedTypeOK, NEW v \in Cuts
  PROVE  /\ Revision(v) \in Revisions
         /\ \A c \in RowsOf(v) : rows[c].at <= Revision(v).last
<1> DEFINE S == {0} \union {rows[c].at : c \in RowsOf(v)}
<1>1. \A c \in RowsOf(v) : rows[c] \in Row
      BY DEF FeedTypeOK, RowsOf
<1>2. \A c \in RowsOf(v) : rows[c].at \in Nat /\ rows[c].at <= MaxWrites
      BY <1>1 DEF Row
<1>3. S \in SUBSET Nat /\ S # {} /\ MaxWrites \in Nat /\ \A y \in S : y <= MaxWrites
      BY <1>2
<1> HIDE DEF S
<1>4. \E x \in S : \A y \in S : y <= x
      BY <1>3, GreatestNumber
<1>5. \E x \in S : \A y \in S : x >= y
      BY <1>3, <1>4
<1>6. Max(S) \in S /\ \A y \in S : Max(S) >= y
      BY <1>5 DEF Max
<1>7. Revision(v) = [count |-> Cardinality(RowsOf(v)), last |-> Max(S)]
      BY DEF Revision, S
<1>8. Cardinality(RowsOf(v)) \in 0..Cardinality(Comments)
  <2>1. RowsOf(v) \subseteq Comments
        BY DEF RowsOf
  <2> QED BY <2>1, FS_Subset, FS_CardinalityType
<1>9. Max(S) \in 0..MaxWrites
  <2>1. Max(S) \in Nat /\ Max(S) <= MaxWrites
        BY <1>3, <1>6
  <2> QED BY <1>3, <2>1
<1>10. \A c \in RowsOf(v) : rows[c].at <= Max(S)
  <2> TAKE c \in RowsOf(v)
  <2>1. rows[c].at \in S
        BY DEF S
  <2> QED BY <1>3, <1>6, <2>1
<1> QED BY <1>7, <1>8, <1>9, <1>10 DEF Revisions

\* A write that is begun takes a time, and the rows stay as they are.
StampedWrite == clock' \in 0..MaxWrites /\ write' \in WriteType

LEMMA StampedIsWrite ==
  ASSUME FeedTypeOK, NEW x \in Comments \union Edits, NEW kind \in {"add", "resolve", "edit"},
         NEW c \in Comments, NEW v \in Cuts, NEW done \in BOOLEAN, Stamped(x, kind, c, v, done)
  PROVE  StampedWrite
<1>1. PICK at \in {clock, clock + 1} \cap 1..MaxWrites :
        /\ clock' = at
        /\ write' = [write EXCEPT ![x] = [kind |-> kind, id |-> c, of |-> v, at |-> at, done |-> done]]
      BY DEF Stamped
<1>2. [kind |-> kind, id |-> c, of |-> v, at |-> at, done |-> done] \in Write
      BY DEF Write
<1> QED BY <1>1, <1>2 DEF FeedTypeOK, StampedWrite, WriteType

\* Of the rows only one is gone.
LEMMA RemovalKeepsOld ==
  ASSUME FeedTypeOK, NEW d \in Comments, Removed(d)
  PROVE  /\ rows' \in [Comments -> Row \union {NoTag}]
         /\ \A v, rev, items : HasOld(rows, v, rev, items) => HasOld(rows', v, rev, items)
<1>1. rows \in [Comments -> Row \union {NoTag}] /\ rows' = [rows EXCEPT ![d] = NoTag]
      BY DEF FeedTypeOK, Removed
<1>2. \A c \in Comments : rows'[c] = NoTag \/ rows'[c] = rows[c]
      BY <1>1
<1> QED BY <1>1, <1>2 DEF HasOld

\* The rows lose some, and neither the page nor a read is touched.
LEMMA RowsKeepInv ==
  ASSUME FeedInv, UNCHANGED <<poll, page, touched, late>>, FeedTypeOK',
         rows' = rows
           \/ \A v, rev, items : HasOld(rows, v, rev, items) => HasOld(rows', v, rev, items)
  PROVE  FeedInv'
<1>1. ASSUME NEW p \in Polls PROVE PollHasOld(poll[p], rows')
      BY DEF FeedInv, PollsHaveOld, PollHasOld
<1>2. ASSUME NEW v \in Cuts, v \notin touched \union late
      PROVE  VersionHasOld(rows', v, page.etag[v], page.shown[v])
      BY <1>2 DEF FeedInv, PageHasOld, VersionHasOld
<1>3. PollsHaveOld' /\ PageHasOld'
      BY <1>1, <1>2 DEF PollsHaveOld, PageHasOld
<1> QED BY <1>3 DEF FeedInv

LEMMA FeedOthersSteps ==
  ASSUME FeedInv, OthersWrite \/ OthersDelete
  PROVE  FeedInv'
<1>0. /\ cuts \subseteq Cuts /\ FeedTypeOK
      /\ \A c \in Comments : rows[c] # NoTag => rows[c].of \in Cuts
      BY DEF FeedInv, FeedTypeOK, Row
<1>1. CASE OthersWrite
  <2>1. UNCHANGED <<rows, cuts, newest, landed, page, poll, edit, touched, late>>
        BY <1>1 DEF OthersWrite
  <2>2. /\ given' \subseteq Comments
        /\ \E c \in Comments, v \in Cuts, kind \in {"add", "resolve", "edit"}, done \in BOOLEAN :
             Stamped(c, kind, c, v, done)
    <3>1. PICK c \in Comments :
            \/ given' = given \union {c} /\ \E v \in cuts : Stamped(c, "add", c, v, FALSE)
            \/ /\ rows[c] # NoTag /\ UNCHANGED given
               /\ \/ Stamped(c, "edit", c, rows[c].of, FALSE)
                  \/ \E done \in BOOLEAN : Stamped(c, "resolve", c, rows[c].of, done)
          BY <1>1 DEF OthersWrite
    <3>2. given' \subseteq Comments
          BY <1>0, <3>1 DEF FeedTypeOK
    <3>3. \E v \in Cuts, kind \in {"add", "resolve", "edit"}, done \in BOOLEAN :
            Stamped(c, kind, c, v, done)
          BY <1>0, <3>1
    <3> QED BY <3>2, <3>3
  <2>3. StampedWrite
        BY <1>0, <2>2, StampedIsWrite
  <2>4. FeedTypeOK'
        BY <1>0, <2>1, <2>2, <2>3 DEF FeedTypeOK, StampedWrite, WriteType
  <2> QED BY <2>1, <2>4, RowsKeepInv
<1>2. CASE OthersDelete
  <2>1. UNCHANGED <<clock, write, given, cuts, newest, landed, page, poll, edit, touched, late>>
        BY <1>2 DEF OthersDelete
  <2>2. PICK d \in Comments : Removed(d)
        BY <1>2 DEF OthersDelete
  <2>3. /\ rows' \in [Comments -> Row \union {NoTag}]
        /\ \A v, rev, items : HasOld(rows, v, rev, items) => HasOld(rows', v, rev, items)
        BY <1>0, <2>2, RemovalKeepsOld
  <2>4. FeedTypeOK'
        BY <1>0, <2>1, <2>3 DEF FeedTypeOK
  <2> QED BY <2>1, <2>3, <2>4, RowsKeepInv
<1> QED BY <1>1, <1>2

\* The commit of the write `q`: one row is new, and newer than every revision it does not
\* overtake.
RowLands(q) ==
  /\ rows' \in [Comments -> Row \union {NoTag}]
  /\ rows'[q.id].of = q.of /\ rows'[q.id].at = q.at
  /\ \A c \in Comments \ {q.id} : rows'[c] = rows[c]

LEMMA LandedRow ==
  ASSUME FeedTypeOK, NEW x \in Comments \union Edits, WriteLands(x)
  PROVE  write[x] \in Write /\ RowLands(write[x])
<1> DEFINE q == write[x]
<1>1. q \in Write /\ (q.kind = "add" \/ rows[q.id] # NoTag)
      BY DEF WriteLands, FeedTypeOK
<1>2. rows \in [Comments -> Row \union {NoTag}]
      BY DEF FeedTypeOK
<1> DEFINE new == [of |-> q.of, at |-> q.at,
                   done |-> IF q.kind = "edit" THEN rows[q.id].done ELSE q.done]
<1>3. rows' = [rows EXCEPT ![q.id] = new]
  <2>1. rows' = [rows EXCEPT ![q.id] =
                   [of |-> q.of, at |-> q.at, done |-> IF q.kind = "edit" THEN @.done ELSE q.done]]
        BY DEF WriteLands
  <2> QED BY <2>1
<1>4. new \in Row /\ q.id \in Comments
  <2>1. q.kind = "edit" => rows[q.id] \in Row
        BY <1>1, <1>2 DEF Write
  <2>2. (IF q.kind = "edit" THEN rows[q.id].done ELSE q.done) \in BOOLEAN
        BY <1>1, <2>1 DEF Write, Row
  <2>3. q.of \in Cuts /\ q.at \in 1..MaxWrites /\ q.id \in Comments
        BY <1>1 DEF Write
  <2> QED BY <2>2, <2>3 DEF Row
<1>5. new.of = q.of /\ new.at = q.at
      OBVIOUS
<1> HIDE DEF new, q
<1>6. RowLands(q)
      BY <1>2, <1>3, <1>4, <1>5 DEF RowLands
<1> QED BY <1>1, <1>6 DEF q

LEMMA LandingKeepsOld ==
  ASSUME NEW q \in Write, RowLands(q), NEW rev \in Revisions, NEW v, NEW items,
         v = q.of => ~Overtakes(rev, q), HasOld(rows, v, rev, items)
  PROVE  HasOld(rows', v, rev, items)
<1> SUFFICES ASSUME NEW c \in Comments, rows'[c] # NoTag, rows'[c].of = v, rows'[c].at <= rev.last
             PROVE  [id |-> c, done |-> rows'[c].done] \in items
    BY DEF HasOld
<1>1. c # q.id
  <2> SUFFICES ASSUME c = q.id PROVE FALSE
      OBVIOUS
  <2>1. v = q.of /\ q.at <= rev.last
        BY DEF RowLands
  <2> QED BY <2>1 DEF Overtakes
<1>2. rows'[c] = rows[c]
      BY <1>1 DEF RowLands
<1> QED BY <1>2 DEF HasOld

LEMMA WriteLandsStep ==
  ASSUME FeedInv, NEW x \in Comments \union Edits, WriteLands(x)
  PROVE  FeedInv'
<1> DEFINE q == write[x]
<1>0. FeedTypeOK /\ q \in Write /\ q.of \in Cuts /\ RowLands(q)
      BY LandedRow DEF FeedInv, Write
<1>1. /\ late' = IF Overtakes(page.etag[q.of], q) THEN late \union {q.of} ELSE late
      /\ poll' = [p \in Polls |->
           IF poll[p] # NoTag /\ poll[p].of = q.of /\ Overtakes(poll[p].rev, q)
             THEN [poll[p] EXCEPT !.late = TRUE] ELSE poll[p]]
      /\ write' = [write EXCEPT ![x] = NoTag]
      /\ edit' = IF x \in Edits /\ edit[x] # NoTag THEN [edit EXCEPT ![x].state = "done"] ELSE edit
      /\ UNCHANGED <<clock, given, cuts, newest, landed, page, touched>>
      BY DEF WriteLands
<1> HIDE DEF q
<1>2. /\ poll \in [Polls -> PollType \union {NoTag}] /\ page \in PageType
      /\ edit \in [Edits -> EditSent \union {NoTag}] /\ write \in WriteType
      BY <1>0 DEF FeedTypeOK, PollType, PageType, WriteType
<1>3. poll' \in [Polls -> PollType \union {NoTag}]
  <2>1. ASSUME NEW p \in Polls PROVE poll[p] # NoTag => [poll[p] EXCEPT !.late = TRUE] \in PollType
        BY <1>2 DEF PollType
  <2> QED BY <1>1, <1>2, <2>1
<1>4. edit' \in [Edits -> EditSent \union {NoTag}] /\ write' \in WriteType
  <2>1. ASSUME NEW w \in Edits, edit[w] # NoTag
        PROVE  [edit EXCEPT ![w].state = "done"] \in [Edits -> EditSent \union {NoTag}]
        BY <1>2, <2>1 DEF EditSent
  <2> QED BY <1>1, <1>2, <2>1 DEF WriteType
<1>5. FeedTypeOK'
      BY <1>0, <1>1, <1>2, <1>3, <1>4 DEF RowLands, FeedTypeOK, PollType, WriteType
<1>6. ASSUME NEW p \in Polls PROVE PollHasOld(poll'[p], rows')
  <2>1. CASE poll[p] = NoTag
        BY <1>1, <2>1 DEF PollHasOld
  <2>2. CASE poll[p] # NoTag
    <3> DEFINE r == poll[p]
    <3>1. r \in PollType /\ PollHasOld(r, rows) /\ r # NoTag
          BY <1>2, <2>2 DEF FeedInv, PollsHaveOld
    <3>2. poll'[p] = IF r.of = q.of /\ Overtakes(r.rev, q) THEN [r EXCEPT !.late = TRUE] ELSE r
          BY <1>1, <2>2
    <3> HIDE DEF r
    <3>3. CASE r.of = q.of /\ Overtakes(r.rev, q)
      <4>1. poll'[p].late /\ poll'[p].read = r.read /\ poll'[p].rev = r.rev
            BY <3>1, <3>2, <3>3 DEF PollType
      <4> QED BY <3>1, <4>1 DEF PollHasOld
    <3>4. CASE ~(r.of = q.of /\ Overtakes(r.rev, q))
      <4>1. poll'[p] = r
            BY <3>2, <3>4
      <4>2. ASSUME r.read, ~r.late PROVE HasOld(rows', r.of, r.rev, r.list)
        <5>1. r.rev \in Revisions /\ HasOld(rows, r.of, r.rev, r.list)
              BY <3>1, <4>2 DEF PollHasOld, PollType
        <5> QED BY <1>0, <3>4, <5>1, LandingKeepsOld
      <4> QED BY <3>1, <4>1, <4>2 DEF PollHasOld
    <3> QED BY <3>3, <3>4
  <2> QED BY <2>1, <2>2
<1>7. ASSUME NEW v \in Cuts, v \notin touched \union late', page.etag[v] # NoTag
      PROVE  HasOld(rows', v, page.etag[v], page.shown[v])
  <2>1. v \notin touched \union late /\ (v = q.of => ~Overtakes(page.etag[v], q))
        BY <1>1, <1>7
  <2>2. HasOld(rows, v, page.etag[v], page.shown[v])
        BY <1>7, <2>1 DEF FeedInv, PageHasOld, VersionHasOld
  <2>3. page.etag[v] \in Revisions
        BY <1>2, <1>7 DEF PageType
  <2> QED BY <1>0, <2>1, <2>2, <2>3, LandingKeepsOld
<1>8. PollsHaveOld' /\ PageHasOld'
      BY <1>1, <1>6, <1>7 DEF PollsHaveOld, PageHasOld, VersionHasOld
<1> QED BY <1>5, <1>8 DEF FeedInv

LEMMA WriteFailsStep ==
  ASSUME FeedInv, NEW x \in Comments \union Edits, WriteFails(x)
  PROVE  FeedInv'
<1>1. /\ write' = [write EXCEPT ![x] = NoTag]
      /\ UNCHANGED <<rows, clock, given, cuts, newest, landed, page, poll, edit, touched, late>>
      BY DEF WriteFails
<1>2. FeedTypeOK'
      BY <1>1 DEF FeedInv, FeedTypeOK
<1> QED BY <1>1, <1>2, RowsKeepInv

LEMMA ListedItems ==
  ASSUME FeedTypeOK, NEW v \in Cuts
  PROVE  Listed(v) \in SUBSET Item
  BY DEF Listed, RowsOf, FeedTypeOK, Row, Item

LEMMA ListHasOld ==
  ASSUME FeedTypeOK, NEW v \in Cuts, NEW rev
  PROVE  HasOld(rows, v, rev, Listed(v))
  BY DEF HasOld, Listed, RowsOf

\* A read moves on to `new`.
LEMMA PollMovesOn ==
  ASSUME FeedInv, NEW p \in Polls, NEW new \in PollType \union {NoTag}, PollHasOld(new, rows),
         poll' = [poll EXCEPT ![p] = new], UNCHANGED rows
  PROVE  poll' \in [Polls -> PollType \union {NoTag}] /\ PollsHaveOld'
<1>1. poll \in [Polls -> PollType \union {NoTag}]
      BY DEF FeedInv, FeedTypeOK, PollType
<1>2. poll'[p] = new /\ \A q \in Polls \ {p} : poll'[q] = poll[q]
      BY <1>1
<1>3. \A q \in Polls : PollHasOld(poll[q], rows)
      BY DEF FeedInv, PollsHaveOld
<1>4. \A q \in Polls : PollHasOld(poll'[q], rows)
      BY <1>2, <1>3
<1>5. PollsHaveOld'
      BY <1>4 DEF PollsHaveOld, PollHasOld
<1> QED BY <1>1, <1>5

LEMMA AskStep ==
  ASSUME FeedInv, NEW p \in Polls, AskForComments(p)
  PROVE  FeedInv'
<1>0. page \in PageType
      BY DEF FeedInv, FeedTypeOK, PageType
<1>1. PICK tag \in Revisions \union {NoTag} :
        poll' = [poll EXCEPT ![p] = [of |-> page.active, tag |-> tag, rev |-> NoTag,
                                     list |-> {}, read |-> FALSE, late |-> FALSE]]
      BY <1>0 DEF AskForComments, Asked, PageType
<1> DEFINE new == [of |-> page.active, tag |-> tag, rev |-> NoTag, list |-> {}, read |-> FALSE,
                   late |-> FALSE]
<1>2. new \in PollType \union {NoTag} /\ PollHasOld(new, rows)
      BY <1>0 DEF PollType, PageType, PollHasOld
<1>3. /\ page' \in {page, [page EXCEPT !.opened = FALSE]}
      /\ UNCHANGED <<rows, clock, write, given, cuts, newest, landed, edit, touched, late>>
      BY DEF AskForComments
<1> HIDE DEF new
<1>4. poll' \in [Polls -> PollType \union {NoTag}] /\ PollsHaveOld'
      BY <1>1, <1>2, <1>3, PollMovesOn DEF new
<1>5. page' \in PageType /\ page'.etag = page.etag /\ page'.shown = page.shown
      BY <1>0, <1>3 DEF PageType
<1>6. FeedTypeOK'
      BY <1>3, <1>4, <1>5 DEF FeedInv, FeedTypeOK, PollType, PageType
<1> QED BY <1>3, <1>4, <1>5, <1>6 DEF FeedInv, PageHasOld, VersionHasOld, HasOld

\* The route's two statements, and a read that is dropped.
LEMMA ServeSteps ==
  ASSUME FeedInv, NEW p \in Polls, ServeRevision(p) \/ ServeList(p) \/ ReadFails(p)
  PROVE  FeedInv'
<1>0. /\ poll[p] # NoTag /\ poll[p] \in PollType /\ poll[p].of \in Cuts
      /\ PollHasOld(poll[p], rows)
      /\ UNCHANGED <<rows, clock, write, given, cuts, newest, landed, page, edit, touched, late>>
      BY DEF ServeRevision, ServeList, ReadFails, FeedInv, FeedTypeOK, PollType, PollsHaveOld
<1>1. ASSUME NEW new \in PollType \union {NoTag}, PollHasOld(new, rows),
             poll' = [poll EXCEPT ![p] = new]
      PROVE  FeedInv'
  <2>1. poll' \in [Polls -> PollType \union {NoTag}] /\ PollsHaveOld'
        BY <1>0, <1>1, PollMovesOn
  <2> QED BY <1>0, <2>1 DEF FeedInv, FeedTypeOK, PollType, PageHasOld, VersionHasOld, HasOld
<1>2. PollHasOld(NoTag, rows)
      BY DEF PollHasOld
<1>3. CASE ServeRevision(p)
  <2> DEFINE v == poll[p].of
             new == [poll[p] EXCEPT !.rev = Revision(v), !.tag = NoTag]
  <2>1. poll' = [poll EXCEPT ![p] = NoTag] \/ poll' = [poll EXCEPT ![p] = new]
        BY <1>3 DEF ServeRevision
  <2>2. Revision(v) \in Revisions
        BY <1>0, RevisionIsNewest DEF FeedInv
  <2>3. poll[p].rev = NoTag /\ ~poll[p].read
        BY <1>0, <1>3 DEF ServeRevision, PollHasOld, PollType
  <2>4. new \in PollType /\ new.rev = Revision(v) /\ ~new.read
        BY <1>0, <2>2, <2>3 DEF PollType
  <2> HIDE DEF new
  <2>5. PollHasOld(new, rows)
        BY <2>2, <2>4 DEF PollHasOld
  <2> QED BY <1>1, <1>2, <2>1, <2>4, <2>5
<1>4. CASE ServeList(p)
  <2> DEFINE v == poll[p].of
             new == [poll[p] EXCEPT !.list = Listed(v), !.read = TRUE]
  <2>1. poll' = [poll EXCEPT ![p] = new]
    <3>1. poll \in [Polls -> PollType \union {NoTag}]
          BY DEF FeedInv, FeedTypeOK, PollType
    <3>2. poll' = [poll EXCEPT ![p].list = Listed(poll[p].of), ![p].read = TRUE]
          BY <1>4 DEF ServeList
    <3> QED BY <3>1, <3>2
  <2>2. Listed(v) \in SUBSET Item /\ HasOld(rows, v, poll[p].rev, Listed(v))
        BY <1>0, ListedItems, ListHasOld DEF FeedInv
  <2>3. /\ new \in PollType /\ new.rev = poll[p].rev /\ new.list = Listed(v) /\ new.read
        /\ new.of = v
        BY <1>0, <2>2 DEF PollType
  <2> HIDE DEF new
  <2>4. PollHasOld(new, rows)
        BY <1>0, <1>4, <2>2, <2>3 DEF PollHasOld, ServeList
  <2> QED BY <1>1, <2>1, <2>3, <2>4
<1>5. CASE ReadFails(p)
      BY <1>1, <1>2, <1>5 DEF ReadFails
<1> QED BY <1>3, <1>4, <1>5

\* A list that lands comes with the revision it was read after.
LEMMA ListLandsStep ==
  ASSUME FeedInv, NEW p \in Polls, ListLands(p)
  PROVE  FeedInv'
<1> DEFINE q == poll[p]
<1>0. /\ q # NoTag /\ q.read /\ q \in PollType /\ q.of \in Cuts /\ page \in PageType
      /\ page' = [page EXCEPT !.etag[q.of] = q.rev, !.shown[q.of] = q.list]
      /\ touched' = touched \ {q.of} /\ poll' = [poll EXCEPT ![p] = NoTag]
      /\ late' = IF q.late THEN late \union {q.of} ELSE late \ {q.of}
      /\ UNCHANGED <<rows, clock, write, given, cuts, newest, landed, edit>>
      BY DEF ListLands, FeedInv, FeedTypeOK, PollType, PageType
<1>1. /\ q.rev # NoTag /\ q.rev \in Revisions /\ q.list \in SUBSET Item
      /\ ~q.late => HasOld(rows, q.of, q.rev, q.list)
      BY <1>0 DEF FeedInv, PollsHaveOld, PollHasOld, PollType
<1> HIDE DEF q
<1>2. /\ page' \in PageType
      /\ page'.etag = [page.etag EXCEPT ![q.of] = q.rev]
      /\ page'.shown = [page.shown EXCEPT ![q.of] = q.list]
      BY <1>0, <1>1 DEF PageType
<1>3. PollHasOld(NoTag, rows)
      BY DEF PollHasOld
<1>4. poll' \in [Polls -> PollType \union {NoTag}] /\ PollsHaveOld'
      BY <1>0, <1>3, PollMovesOn
<1>5. FeedTypeOK'
      BY <1>0, <1>2, <1>4 DEF FeedInv, FeedTypeOK, PollType, PageType
<1>6. PageHasOld'
  <2> SUFFICES ASSUME NEW v \in Cuts, v \notin touched' \union late'
               PROVE  VersionHasOld(rows, v, page'.etag[v], page'.shown[v])
      BY <1>0 DEF PageHasOld, VersionHasOld, HasOld
  <2>1. CASE v = q.of
        BY <1>0, <1>1, <1>2, <2>1 DEF PageType, VersionHasOld
  <2>2. CASE v # q.of
    <3>1. page'.etag[v] = page.etag[v] /\ page'.shown[v] = page.shown[v]
          BY <1>0, <1>2, <2>2 DEF PageType
    <3> QED BY <1>0, <2>2, <3>1 DEF FeedInv, PageHasOld
  <2> QED BY <2>1, <2>2
<1> QED BY <1>4, <1>5, <1>6 DEF FeedInv

\* The page changes lists of its own: those it changes are touched.
LEMMA ListsTouched ==
  ASSUME FeedInv, NEW lists \in SUBSET Cuts, page' \in PageType,
         page'.etag = page.etag, \A v \in Cuts \ lists : page'.shown[v] = page.shown[v],
         touched' = touched \union lists, UNCHANGED <<rows, late>>
  PROVE  PageHasOld'
  BY DEF FeedInv, PageHasOld, VersionHasOld, HasOld

LEMMA PageSteps ==
  ASSUME FeedInv, RenderLands \/ Reload \/ SwitchVersion
  PROVE  FeedInv'
<1>0. page \in PageType /\ newest \in Cuts /\ cuts \subseteq Cuts
      BY DEF FeedInv, FeedTypeOK, PageType
<1>1. CASE RenderLands
      BY <1>1
      DEF RenderLands, FeedInv, FeedTypeOK, PollsHaveOld, PollHasOld, PageHasOld, VersionHasOld, HasOld
<1>2. CASE Reload
  <2>1. /\ page' = Reloaded(page) /\ touched' = touched \union Cuts /\ landed' = FALSE
        /\ UNCHANGED <<rows, clock, write, given, cuts, newest, poll, edit, late>> /\ touched' = Cuts
        BY <1>2 DEF Reload, FeedInv, FeedTypeOK
  <2>2. page' \in PageType /\ page'.etag = page.etag
        BY <1>0, <2>1 DEF Reloaded, PageType
  <2>3. PageHasOld'
        BY <2>1, <2>2, ListsTouched
  <2> QED BY <2>1, <2>2, <2>3
      DEF FeedInv, FeedTypeOK, PageType, PollsHaveOld, PollHasOld, HasOld
<1>3. CASE SwitchVersion
  <2>1. PICK v \in Cuts : page' = [page EXCEPT !.active = v, !.opened = TRUE]
        BY <1>0, <1>3 DEF SwitchVersion
  <2>2. UNCHANGED <<rows, clock, write, given, cuts, newest, landed, poll, edit, touched, late>>
        BY <1>3 DEF SwitchVersion
  <2>3. page' \in PageType /\ page'.etag = page.etag /\ page'.shown = page.shown
        BY <1>0, <2>1 DEF PageType
  <2> QED BY <2>2, <2>3
      DEF FeedInv, FeedTypeOK, PageType, PollsHaveOld, PollHasOld, PageHasOld, VersionHasOld, HasOld
<1> QED BY <1>1, <1>2, <1>3

LEMMA EditServedStep ==
  ASSUME FeedInv, NEW w \in Edits, EditServed(w)
  PROVE  FeedInv'
<1>0. /\ FeedTypeOK /\ edit[w] \in EditSent /\ edit[w].id \in Comments /\ edit[w].of \in Cuts
      /\ edit[w].was \in BOOLEAN /\ edit[w].kind \in {"add", "resolve", "delete", "edit"}
      /\ \A c \in Comments : rows[c] # NoTag => rows[c].of \in Cuts
      /\ edit \in [Edits -> EditSent \union {NoTag}]
      /\ UNCHANGED <<given, cuts, newest, landed, page, poll, touched, late>>
      BY DEF EditServed, FeedInv, FeedTypeOK, EditSent, Row
<1>1. edit' \in [Edits -> EditSent \union {NoTag}]
  <2>1. \A state \in {"served", "done"} :
          [edit EXCEPT ![w].state = state] \in [Edits -> EditSent \union {NoTag}]
        BY <1>0 DEF EditSent
  <2> QED BY <2>1 DEF EditServed
<1>2. CASE Removed(edit[w].id) /\ UNCHANGED <<clock, write>>
  <2>1. /\ rows' \in [Comments -> Row \union {NoTag}]
        /\ \A v, rev, items : HasOld(rows, v, rev, items) => HasOld(rows', v, rev, items)
        BY <1>0, <1>2, RemovalKeepsOld
  <2>2. FeedTypeOK'
        BY <1>0, <1>1, <1>2, <2>1 DEF FeedTypeOK
  <2> QED BY <1>0, <2>1, <2>2, RowsKeepInv
<1>3. CASE UNCHANGED rows
           /\ \E kind \in {"add", "resolve", "edit"}, v \in Cuts, done \in BOOLEAN :
                Stamped(w, kind, edit[w].id, v, done)
  <2>1. StampedWrite
        BY <1>0, <1>3, StampedIsWrite
  <2>2. FeedTypeOK'
        BY <1>0, <1>1, <1>3, <2>1 DEF FeedTypeOK, StampedWrite, WriteType
  <2> QED BY <1>0, <1>3, <2>2, RowsKeepInv
<1> QED BY <1>0, <1>2, <1>3 DEF EditServed

\* What the page shows when a write is sent is a list of items.
LEMMA OptimisticItems ==
  ASSUME NEW items \in SUBSET Item, NEW w \in Edits, NEW c \in Comments,
         NEW kind \in {"add", "resolve", "delete", "edit"}
  PROVE  Optimistic(kind, w, c, items) \in SUBSET Item
<1>1. /\ \A i \in items : i \in Item
      /\ [id |-> w, done |-> FALSE] \in Item
      BY DEF Item
<1>2. {IF i.id = c THEN [i EXCEPT !.done = ~@] ELSE i : i \in items} \in SUBSET Item
  <2>1. \A i \in Item : [i EXCEPT !.done = ~@] \in Item
        BY DEF Item
  <2> QED BY <1>1, <2>1
<1>3. items \union {[id |-> w, done |-> FALSE]} \in SUBSET Item
      BY <1>1
<1> QED BY <1>2, <1>3 DEF Optimistic

LEMMA SendEditStep ==
  ASSUME FeedInv, NEW w \in Edits, SendEdit(w)
  PROVE  FeedInv'
<1>0. page \in PageType
      BY DEF FeedInv, FeedTypeOK, PageType
<1> DEFINE v == page.active
<1>1. PICK kind \in {"add", "resolve", "delete", "edit"}, c \in Comments :
        /\ edit' = [edit EXCEPT ![w] =
             [kind |-> kind, of |-> v, id |-> c, state |-> "sent",
              was |-> kind = "resolve" /\ \E i \in ById(page.shown[v], c) : i.done,
              before |-> [u \in Cuts |-> IF kind = "delete" THEN page.shown[u] ELSE {}]]]
        /\ page' = [page EXCEPT !.shown[v] = Optimistic(kind, w, c, page.shown[v]), !.mutating = TRUE]
      BY DEF SendEdit
<1>2. /\ touched' = touched \union {v} /\ given' \subseteq Comments
      /\ UNCHANGED <<rows, clock, write, cuts, newest, landed, poll, late>>
      BY DEF SendEdit, FeedInv, FeedTypeOK
<1>3. v \in Cuts /\ page.shown[v] \in SUBSET Item
      BY <1>0 DEF PageType
<1>4. Optimistic(kind, w, c, page.shown[v]) \in SUBSET Item
      BY <1>3, OptimisticItems
<1>5. /\ page' \in PageType /\ page'.etag = page.etag
      /\ \A u \in Cuts \ {v} : page'.shown[u] = page.shown[u]
      BY <1>0, <1>1, <1>3, <1>4 DEF PageType
<1>6. edit' \in [Edits -> EditSent \union {NoTag}]
      BY <1>0, <1>1, <1>3 DEF FeedInv, FeedTypeOK, EditSent, PageType
<1>7. PageHasOld'
  <2>1. {v} \in SUBSET Cuts
        BY <1>3
  <2> HIDE DEF v
  <2> QED BY <1>2, <1>5, <2>1, ListsTouched
<1>8. FeedTypeOK'
      BY <1>2, <1>3, <1>5, <1>6 DEF FeedInv, FeedTypeOK, PageType
<1> QED BY <1>2, <1>7, <1>8 DEF FeedInv, PollsHaveOld, PollHasOld, HasOld

\* An answer replaces the lists it names as touched.
LEMMA AnswerStep ==
  ASSUME FeedInv, NEW w \in Edits, NEW shown \in [Cuts -> SUBSET Item], NEW lists \in SUBSET Cuts,
         \A v \in Cuts \ lists : shown[v] = page.shown[v], Answered(w, shown, lists)
  PROVE  FeedInv'
<1>0. page \in PageType
      BY DEF FeedInv, FeedTypeOK, PageType
<1>1. /\ page' = [page EXCEPT !.shown = shown, !.mutating = FALSE]
      /\ touched' = touched \union lists /\ edit' = [edit EXCEPT ![w] = NoTag]
      /\ UNCHANGED <<rows, clock, write, given, cuts, newest, landed, poll, late>>
      BY DEF Answered
<1>2. page' \in PageType /\ page'.etag = page.etag /\ page'.shown = shown
      BY <1>0, <1>1 DEF PageType
<1>3. PageHasOld'
      BY <1>1, <1>2, ListsTouched
<1>4. FeedTypeOK'
      BY <1>1, <1>2 DEF FeedInv, FeedTypeOK, PageType
<1> QED BY <1>1, <1>3, <1>4 DEF FeedInv, PollsHaveOld, PollHasOld, HasOld

LEMMA FeedAnswerSteps ==
  ASSUME FeedInv, NEW w \in Edits, EditAnswered(w) \/ EditFails(w)
  PROVE  FeedInv'
<1> DEFINE e == edit[w]
<1>0. /\ e \in EditSent /\ e.of \in Cuts /\ e.id \in Comments /\ e.was \in BOOLEAN
      /\ e.before \in [Cuts -> SUBSET Item] /\ page.shown \in [Cuts -> SUBSET Item]
      /\ e.kind \in {"add", "resolve", "delete", "edit"}
      BY DEF EditAnswered, EditFails, FeedInv, FeedTypeOK, EditSent
<1> HIDE DEF e
<1> DEFINE items == page.shown[e.of]
<1>5. items \in SUBSET Item
      BY <1>0
<1> HIDE DEF items
<1>1. /\ {IF i.id = w THEN [id |-> e.id, done |-> FALSE] ELSE i : i \in items} \in SUBSET Item
      /\ {IF i.id = e.id THEN [i EXCEPT !.done = e.was] ELSE i : i \in items} \in SUBSET Item
      /\ items \ ById(items, w) \in SUBSET Item
  <2>1. \A i \in items : i \in Item /\ [i EXCEPT !.done = e.was] \in Item
        BY <1>0, <1>5 DEF Item
  <2>2. [id |-> e.id, done |-> FALSE] \in Item
        BY <1>0 DEF Item
  <2> QED BY <2>1, <2>2
<1>2. CASE EditAnswered(w)
  <2>1. Answered(w, Confirmed(e, w, page.shown), {e.of})
        BY <1>2 DEF EditAnswered, e
  <2>2. /\ Confirmed(e, w, page.shown) \in [Cuts -> SUBSET Item]
        /\ \A v \in Cuts \ {e.of} : Confirmed(e, w, page.shown)[v] = page.shown[v]
        BY <1>0, <1>1 DEF Confirmed, items
  <2> QED BY <1>0, <2>1, <2>2, AnswerStep
<1>3. CASE EditFails(w) /\ e.kind = "delete"
  <2>1. Answered(w, RolledBack(e, w, page.shown), Cuts)
        BY <1>3 DEF EditFails, e
  <2>2. RolledBack(e, w, page.shown) \in [Cuts -> SUBSET Item]
        BY <1>0, <1>3 DEF RolledBack
  <2> QED BY <2>1, <2>2, AnswerStep
<1>4. CASE EditFails(w) /\ e.kind # "delete"
  <2>1. Answered(w, RolledBack(e, w, page.shown), {e.of})
        BY <1>4 DEF EditFails, e
  <2>2. /\ RolledBack(e, w, page.shown) \in [Cuts -> SUBSET Item]
        /\ \A v \in Cuts \ {e.of} : RolledBack(e, w, page.shown)[v] = page.shown[v]
        BY <1>0, <1>1, <1>4 DEF RolledBack, items
  <2> QED BY <1>0, <2>1, <2>2, AnswerStep
<1> QED BY <1>2, <1>3, <1>4

LEMMA StepFeed == FeedInv /\ [FeedNext]_feedVars => FeedInv'
<1> SUFFICES ASSUME FeedInv, [FeedNext]_feedVars PROVE FeedInv'
    OBVIOUS
<1>1. CASE UNCHANGED feedVars
      BY <1>1
      DEF feedVars, FeedInv, FeedTypeOK, PollsHaveOld, PollHasOld, PageHasOld, VersionHasOld, HasOld
<1> QED BY <1>1, FeedOthersSteps, WriteLandsStep, WriteFailsStep, PageSteps, AskStep, ServeSteps,
           ListLandsStep, SendEditStep, EditServedStep, FeedAnswerSteps DEF FeedNext

\* For any number of comments, versions, reads and writes in flight: a list that was not
\* changed here since it was read, and that the next poll would leave as it is, shows
\* every comment there is, as it is, unless a write that no revision tells was committed
\* late.
THEOREM OnlyLateWritesHideHolds == FeedSpec => []OnlyLateWritesHide
<1>1. ASSUME FeedInv PROVE OnlyLateWritesHide
  <2> SUFFICES ASSUME NEW v \in Cuts, Settled(v), v \notin touched \union late, NEW c \in RowsOf(v)
               PROVE  [id |-> c, done |-> rows[c].done] \in page.shown[v]
      BY DEF OnlyLateWritesHide, Listed
  <2>1. Revision(v) \in Revisions /\ rows[c].at <= Revision(v).last
        BY <1>1, RevisionIsNewest DEF FeedInv
  <2>2. page.etag[v] # NoTag /\ page.etag[v] = Revision(v)
        BY <2>1 DEF Settled
  <2>3. HasOld(rows, v, page.etag[v], page.shown[v])
        BY <1>1, <2>2 DEF FeedInv, PageHasOld, VersionHasOld
  <2> QED BY <2>1, <2>2, <2>3 DEF HasOld, RowsOf
<1> QED BY <1>1, InitFeed, StepFeed, PTL DEF FeedSpec

-----------------------------------------------------------------------------
(* The parts together.  They share no variable: a step of one scene is a   *)
(* step of its part and leaves the variables of the others alone.          *)

LEMMA SceneSteps ==
  [Next]_servicesVars =>
    /\ [UploadsNext]_uploadVars /\ [BillingNext]_billingVars /\ [InvitationsNext]_inviteVars
    /\ [AgentRunsNext]_agentVars /\ [CutReviewNext]_reviewVars /\ [ShortFormNext]_shortFormVars
    /\ [FeedNext]_feedVars /\ [EditListsNext]_editListVars
<1> SUFFICES ASSUME [Next]_servicesVars
             PROVE  /\ [UploadsNext]_uploadVars /\ [BillingNext]_billingVars
                    /\ [InvitationsNext]_inviteVars /\ [AgentRunsNext]_agentVars
                    /\ [CutReviewNext]_reviewVars /\ [ShortFormNext]_shortFormVars
                    /\ [FeedNext]_feedVars /\ [EditListsNext]_editListVars
    OBVIOUS
<1>1. CASE UNCHANGED servicesVars
      BY <1>1 DEF servicesVars
<1>2. CASE UploadsScene
      BY <1>2 DEF UploadsScene
<1>3. CASE BillingScene
      BY <1>3 DEF BillingScene
<1>4. CASE InvitationsScene
      BY <1>4 DEF InvitationsScene
<1>5. CASE AgentsScene
      BY <1>5 DEF AgentsScene
<1>6. CASE ReviewScene
      BY <1>6 DEF ReviewScene
<1>7. CASE ShortsScene
      BY <1>7 DEF ShortsScene
<1>8. CASE FeedScene
      BY <1>8 DEF FeedScene
<1>9. CASE EditsScene
      BY <1>9 DEF EditsScene
<1> QED BY <1>1, <1>2, <1>3, <1>4, <1>5, <1>6, <1>7, <1>8, <1>9 DEF Next

\* Composition: whatever scene runs, each part behaves as its own specification says, so
\* what is proved of a part holds of the parts side by side.
THEOREM PartsKeepTheirSpecs ==
  Spec => /\ UploadsSpec /\ BillingSpec /\ InvitationsSpec /\ AgentRunsSpec
          /\ CutReviewSpec /\ ShortFormSpec /\ FeedSpec /\ EditListsSpec
<1>1. Init => /\ UploadsInit /\ BillingInit /\ InvitationsInit /\ AgentRunsInit
              /\ CutReviewInit /\ ShortFormInit /\ FeedInit /\ EditListsInit
      BY DEF Init
<1> QED BY <1>1, SceneSteps, PTL
        DEF Spec, UploadsSpec, BillingSpec, InvitationsSpec, AgentRunsSpec, CutReviewSpec,
            ShortFormSpec, FeedSpec, EditListsSpec

\* The variables of every part keep their types at every step of every scene.
THEOREM TypesCorrect == Spec => []TypesOK
<1>1. InvitationsSpec => []InvitationsTypeOK
  <2>1. InviteInv => InvitationsTypeOK
        BY DEF InviteInv
  <2> QED BY <2>1, InitInvites, StepInvites, PTL DEF InvitationsSpec
<1>2. CutReviewSpec => []CutReviewTypeOK
  <2>1. ReviewInv => CutReviewTypeOK
        BY DEF ReviewInv
  <2> QED BY <2>1, InitReview, StepReview, PTL DEF CutReviewSpec
<1>3. ShortFormSpec => []ShortFormTypeOK
  <2>1. ShortInv => ShortFormTypeOK
        BY DEF ShortInv
  <2> QED BY <2>1, InitShort, StepShort, PTL DEF ShortFormSpec
<1>4. FeedSpec => []FeedTypeOK
  <2>1. FeedInv => FeedTypeOK
        BY DEF FeedInv
  <2> QED BY <2>1, InitFeed, StepFeed, PTL DEF FeedSpec
<1> QED BY <1>1, <1>2, <1>3, <1>4, PartsKeepTheirSpecs, UploadsTypeCorrect, BillingTypeCorrect,
           AgentRunsTypeCorrect, EditListsTypeCorrect, PTL DEF TypesOK
=============================================================================

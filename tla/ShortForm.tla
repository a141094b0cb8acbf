----------------------------- MODULE ShortForm -----------------------------
(***************************************************************************)
(* Short form: batches of candidate clips of one rendered cut.  A media    *)
(* job analyses a batch and proposes its candidates, an agent run may rank *)
(* them, an editor approves some, and a media job renders each into a      *)
(* video of its own.                                                       *)
(*                                                                         *)
(* Jobs come from pg-boss: a delivery that takes too long is delivered     *)
(* again while it goes on, so any number of runs of one job overlap, and   *)
(* the first that succeeds ends the job.                                   *)
(***************************************************************************)
EXTENDS Naturals, FiniteSets

CONSTANTS
  Batches,   \* batches of the cut's version
  Shorts,    \* bound: candidate rows, numbered as they are made
  Analyses,  \* runs of analysis jobs that can overlap
  Rankings,  \* bound: agent runs of kind SHORTS
  Clicks,    \* bound: approvals, each with its render job
  Renders,   \* runs of render jobs that can overlap
  Tries,     \* deliveries of a job
  UseAi,     \* config.useAi, with agents enabled
  Nothing,   \* no row; no run
  Deleted    \* a candidate that was deleted

ASSUME ShortNumbersAssumption == Shorts \subseteq Nat /\ Tries \in Nat \ {0} /\ UseAi \in BOOLEAN
ASSUME NothingAssumption ==
  /\ Nothing \notin Batches \cup Shorts \cup Rankings \cup Clicks
  /\ Deleted # Nothing

VARIABLES
  batch,     \* short_form_batches
  short,     \* short_form_candidates
  videos,    \* videos made for a candidate that still exist
  due,       \* deliveries an analysis job has left
  analysis,  \* runs of analysis jobs
  ranking,   \* agent runs, and the candidates each has loaded
  died,      \* batches whose last worker died
  opened,    \* batches a render request has found READY
  editable,  \* candidates an edit request has found editable
  click,     \* render jobs: their candidate, and the deliveries left
  render     \* runs of render jobs

shortFormVars ==
  <<batch, short, videos, due, analysis, ranking, died, opened, editable, click, render>>

Active == {"PENDING", "ANALYZING", "RANKING"}

BatchRow == [status : Active \cup {"READY", "FAILED"}, run : Rankings \cup {Nothing}]
Candidate ==
  [batch : Batches, output : BOOLEAN,
   status : {"PROPOSED", "REJECTED", "APPROVED", "RENDERING", "READY", "FAILED"}]
Analysis == [batch : Batches, at : {"begun", "analyzing", "planned", "failing", "done"}]
Ranking ==
  [batch : Batches, saw : SUBSET Shorts,
   status : {"PENDING", "RUNNING", "loaded", "failing", "clearing", "over"}]
RenderJob == [short : Shorts, left : 0..Tries]
RenderRun ==
  [click : Clicks, at : {"begun", "resumed", "resuming", "rendering", "reused", "linked",
                         "probing", "done", "failing"}]

ASSUME NoRowAssumption ==
  /\ Nothing \notin BatchRow \cup Candidate \cup Analysis \cup Ranking \cup RenderJob \cup RenderRun
  /\ Deleted \notin Candidate

ShortFormTypeOK ==
  /\ batch \in [Batches -> BatchRow \cup {Nothing}]
  /\ short \in [Shorts -> Candidate \cup {Nothing, Deleted}]
  /\ videos \in [Shorts -> Nat]
  /\ due \in [Batches -> 0..Tries]
  /\ analysis \in [Analyses -> Analysis \cup {Nothing}]
  /\ ranking \in [Rankings -> Ranking \cup {Nothing}]
  /\ died \subseteq Batches /\ opened \subseteq Batches /\ editable \subseteq Shorts
  /\ click \in [Clicks -> RenderJob \cup {Nothing}]
  /\ render \in [Renders -> RenderRun \cup {Nothing}]

ShortFormInit ==
  /\ batch = [b \in Batches |-> Nothing]
  /\ short = [c \in Shorts |-> Nothing]
  /\ videos = [c \in Shorts |-> 0]
  /\ due = [b \in Batches |-> 0]
  /\ analysis = [a \in Analyses |-> Nothing]
  /\ ranking = [r \in Rankings |-> Nothing]
  /\ died = {} /\ opened = {} /\ editable = {}
  /\ click = [k \in Clicks |-> Nothing]
  /\ render = [x \in Renders |-> Nothing]

Exists(c) == short[c] \notin {Nothing, Deleted}
ShortsOf(b) == {c \in Shorts : Exists(c) /\ short[c].batch = b}
IsActive(b) == batch[b] # Nothing /\ batch[b].status \in Active

\* short_form_batches_active_source_key: one active batch of a version.
OthersActive(b) == \E other \in Batches \ {b} : IsActive(other)

SetBatch(b, status) == batch' = [batch EXCEPT ![b].status = status]

-----------------------------------------------------------------------------
(* POST shorts: the batch and its analysis job, one transaction.           *)

CreateBatch(b) ==
  /\ batch[b] = Nothing /\ ~OthersActive(b)
  /\ batch' = [batch EXCEPT ![b] = [status |-> "PENDING", run |-> Nothing]]
  /\ due' = [due EXCEPT ![b] = Tries]
  /\ UNCHANGED <<short, videos, analysis, ranking, died, opened, editable, click, render>>

-----------------------------------------------------------------------------
(* analyzeShortFormBatch.                                                  *)

\* A delivery; what a finished analysis left is kept, and the job is over.
StartAnalysis(a, b) ==
  /\ analysis[a] = Nothing /\ due[b] > 0
  /\ IF batch[b].status \in {"READY", "RANKING"} /\ ShortsOf(b) # {}
       THEN /\ due' = [due EXCEPT ![b] = 0]
            /\ UNCHANGED analysis
       ELSE /\ due' = [due EXCEPT ![b] = @ - 1]
            /\ analysis' = [analysis EXCEPT ![a] = [batch |-> b, at |-> "begun"]]
  /\ UNCHANGED <<batch, short, videos, ranking, died, opened, editable, click, render>>

\* Another batch became active meanwhile: the update fails, outside of the try.
MarkAnalyzing(a) ==
  LET b == analysis[a].batch
  IN /\ analysis[a] # Nothing /\ analysis[a].at = "begun"
     /\ IF OthersActive(b)
          THEN /\ analysis' = [analysis EXCEPT ![a] = Nothing]
               /\ UNCHANGED batch
          ELSE /\ analysis' = [analysis EXCEPT ![a].at = "analyzing"]
               /\ SetBatch(b, "ANALYZING")
     /\ UNCHANGED <<short, videos, due, ranking, died, opened, editable, click, render>>

MarkRanking(a) ==
  LET b == analysis[a].batch
  IN /\ analysis[a] # Nothing /\ analysis[a].at = "analyzing"
     /\ IF OthersActive(b)
          THEN /\ analysis' = [analysis EXCEPT ![a].at = "failing"]
               /\ UNCHANGED batch
          ELSE /\ analysis' = [analysis EXCEPT ![a].at = "planned"]
               /\ SetBatch(b, "RANKING")
     /\ UNCHANGED <<short, videos, due, ranking, died, opened, editable, click, render>>

\* No transcript, a plan that fails.
FailAnalysis(a) ==
  /\ analysis[a] # Nothing /\ analysis[a].at \in {"analyzing", "planned"}
  /\ analysis' = [analysis EXCEPT ![a].at = "failing"]
  /\ UNCHANGED <<batch, short, videos, due, ranking, died, opened, editable, click, render>>

Fresh(S, n) == n \in S /\ \A m \in S : n <= m

\* DELETE ... WHERE output_video_id IS NULL.
Kept(b) == {c \in ShortsOf(b) : short[c].output}

\* One transaction: the old candidates, the new one, and the ranking's run.  A
\* candidate that is kept has a rank of the new plan, so the insert fails.
CommitPlan(a, c, r) ==
  LET b == analysis[a].batch
  IN /\ analysis[a] # Nothing /\ analysis[a].at = "planned"
     /\ Kept(b) = {} /\ (UseAi => ~OthersActive(b))
     /\ Fresh({d \in Shorts : short[d] = Nothing}, c)
     /\ short' = [d \in Shorts |->
          IF d = c THEN [batch |-> b, status |-> "PROPOSED", output |-> FALSE]
          ELSE IF d \in ShortsOf(b) THEN Deleted ELSE short[d]]
     /\ IF UseAi
          THEN /\ ranking[r] = Nothing
               /\ ranking' = [ranking EXCEPT ![r] =
                    [batch |-> b, status |-> "PENDING", saw |-> {}]]
               /\ batch' = [batch EXCEPT ![b] = [status |-> "RANKING", run |-> r]]
          ELSE /\ SetBatch(b, "READY")
               /\ UNCHANGED ranking
     /\ analysis' = [analysis EXCEPT ![a].at = "done"]
     /\ UNCHANGED <<videos, due, died, opened, editable, click, render>>

\* The job is completed after the plan is committed.
EndAnalysis(a) ==
  /\ analysis[a] # Nothing /\ analysis[a].at = "done"
  /\ analysis' = [analysis EXCEPT ![a] = Nothing]
  /\ due' = [due EXCEPT ![analysis[a].batch] = 0]
  /\ UNCHANGED <<batch, short, videos, ranking, died, opened, editable, click, render>>

RefusePlan(a) ==
  LET b == analysis[a].batch
  IN /\ analysis[a] # Nothing /\ analysis[a].at = "planned"
     /\ Kept(b) # {} \/ (UseAi /\ OthersActive(b))
     /\ analysis' = [analysis EXCEPT ![a].at = "failing"]
     /\ UNCHANGED <<batch, short, videos, due, ranking, died, opened, editable, click, render>>

MarkFailed(a) ==
  /\ analysis[a] # Nothing /\ analysis[a].at = "failing"
  /\ SetBatch(analysis[a].batch, "FAILED")
  /\ analysis' = [analysis EXCEPT ![a] = Nothing]
  /\ UNCHANGED <<short, videos, due, ranking, died, opened, editable, click, render>>

\* Nobody takes up what it left if no delivery is left, and perhaps nobody if a plan
\* is there: its job ends with it, and a delivery leaves it as it is.
AnalysisDies(a) ==
  LET b == analysis[a].batch
  IN /\ analysis[a] # Nothing
     /\ analysis' = [analysis EXCEPT ![a] = Nothing]
     /\ died' = IF due[b] = 0 \/ (ShortsOf(b) # {} /\ analysis[a].at # "done")
                  THEN died \cup {b} ELSE died
     /\ UNCHANGED <<batch, short, videos, due, ranking, opened, editable, click, render>>

-----------------------------------------------------------------------------
(* executeAgentRun of a SHORTS run, by the one worker that claimed it.     *)

ClaimRanking(r) ==
  /\ ranking[r] # Nothing /\ ranking[r].status = "PENDING"
  /\ ranking' = [ranking EXCEPT ![r].status = "RUNNING"]
  /\ UNCHANGED <<batch, short, videos, due, analysis, died, opened, editable, click, render>>

\* The batch whose run this is, if it still is some batch's.
LoadRanking(r) ==
  LET b == ranking[r].batch
  IN /\ ranking[r] # Nothing /\ ranking[r].status = "RUNNING"
     /\ ranking' = [ranking EXCEPT ![r] =
          IF batch[b].run = r THEN [ranking[r] EXCEPT !.status = "loaded", !.saw = ShortsOf(b)]
          ELSE [ranking[r] EXCEPT !.status = "failing"]]
     /\ UNCHANGED <<batch, short, videos, due, analysis, died, opened, editable, click, render>>

\* The ranks, the run's status and the batch's are one transaction; it fails when
\* a candidate is gone.
CommitRanks(r) ==
  /\ ranking[r] # Nothing /\ ranking[r].status = "loaded"
  /\ \A c \in ranking[r].saw : Exists(c)
  /\ ranking' = [ranking EXCEPT ![r].status = "over"]
  /\ SetBatch(ranking[r].batch, "READY")
  /\ UNCHANGED <<short, videos, due, analysis, died, opened, editable, click, render>>

\* The run is FAILED first.
FailRanking(r) ==
  /\ ranking[r] # Nothing /\ ranking[r].status = "loaded"
  /\ ranking' = [ranking EXCEPT ![r].status = "failing"]
  /\ UNCHANGED <<batch, short, videos, due, analysis, died, opened, editable, click, render>>

\* Mutant of FindBatch: the failed run's batch is left as it is.
FindNoBatch(r) ==
  /\ ranking[r] # Nothing /\ ranking[r].status = "failing"
  /\ ranking' = [ranking EXCEPT ![r].status = "over"]
  /\ UNCHANGED <<batch, short, videos, due, analysis, died, opened, editable, click, render>>

FindBatch(r) ==
  /\ ranking[r] # Nothing /\ ranking[r].status = "failing"
  /\ ranking' = [ranking EXCEPT ![r].status =
                   IF batch[ranking[r].batch].run = r THEN "clearing" ELSE "over"]
  /\ UNCHANGED <<batch, short, videos, due, analysis, died, opened, editable, click, render>>

\* "deterministic ranking was kept."
ClearBatch(r) ==
  /\ ranking[r] # Nothing /\ ranking[r].status = "clearing"
  /\ ranking' = [ranking EXCEPT ![r].status = "over"]
  /\ SetBatch(ranking[r].batch, "READY")
  /\ UNCHANGED <<short, videos, due, analysis, died, opened, editable, click, render>>

\* The agent worker stops or dies with the run in hand: nobody takes it up again.
RankerDies(r) ==
  /\ ranking[r] # Nothing /\ ranking[r].status \notin {"PENDING", "over"}
  /\ ranking' = [ranking EXCEPT ![r].status = "over"]
  /\ died' = died \cup {ranking[r].batch}
  /\ UNCHANGED <<batch, short, videos, due, analysis, opened, editable, click, render>>

-----------------------------------------------------------------------------
(* The editor.  What a request has found may be old when it acts on it.    *)

FindReady(b) ==
  /\ batch[b] # Nothing /\ batch[b].status = "READY"
  /\ opened' = opened \cup {b}
  /\ UNCHANGED <<batch, short, videos, due, analysis, ranking, died, editable, click, render>>

\* POST render: one transaction under the batch's lock.
Approve(k, c) ==
  /\ click[k] = Nothing /\ Exists(c) /\ short[c].batch \in opened
  /\ short[c].status \in {"PROPOSED", "APPROVED", "FAILED"}
  /\ short' = [short EXCEPT ![c].status = "APPROVED"]
  /\ click' = [click EXCEPT ![k] = [short |-> c, left |-> Tries]]
  /\ UNCHANGED <<batch, videos, due, analysis, ranking, died, opened, editable, render>>

FindEditable(c) ==
  /\ Exists(c) /\ short[c].status \notin {"RENDERING", "READY"}
  /\ editable' = editable \cup {c}
  /\ UNCHANGED <<batch, short, videos, due, analysis, ranking, died, opened, click, render>>

\* PATCH shorts, with `rejected`.
Edit(c, status) ==
  /\ Exists(c) /\ c \in editable
  /\ short' = [short EXCEPT ![c].status = status]
  /\ UNCHANGED <<batch, videos, due, analysis, ranking, died, opened, editable, click, render>>

-----------------------------------------------------------------------------
(* renderShortFormCandidate.                                               *)

ShortOf(x) == click[render[x].click].short

\* The short's video is deleted: ON DELETE SET NULL.  The render that made it can
\* no longer write it to the candidate.
DeleteVideo(c) ==
  /\ Exists(c) /\ short[c].output
  /\ short' = [short EXCEPT ![c].output = FALSE]
  /\ videos' = [videos EXCEPT ![c] = 0]
  /\ render' = [x \in Renders |->
       IF render[x] # Nothing /\ render[x].at = "linked" /\ ShortOf(x) = c
         THEN [render[x] EXCEPT !.at = "failing"] ELSE render[x]]
  /\ UNCHANGED <<batch, due, analysis, ranking, died, opened, editable, click>>

SetShort(c, status) ==
  short' = IF Exists(c) THEN [short EXCEPT ![c].status = status] ELSE short

\* A delivery: done before; refused, with nothing written; or begun, on what the
\* row says of an output.
StartRender(x, k) ==
  LET c == click[k].short
      done == Exists(c) /\ short[c].status = "READY" /\ short[c].output
      allowed == Exists(c) /\ short[c].status \in {"APPROVED", "FAILED", "RENDERING"}
  IN /\ render[x] = Nothing /\ click[k] # Nothing /\ click[k].left > 0
     /\ click' = [click EXCEPT ![k].left = IF done THEN 0 ELSE @ - 1]
     /\ render' = [render EXCEPT ![x] =
          IF ~allowed \/ done THEN Nothing
          ELSE [click |-> k, at |-> IF short[c].output THEN "resumed" ELSE "begun"]]
     /\ UNCHANGED <<batch, short, videos, due, analysis, ranking, died, opened, editable>>

MarkRendering(x) ==
  /\ render[x] # Nothing /\ render[x].at \in {"begun", "resumed"}
  /\ SetShort(ShortOf(x), "RENDERING")
  /\ render' = [render EXCEPT ![x].at = IF @ = "begun" THEN "rendering" ELSE "resuming"]
  /\ UNCHANGED <<batch, videos, due, analysis, ranking, died, opened, editable, click>>

\* The output it read of: its transcript and its probe, or it is gone.
Resume(x) ==
  /\ render[x] # Nothing /\ render[x].at = "resuming"
  /\ render' = [render EXCEPT ![x].at = IF videos[ShortOf(x)] > 0 THEN "reused" ELSE "rendering"]
  /\ UNCHANGED <<batch, short, videos, due, analysis, ranking, died, opened, editable, click>>

\* Mutant of MayLink: the rows the update changed are not counted.
MayLinkAnyway(c) == Exists(c)

\* UPDATE ... WHERE id AND output_video_id IS NULL.
MayLink(c) == Exists(c) /\ ~short[c].output

\* createOutputVideo and its onCreated: the video and the link, one transaction.
LinkOutput(x) ==
  LET c == ShortOf(x)
  IN /\ render[x] # Nothing /\ render[x].at = "rendering"
     /\ IF MayLink(c)
          THEN /\ short' = [short EXCEPT ![c].output = TRUE]
               /\ videos' = [videos EXCEPT ![c] = @ + 1]
               /\ render' = [render EXCEPT ![x].at = "linked"]
          ELSE /\ render' = [render EXCEPT ![x].at = "failing"]
               /\ UNCHANGED <<short, videos>>
     /\ UNCHANGED <<batch, due, analysis, ranking, died, opened, editable, click>>

\* READY; a new output's probe is asked for after it.
FinishRender(x) ==
  /\ render[x] # Nothing /\ render[x].at \in {"reused", "linked"}
  /\ SetShort(ShortOf(x), "READY")
  /\ render' = [render EXCEPT ![x].at = IF @ = "linked" THEN "probing" ELSE "done"]
  /\ UNCHANGED <<batch, videos, due, analysis, ranking, died, opened, editable, click>>

EndShortRender(x) ==
  /\ render[x] # Nothing /\ render[x].at \in {"probing", "done"}
  /\ click' = [click EXCEPT ![render[x].click].left = 0]
  /\ render' = [render EXCEPT ![x] = Nothing]
  /\ UNCHANGED <<batch, short, videos, due, analysis, ranking, died, opened, editable>>

FailRender(x) ==
  /\ render[x] # Nothing /\ render[x].at \in {"resuming", "rendering", "reused", "linked", "probing"}
  /\ render' = [render EXCEPT ![x].at = "failing"]
  /\ UNCHANGED <<batch, short, videos, due, analysis, ranking, died, opened, editable, click>>

MarkShortFailed(x) ==
  /\ render[x] # Nothing /\ render[x].at = "failing"
  /\ SetShort(ShortOf(x), "FAILED")
  /\ render' = [render EXCEPT ![x] = Nothing]
  /\ UNCHANGED <<batch, videos, due, analysis, ranking, died, opened, editable, click>>

RenderDies(x) ==
  /\ render[x] # Nothing
  /\ render' = [render EXCEPT ![x] = Nothing]
  /\ UNCHANGED <<batch, short, videos, due, analysis, ranking, died, opened, editable, click>>

-----------------------------------------------------------------------------
AnalysisNext ==
  \E a \in Analyses :
    \/ MarkAnalyzing(a) \/ MarkRanking(a) \/ FailAnalysis(a) \/ RefusePlan(a)
    \/ EndAnalysis(a) \/ MarkFailed(a) \/ AnalysisDies(a)
    \/ \E b \in Batches : StartAnalysis(a, b)
    \/ \E c \in Shorts, r \in Rankings : CommitPlan(a, c, r)

RankingNext ==
  \E r \in Rankings :
    \/ ClaimRanking(r) \/ LoadRanking(r) \/ CommitRanks(r) \/ FailRanking(r)
    \/ FindBatch(r) \/ ClearBatch(r) \/ RankerDies(r)

EditorNext ==
  \/ \E b \in Batches : CreateBatch(b) \/ FindReady(b)
  \/ \E c \in Shorts : FindEditable(c) \/ DeleteVideo(c)
  \/ \E c \in Shorts, k \in Clicks : Approve(k, c)
  \/ \E c \in Shorts, status \in {"PROPOSED", "REJECTED"} : Edit(c, status)

RenderNext ==
  \E x \in Renders :
    \/ MarkRendering(x) \/ Resume(x) \/ LinkOutput(x) \/ FinishRender(x) \/ EndShortRender(x)
    \/ FailRender(x) \/ MarkShortFailed(x) \/ RenderDies(x)
    \/ \E k \in Clicks : StartRender(x, k)

ShortFormNext == AnalysisNext \/ RankingNext \/ EditorNext \/ RenderNext

ShortFormSpec == ShortFormInit /\ [][ShortFormNext]_shortFormVars

-----------------------------------------------------------------------------
(* Properties.                                                             *)

\* However renders, re-analyses and edits overlap, a candidate has at most one
\* video, and a video whose candidate is gone is never made: "another render
\* already linked it" rolls the video back.
OneVideoPerShort ==
  \A c \in Shorts : videos[c] = IF Exists(c) /\ short[c].output THEN 1 ELSE 0

RankedBy(b, r) ==
  ranking[r] # Nothing /\ ranking[r].batch = b /\ ranking[r].status # "over" /\ batch[b].run = r

\* An active batch keeps every other one of its version out, so somebody is always
\* left to settle it: a delivery, a run of its analysis or its ranking.  The one
\* excuse is a worker that died on it when no delivery was left or a plan was there
\* (a throw outside the job's try leaves what a death leaves).
ActiveBatchHasWork ==
  \A b \in Batches :
    IsActive(b) =>
      \/ due[b] > 0 \/ b \in died
      \/ \E a \in Analyses : analysis[a] # Nothing /\ analysis[a].batch = b
      \/ \E r \in Rankings : RankedBy(b, r)
=============================================================================

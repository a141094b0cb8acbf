----------------------------- MODULE CutReview -----------------------------
(***************************************************************************)
(* The review of a rough cut in one browser tab: a mounted hook that the   *)
(* page points at one video after another, with the loads, saves and       *)
(* renders it has under way, and the rows behind them, which other         *)
(* reviewers and the worker change too.                                    *)
(*                                                                         *)
(* A review's overrides are the set of its decisions, each of the video it *)
(* was made on; "no review" and an empty one are the same, as              *)
(* overridesEqual has it.                                                  *)
(***************************************************************************)
EXTENDS Naturals

CONSTANTS
  Videos,       \* each with a rough cut of its own
  Options,      \* decisions that can be made on a video
  Loads,        \* loads that can be under way at once
  Generations,  \* bound: how often the page is pointed at another video
  Absent        \* nothing loaded, rendered or under way

ASSUME GenerationsAssumption == Generations \in Nat
ASSUME AbsentAssumption == Absent \notin Videos

VARIABLES
  stored,        \* rough_cuts.overrides
  rendered,      \* rough_cuts.renderedOverrides
  rendering,     \* cuts with an active render job
  open,          \* videoId
  generation,    \* generationRef
  cut,           \* the rough cut of the review in hand
  loaded,        \* loadedRef
  lastRendered,  \* lastRenderedRef
  saved,         \* savedRef
  draft,         \* draftRef
  inFlight,      \* inFlightRef
  loading,       \* loads under way
  change         \* the save or render under way: busyRef

serverVars == <<stored, rendered, rendering>>
hookVars == <<open, generation, cut, loaded, lastRendered, saved, draft, inFlight>>
reviewVars == <<serverVars, hookVars, loading, change>>

Decisions == Videos \X Options
ReviewRow == [stored : SUBSET Decisions, rendered : SUBSET Decisions, rendering : BOOLEAN]

CutReviewTypeOK ==
  /\ stored \in [Videos -> SUBSET Decisions]
  /\ rendered \in [Videos -> SUBSET Decisions]
  /\ rendering \subseteq Videos
  /\ open \in Videos /\ generation \in 0..Generations
  /\ cut \in Videos \cup {Absent}
  /\ loaded \in BOOLEAN /\ inFlight \in BOOLEAN
  /\ lastRendered \in SUBSET Decisions
  /\ saved \in SUBSET Decisions /\ draft \in SUBSET Decisions
  /\ loading \in [Loads ->
       [video : Videos, generation : 0..Generations, row : ReviewRow \cup {Absent}] \cup {Absent}]
  /\ change \in [cut : Videos, generation : 0..Generations, body : SUBSET Decisions,
                 at : {"save", "saved", "render", "queued", "conflict", "failed"}]
       \cup {Absent}

CutReviewInit ==
  /\ stored = [v \in Videos |-> {}]
  /\ rendered = [v \in Videos |-> {}]
  /\ rendering = {}
  /\ open \in Videos /\ generation = 0
  /\ cut = Absent /\ loaded = FALSE /\ inFlight = FALSE
  /\ lastRendered = {} /\ saved = {} /\ draft = {}
  /\ loading = [l \in Loads |-> Absent]
  /\ change = Absent

-----------------------------------------------------------------------------
(* Other reviewers, and the worker.                                        *)

OtherSaves(v, n) ==
  /\ stored' = [stored EXCEPT ![v] = {<<v, n>>}]
  /\ UNCHANGED <<rendered, rendering, hookVars, loading, change>>

\* The job is over: with what was stored, or failed.
EndRender(v) ==
  /\ v \in rendering
  /\ rendering' = rendering \ {v}
  /\ rendered' \in {rendered, [rendered EXCEPT ![v] = stored[v]]}
  /\ UNCHANGED <<stored, hookVars, loading, change>>

-----------------------------------------------------------------------------
(* The hook is pointed at a video: what it held is dropped, then it loads. *)

Ask(l, v, g) ==
  /\ loading[l] = Absent
  /\ loading' = [loading EXCEPT ![l] = [video |-> v, generation |-> g, row |-> Absent]]

\* Mutant of Dropped: the video that is left keeps its state.
DroppedNothing == UNCHANGED <<cut, loaded, lastRendered, saved, draft>>

Dropped ==
  /\ cut' = Absent /\ loaded' = FALSE
  /\ lastRendered' = {} /\ saved' = {} /\ draft' = {}

Switch(v, l) ==
  /\ v # open /\ generation < Generations
  /\ open' = v /\ generation' = generation + 1
  /\ Dropped
  /\ inFlight' = TRUE
  /\ Ask(l, v, generation')
  /\ UNCHANGED <<serverVars, change>>

\* A poll, a reload, the load of a hook that is enabled.
Load(l) ==
  /\ ~inFlight
  /\ inFlight' = TRUE
  /\ Ask(l, open, generation)
  /\ UNCHANGED <<serverVars, open, generation, cut, loaded, lastRendered, saved, draft, change>>

ReadRow(l) ==
  LET v == loading[l].video
  IN /\ loading[l] # Absent /\ loading[l].row = Absent
     /\ loading' = [loading EXCEPT ![l].row =
          [stored |-> stored[v], rendered |-> rendered[v], rendering |-> v \in rendering]]
     /\ UNCHANGED <<serverVars, hookVars, change>>

IsStale(g) == g # generation

\* The reply of a video already left, or an error.
DropReply(l) ==
  /\ loading[l] # Absent
  /\ loading' = [loading EXCEPT ![l] = Absent]
  /\ inFlight' = (inFlight /\ IsStale(loading[l].generation))
  /\ UNCHANGED <<serverVars, open, generation, cut, loaded, lastRendered, saved, draft, change>>

\* Mutant of Adopted: the draft follows the row whatever was decided meanwhile.
AdoptedAlways(row) == row.stored

\* "Unsaved work outlives a reload".
Adopted(row) ==
  IF ~loaded \/ (~row.rendering /\ row.rendered # lastRendered /\ draft = saved)
    THEN row.stored ELSE draft

LandReply(l) ==
  LET row == loading[l].row
  IN /\ loading[l] # Absent /\ row # Absent /\ ~IsStale(loading[l].generation)
     /\ loading' = [loading EXCEPT ![l] = Absent]
     /\ inFlight' = FALSE
     /\ cut' = loading[l].video /\ loaded' = TRUE
     /\ saved' = row.stored
     /\ draft' = Adopted(row)
     /\ lastRendered' = IF loaded /\ row.rendering THEN lastRendered ELSE row.rendered
     /\ UNCHANGED <<serverVars, open, generation, change>>

-----------------------------------------------------------------------------
(* The reviewer.                                                           *)

\* setCutAction, addExtraCutFromTimeline, removeExtraCut.
Decide(n) ==
  /\ cut # Absent
  /\ draft' = IF <<open, n>> \in draft THEN draft \ {<<open, n>>} ELSE draft \cup {<<open, n>>}
  /\ UNCHANGED <<serverVars, open, generation, cut, loaded, lastRendered, saved, inFlight,
                 loading, change>>

\* "One mutation at a time", whichever video it is of.
Begin(at) ==
  /\ cut # Absent /\ change = Absent
  /\ change' = [cut |-> cut, generation |-> generation, body |-> draft, at |-> at]
  /\ UNCHANGED <<serverVars, hookVars, loading>>

Save == Begin("save")
Render == Begin("render")

\* PUT overrides.
StoreOverrides ==
  /\ change # Absent /\ change.at = "save"
  /\ stored' = [stored EXCEPT ![change.cut] = change.body]
  /\ change' = [change EXCEPT !.at = "saved"]
  /\ UNCHANGED <<rendered, rendering, hookVars, loading>>

\* POST render, under the cut's lock.
QueueRender ==
  /\ change # Absent /\ change.at = "render"
  /\ rendering' = rendering \cup {change.cut}
  /\ change' = [change EXCEPT !.at = IF change.cut \in rendering THEN "conflict" ELSE "queued"]
  /\ UNCHANGED <<stored, rendered, hookVars, loading>>

\* The request fails, or its answer is lost.
FailChange ==
  /\ change # Absent /\ change.at # "failed"
  /\ change' = [change EXCEPT !.at = "failed"]
  /\ UNCHANGED <<serverVars, hookVars, loading>>

\* The draft becomes what was stored.
LandSave ==
  /\ change # Absent /\ change.at = "saved" /\ ~IsStale(change.generation)
  /\ saved' = change.body /\ draft' = change.body
  /\ change' = Absent
  /\ UNCHANGED <<serverVars, open, generation, cut, loaded, lastRendered, inFlight, loading>>

\* Somebody else's render: the row is loaded again, unless a load is under way.
LandConflict(l) ==
  /\ change # Absent /\ change.at = "conflict" /\ ~IsStale(change.generation)
  /\ change' = Absent
  /\ IF inFlight THEN UNCHANGED <<loading, inFlight>>
     ELSE inFlight' = TRUE /\ Ask(l, open, generation)
  /\ UNCHANGED <<serverVars, open, generation, cut, loaded, lastRendered, saved, draft>>

\* Nothing that the properties look at follows an answer of a video already left, a
\* failure or a render that was queued.
EndChange ==
  /\ change # Absent /\ change.at \notin {"save", "render"}
  /\ IsStale(change.generation) \/ change.at \in {"failed", "queued"}
  /\ change' = Absent
  /\ UNCHANGED <<serverVars, hookVars, loading>>

-----------------------------------------------------------------------------
CutReviewNext ==
  \/ \E v \in Videos : EndRender(v) \/ \E n \in Options : OtherSaves(v, n)
  \/ \E v \in Videos, l \in Loads : Switch(v, l)
  \/ \E l \in Loads :
       \/ Load(l) \/ ReadRow(l) \/ DropReply(l) \/ LandReply(l) \/ LandConflict(l)
  \/ \E n \in Options : Decide(n)
  \/ Save \/ Render \/ StoreOverrides \/ QueueRender \/ FailChange \/ LandSave \/ EndChange

CutReviewSpec == CutReviewInit /\ [][CutReviewNext]_reviewVars

-----------------------------------------------------------------------------
(* Properties.                                                             *)

Of(v, decisions) == decisions \subseteq {v} \X Options

\* Whatever replies are late, the decisions of one video are never shown on,
\* saved to or rendered into another ("one Save wrote the first video's decisions
\* onto the second one's run").
OwnDecisions ==
  /\ Of(open, draft) /\ Of(open, saved) /\ cut \in {open, Absent}
  /\ \A v \in Videos : Of(v, stored[v]) /\ Of(v, rendered[v])

\* "Unsaved work outlives a reload": a reply that lands leaves a draft that differs
\* from what was last known to be stored as it is, after the first load.
UnsavedOutlivesReload ==
  [][\A l \in Loads :
       loading[l] # Absent /\ loading'[l] = Absent /\ loaded /\ draft # saved
         => draft' = draft]_reviewVars
=============================================================================

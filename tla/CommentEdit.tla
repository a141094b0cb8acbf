---------------------------- MODULE CommentEdit ----------------------------
(***************************************************************************)
(* AI editing from timeline comments: the route's actions on a comment's   *)
(* edit task, the agent worker that plans a draft, and the render job that *)
(* makes the draft's video and pins it to the tasks.                       *)
(*                                                                         *)
(* A route call reads its task and its group before it takes the group's   *)
(* advisory locks, so a call is two steps; what runs under the locks is    *)
(* one step, as every writer of a task's assignment takes them.  Comment   *)
(* edits and deletions, the pin of a render and deletions of versions take *)
(* no lock and come between any two steps.                                 *)
(*                                                                         *)
(* A draft's rough cut is made together with its first render job and is   *)
(* named by it; task.job stands for renderJobId and roughCutId, which are  *)
(* written together and differ only once that rough cut is deleted (job's  *)
(* kept).  Plans, ranges, presets and sources are abstracted: a check on   *)
(* them is a refusal or a failure that may happen.                         *)
(***************************************************************************)
EXTENDS Naturals, FiniteSets

CONSTANTS
  Comments,             \* timeline comments of one version
  Editable, Deletable,  \* bounds: the comments other routes edit, and delete
  Removable,            \* bound: the drafts whose rough cut is deleted
  Texts,                \* the feedback texts a comment can have
  Runs, Jobs, Versions, \* bound: agent_runs, media_jobs and output versions made
  Calls, Actions,       \* bounds: edit-task calls in flight, what they ask,
  Paired,               \* and what is asked while another call is in flight
  MayStop,              \* whether the workers may be stopped at work
  None

Ops == {"queue", "run", "accept", "revise", "undo", "human"}

ASSUME BoundsAssumption ==
  /\ Editable \subseteq Comments /\ Deletable \subseteq Comments
  /\ Removable \subseteq Jobs /\ Actions \subseteq Ops /\ Paired \subseteq Ops
ASSUME MayStopAssumption == MayStop \in BOOLEAN
ASSUME NoneAssumption ==
  /\ None \notin Runs /\ None \notin Jobs /\ None \notin Versions /\ None \notin Texts
  /\ Texts # {}

VARIABLES
  comment,  \* comments: [alive, resolved, text]
  task,     \* comment_edit_tasks, one at most per comment
  archive,  \* comment_edit_revisions: archive[c][r], the status run r's draft had
  run,      \* agent_runs.status
  exec,     \* the agent worker's execution of a run
  job,      \* media_jobs of the drafts
  version,  \* output versions: the rough cut each was rendered from
  call      \* the edit-task calls in flight

vars == <<comment, task, archive, run, exec, job, version, call>>

Task == [status : {"none", "HUMAN", "QUEUED", "PLANNING", "RENDERING", "ACCEPTED"},
         run : Runs \cup {None}, job : Jobs \cup {None},
         version : Versions \cup {None},   \* outputVersionId
         text : Texts \cup {None},         \* snapshot.content
         adjusted : BOOLEAN]               \* snapshot.revision is there

\* at: which step the worker is in; tasks: what findMany returned.
Execution == [at : {"idle", "claimed", "planned", "committed"}, tasks : SUBSET Comments]

Job == [status : {"none", "QUEUED", "RUNNING", "SUCCEEDED", "FAILED"},
        cut : Jobs \cup {None},
        at : {"start", "lost", "made", "pinned"}, version : Versions \cup {None},
        kept : BOOLEAN]                   \* the rough cut it is named for exists

\* What a call knows before its locks: `before` and the group.
Call == [op : Ops, comment : Comments, had : BOOLEAN,
         run : Runs \cup {None}, retry : BOOLEAN,
         group : SUBSET Comments]

TypeOK ==
  /\ comment \in [Comments -> [alive : BOOLEAN, resolved : BOOLEAN, text : Texts]]
  /\ task \in [Comments -> Task]
  /\ archive \in [Comments -> [Runs -> {"none", "READY", "ACCEPTED", "FAILED"}]]
  /\ run \in [Runs -> {"none", "PENDING", "RUNNING", "SUCCEEDED", "FAILED"}]
  /\ exec \in [Runs -> Execution]
  /\ job \in [Jobs -> Job]
  /\ version \in [Versions -> [used : BOOLEAN, alive : BOOLEAN, cut : Jobs \cup {None}]]
  /\ call \in [Calls -> Call \cup {None}]

NoTask == [status |-> "none", run |-> None, job |-> None, version |-> None,
           text |-> None, adjusted |-> FALSE]
NoExecution == [at |-> "idle", tasks |-> {}]
NoJob == [status |-> "none", cut |-> None, at |-> "start", version |-> None, kept |-> TRUE]

Init ==
  /\ comment = [c \in Comments |-> [alive |-> TRUE, resolved |-> FALSE,
                                    text |-> CHOOSE t \in Texts : TRUE]]
  /\ task = [c \in Comments |-> NoTask]
  /\ archive = [c \in Comments |-> [r \in Runs |-> "none"]]
  /\ run = [r \in Runs |-> "none"]
  /\ exec = [r \in Runs |-> NoExecution]
  /\ job = [j \in Jobs |-> NoJob]
  /\ version = [v \in Versions |-> [used |-> FALSE, alive |-> FALSE, cut |-> None]]
  /\ call = [x \in Calls |-> None]

-----------------------------------------------------------------------------
(* What a task shows.                                                      *)

\* serializeCommentEdit: the run and the job override the stored status.
View(t) ==
  IF t.status = "PLANNING" /\ (t.run = None \/ run[t.run] = "FAILED") THEN "FAILED"
  ELSE IF t.status # "RENDERING" THEN t.status
  ELSE IF t.job = None \/ job[t.job].status = "FAILED" THEN "FAILED"
  ELSE IF job[t.job].status # "SUCCEEDED" THEN "RENDERING"
  ELSE IF t.version = None THEN "FAILED" ELSE "READY"

Shown(c) == View(task[c])
Busy == {"PLANNING", "RENDERING"}
Reviewable == {"READY", "ACCEPTED"}

Members(r) == {c \in Comments : task[c].run = r}

\* requireUnchangedComment
Unchanged(c) == comment[c].text = task[c].text

\* Mutant of Archive: the status of the draft is not looked at.
ArchiveAny(S) ==
  archive' = [c \in Comments |->
    IF c \in S /\ task[c].run # None THEN [archive[c] EXCEPT ![task[c].run] = Shown(c)]
    ELSE archive[c]]

\* Mutant of Archive: an accepted draft is taken for archived already.
ArchiveUnlessAccepted(S) ==
  archive' = [c \in Comments |->
    IF c \in S /\ task[c].run # None /\ Shown(c) \in {"READY", "FAILED"}
      THEN [archive[c] EXCEPT ![task[c].run] = Shown(c)]
      ELSE archive[c]]

\* archiveCommentEdit, for the tasks of S.
Archive(S) ==
  archive' = [c \in Comments |->
    IF c \in S /\ task[c].run # None /\ Shown(c) \in Reviewable \cup {"FAILED"}
      THEN [archive[c] EXCEPT ![task[c].run] = Shown(c)]
      ELSE archive[c]]

Resolve(S, resolved) ==
  comment' = [c \in Comments |->
    IF c \in S THEN [comment[c] EXCEPT !.resolved = resolved] ELSE comment[c]]

\* updateMany on the tasks of S.
Assign(S, Write(_)) ==
  task' = [c \in Comments |-> IF c \in S THEN Write(task[c]) ELSE task[c]]

\* Mutant of Reset: outputVersionId is not cleared.
ResetKeepingVersion(t, status, r) ==
  [t EXCEPT !.status = status, !.run = r, !.job = None]

\* A new assignment forgets the last draft.
Reset(t, status, r) ==
  [t EXCEPT !.status = status, !.run = r, !.job = None, !.version = None]

-----------------------------------------------------------------------------
(* The route's actions on a task (actOnCommentEdit).                       *)

\* Before the locks: the task, and for the actions on a whole draft its group.
\* (A task's stored status is never FAILED: no code writes it.)
Read(x, c, op) ==
  LET t == task[c]
      retry == op = "run" /\ t.adjusted /\ t.status \in Busy
      shared == t.run # None /\ (op \in {"accept", "human", "revise", "undo"} \/ retry)
  IN /\ call[x] = None
     /\ \A y \in Calls : call[y] # None => {op, call[y].op} \subseteq Paired
     /\ comment[c].alive
     /\ call' = [call EXCEPT ![x] =
          [op |-> op, comment |-> c, had |-> t.status # "none", run |-> t.run,
           retry |-> retry, group |-> IF shared THEN Members(t.run) ELSE {}]]
     /\ UNCHANGED <<comment, task, archive, run, exec, job, version>>

\* Mutant of Group: a shared draft is acted on for one comment only.
GroupAlone(k) == {k.comment}

Group(k) == IF k.group = {} THEN {k.comment} ELSE k.group

\* Mutant of Admitted: a task that is still running may be taken over.
AdmittedWhileBusy(k) ==
  /\ comment[k.comment].alive
  /\ \A d \in k.group : task[d].run = k.run
  /\ task[k.comment].run = k.run /\ k.had = (task[k.comment].status # "none")

\* Under the locks: the group and the assignment are those read before, and
\* nothing is running.
Admitted(k) ==
  /\ comment[k.comment].alive
  /\ \A d \in k.group : task[d].run = k.run
  /\ task[k.comment].run = k.run /\ k.had = (task[k.comment].status # "none")
  /\ Shown(k.comment) \notin Busy

\* The call is over: committed, refused, or its connection lost.
Leave(x) == call' = [call EXCEPT ![x] = None]

Refuse(x) ==
  /\ call[x] # None
  /\ Leave(x)
  /\ UNCHANGED <<comment, task, archive, run, exec, job, version>>

Undo(x) ==
  LET k == call[x]
      first == task[k.comment]
  IN /\ k # None /\ k.op = "undo" /\ Admitted(k)
     /\ k.run # None
     /\ \A d \in Group(k) : task[d].status = "ACCEPTED" /\ task[d].version = first.version
     /\ Resolve(Group(k), FALSE)
     /\ Assign(Group(k), LAMBDA t : [t EXCEPT !.status = "RENDERING"])
     /\ Leave(x)
     /\ UNCHANGED <<archive, run, exec, job, version>>

\* Every shared draft must be available before adjusting it.
Adjustable(k) ==
  IF k.retry
    THEN \A d \in Group(k) : Shown(d) = "FAILED" /\ Unchanged(d)
    ELSE \A d \in Group(k) :
           /\ Shown(d) \in Reviewable /\ Unchanged(d)
           /\ task[d].version # None /\ task[d].version = task[k.comment].version

\* A new run for the whole group; the draft it replaces is archived.
Revise(x, r) ==
  LET k == call[x]
  IN /\ k # None /\ Admitted(k)
     /\ k.retry \/ (k.op = "revise" /\ k.run # None)
     /\ Adjustable(k)
     /\ run[r] = "none"
     /\ run' = [run EXCEPT ![r] = "PENDING"]
     /\ Archive(Group(k))
     /\ Assign(Group(k), LAMBDA t : [Reset(t, "PLANNING", r) EXCEPT !.adjusted = TRUE])
     /\ Resolve(Group(k), FALSE)
     /\ Leave(x)
     /\ UNCHANGED <<exec, job, version>>

\* Mutant of Acceptable: only the comment acted on is compared with its snapshot.
AcceptableAlone(k) == Shown(k.comment) = "READY" /\ Unchanged(k.comment)

Acceptable(k) ==
  /\ Shown(k.comment) = "READY"
  /\ \A d \in Group(k) :
       /\ task[d].run = task[k.comment].run /\ task[d].status = "RENDERING"
       /\ task[d].version = task[k.comment].version
       /\ Unchanged(d)

Accept(x) ==
  LET k == call[x]
  IN /\ k # None /\ k.op = "accept" /\ Admitted(k)
     /\ Acceptable(k)
     /\ Resolve(Group(k), TRUE)
     /\ Assign(Group(k), LAMBDA t : [t EXCEPT !.status = "ACCEPTED"])
     /\ Leave(x)
     /\ UNCHANGED <<archive, run, exec, job, version>>

\* Hand to editor; a comment without a task gets one.
Human(x) ==
  LET k == call[x]
  IN /\ k # None /\ k.op = "human" /\ Admitted(k)
     /\ Archive(Group(k))
     /\ Resolve(Group(k), FALSE)
     /\ Assign(Group(k), LAMBDA t : [t EXCEPT !.status = "HUMAN"])
     /\ Leave(x)
     /\ UNCHANGED <<run, exec, job, version>>

\* What queue and run start from: the snapshot taken when the comment was
\* queued, or one taken now.
Snapshot(t, c, op) ==
  IF op = "run" /\ (t.status = "QUEUED" \/ (View(t) = "FAILED" /\ t.adjusted))
    THEN t
    ELSE [t EXCEPT !.text = comment[c].text, !.adjusted = FALSE]

CanStart(k) ==
  /\ ~k.retry /\ Admitted(k)
  /\ ~comment[k.comment].resolved
  /\ Shown(k.comment) # "READY"

Queue(x) ==
  LET k == call[x]
  IN /\ k # None /\ k.op = "queue" /\ CanStart(k)
     /\ Archive({k.comment})
     /\ Assign({k.comment}, LAMBDA t : Reset(Snapshot(t, k.comment, k.op), "QUEUED", None))
     /\ Leave(x)
     /\ UNCHANGED <<comment, run, exec, job, version>>

Run(x, r) ==
  LET k == call[x]
  IN /\ k # None /\ k.op = "run" /\ CanStart(k)
     /\ run[r] = "none"
     /\ run' = [run EXCEPT ![r] = "PENDING"]
     /\ Archive({k.comment})
     /\ Assign({k.comment}, LAMBDA t : Reset(Snapshot(t, k.comment, k.op), "PLANNING", r))
     /\ Leave(x)
     /\ UNCHANGED <<comment, exec, job, version>>

\* runCommentEditBatch reads nothing before its locks.
RunBatch(S, r) ==
  /\ Cardinality(S) >= 2
  /\ \A c \in S : task[c].status = "QUEUED" /\ ~comment[c].resolved
  /\ run[r] = "none"
  /\ run' = [run EXCEPT ![r] = "PENDING"]
  /\ Assign(S, LAMBDA t : Reset(t, "PLANNING", r))
  /\ UNCHANGED <<comment, archive, exec, job, version, call>>

-----------------------------------------------------------------------------
(* What other routes do to comments and versions, under no lock.           *)

EditComment(c, text) ==
  /\ c \in Editable /\ comment[c].alive /\ text # comment[c].text
  /\ comment' = [comment EXCEPT ![c].text = text]
  /\ UNCHANGED <<task, archive, run, exec, job, version, call>>

ResolveComment(c) ==
  /\ c \in Editable /\ comment[c].alive
  /\ comment' = [comment EXCEPT ![c].resolved = ~@]
  /\ UNCHANGED <<task, archive, run, exec, job, version, call>>

\* The task and its revisions go with the comment (onDelete: Cascade).
DeleteComment(c) ==
  /\ c \in Deletable /\ comment[c].alive
  /\ comment' = [comment EXCEPT ![c].alive = FALSE]
  /\ task' = [task EXCEPT ![c] = NoTask]
  /\ archive' = [archive EXCEPT ![c] = [r \in Runs |-> "none"]]
  /\ UNCHANGED <<run, exec, job, version, call>>

\* A version of a draft's video, or the video with its last one (SetNull).
DeleteVersion(v) ==
  /\ version[v].alive
  /\ version' = [version EXCEPT ![v].alive = FALSE]
  /\ task' = [c \in Comments |-> IF task[c].version = v
                                   THEN [task[c] EXCEPT !.version = None] ELSE task[c]]
  /\ UNCHANGED <<comment, archive, run, exec, job, call>>

\* The rough cut of a draft: roughCutId is nulled (SetNull), and a render that
\* has read the row goes on without it.
DeleteCut(k) ==
  /\ k \in Removable /\ job[k].cut = k /\ job[k].kept
  /\ job' = [job EXCEPT ![k].kept = FALSE]
  /\ UNCHANGED <<comment, task, archive, run, exec, version, call>>

-----------------------------------------------------------------------------
(* The agent worker.                                                       *)

ToStep(r, at, tasks) == exec' = [exec EXCEPT ![r] = [at |-> at, tasks |-> tasks]]

Claim(r) ==
  /\ run[r] = "PENDING"
  /\ run' = [run EXCEPT ![r] = "RUNNING"]
  /\ ToStep(r, "claimed", {})
  /\ UNCHANGED <<comment, task, archive, job, version, call>>

\* findMany: the tasks of the run, all still to be planned; then the model call.
Plan(r) ==
  /\ exec[r].at = "claimed"
  /\ Members(r) # {} /\ \A c \in Members(r) : task[c].status = "PLANNING"
  /\ ToStep(r, "planned", Members(r))
  /\ UNCHANGED <<comment, task, archive, run, job, version, call>>

\* Every comment was deleted: a run without tasks is a plain edit run, which
\* plans for nobody and succeeds (or fails, below).
PlanForNobody(r) ==
  /\ exec[r].at = "claimed" /\ Members(r) = {}
  /\ run' = [run EXCEPT ![r] = "SUCCEEDED"]
  /\ ToStep(r, "committed", {})
  /\ UNCHANGED <<comment, task, archive, job, version, call>>

\* count(...) === tasks.length, under the locks.
Intact(r) ==
  \A c \in exec[r].tasks : task[c].run = r /\ task[c].status = "PLANNING"

\* The draft's rough cut with its render job, and the planning result.
Commit(r, j) ==
  /\ exec[r].at = "planned" /\ Intact(r)
  /\ job[j].status = "none"
  /\ job' = [job EXCEPT ![j] = [NoJob EXCEPT !.status = "QUEUED", !.cut = j]]
  /\ Assign(exec[r].tasks, LAMBDA t : [t EXCEPT !.status = "RENDERING", !.job = j])
  /\ run' = [run EXCEPT ![r] = "SUCCEEDED"]
  /\ ToStep(r, "committed", {})
  /\ UNCHANGED <<comment, archive, version, call>>

\* A task has left PLANNING: seen by findMany, or by count under the locks.
Overtaken(r) ==
  CASE exec[r].at = "claimed" -> \E c \in Members(r) : task[c].status # "PLANNING"
    [] exec[r].at = "planned" -> ~Intact(r)
    [] OTHER -> FALSE

\* The execution returns without a word: the run stays RUNNING.
GiveUp(r) ==
  /\ Overtaken(r)
  /\ ToStep(r, "idle", {})
  /\ UNCHANGED <<comment, task, archive, run, job, version, call>>

Return(r) ==
  /\ exec[r].at = "committed"
  /\ ToStep(r, "idle", {})
  /\ UNCHANGED <<comment, task, archive, run, job, version, call>>

\* Mutant of Fail: the failure is not written to the run.
FailUnrecorded(r) ==
  /\ exec[r].at # "idle"
  /\ ToStep(r, "idle", {})
  /\ UNCHANGED <<comment, task, archive, run, job, version, call>>

\* executeAgentRun's catch: a refused plan, a lost permission, or a connection
\* lost after the commit.
Fail(r) ==
  /\ exec[r].at # "idle"
  /\ run' = [run EXCEPT ![r] = "FAILED"]
  /\ ToStep(r, "idle", {})
  /\ UNCHANGED <<comment, task, archive, job, version, call>>

\* A stopped worker, or one that could not write the failure, comes back for
\* PENDING runs only.
Stop(r) ==
  /\ MayStop /\ exec[r].at # "idle"
  /\ ToStep(r, "idle", {})
  /\ UNCHANGED <<comment, task, archive, run, job, version, call>>

-----------------------------------------------------------------------------
(* The render job of a draft, and the re-renders of its rough cut.         *)

\* SELECT ... FROM rough_cuts: a run whose rough cut is gone can only fail.
Begun(j) == IF job[job[j].cut].kept THEN "start" ELSE "lost"

\* The media worker takes the job; a failed one comes again.
StartRender(j) ==
  /\ job[j].status \in {"QUEUED", "FAILED"}
  /\ job' = [job EXCEPT ![j].status = "RUNNING", ![j].at = Begun(j), ![j].version = None]
  /\ UNCHANGED <<comment, task, archive, run, exec, version, call>>

MakeVersion(j, v) ==
  /\ job[j].status = "RUNNING" /\ job[j].at = "start"
  /\ ~version[v].used
  /\ version' = [version EXCEPT ![v] = [used |-> TRUE, alive |-> TRUE, cut |-> job[j].cut]]
  /\ job' = [job EXCEPT ![j].at = "made", ![j].version = v]
  /\ UNCHANGED <<comment, task, archive, run, exec, call>>

\* Mutant of Pinned: the update is not limited to tasks without an output.
PinnedAgain(t, j, v) ==
  IF t.job = job[j].cut /\ job[t.job].kept THEN [t EXCEPT !.version = v] ELSE t

\* UPDATE ... WHERE rough_cut_id = $1 AND output_version_id IS NULL
Pinned(t, j, v) ==
  IF t.job = job[j].cut /\ job[t.job].kept /\ t.version = None
    THEN [t EXCEPT !.version = v] ELSE t

Pin(j) ==
  LET v == job[j].version
  IN /\ job[j].status = "RUNNING" /\ job[j].at = "made" /\ version[v].alive
     /\ task' = [c \in Comments |-> Pinned(task[c], j, v)]
     /\ job' = [job EXCEPT ![j].at = "pinned"]
     /\ UNCHANGED <<comment, archive, run, exec, version, call>>

FinishRender(j) ==
  /\ job[j].status = "RUNNING" /\ job[j].at = "pinned"
  /\ job' = [job EXCEPT ![j].status = "SUCCEEDED"]
  /\ UNCHANGED <<comment, task, archive, run, exec, version, call>>

FailRender(j) ==
  /\ job[j].status = "RUNNING"
  /\ job' = [job EXCEPT ![j].status = "FAILED"]
  /\ UNCHANGED <<comment, task, archive, run, exec, version, call>>

\* The worker dies and the job is delivered again: its leftovers stay.
RestartRender(j) ==
  /\ MayStop /\ job[j].status = "RUNNING" /\ job[j].at # Begun(j)
  /\ job' = [job EXCEPT ![j].at = Begun(j), ![j].version = None]
  /\ UNCHANGED <<comment, task, archive, run, exec, version, call>>

\* The render route: one active job per rough cut.
Rerender(k, j) ==
  /\ job[k].cut = k /\ job[k].kept /\ job[j].status = "none"
  /\ ~\E i \in Jobs : job[i].cut = k /\ job[i].status \in {"QUEUED", "RUNNING"}
  /\ job' = [job EXCEPT ![j] = [NoJob EXCEPT !.status = "QUEUED", !.cut = k]]
  /\ UNCHANGED <<comment, task, archive, run, exec, version, call>>

-----------------------------------------------------------------------------
RouteStep(x) ==
  \/ \E c \in Comments, op \in Actions : Read(x, c, op)
  \/ Refuse(x) \/ Undo(x) \/ Accept(x) \/ Human(x) \/ Queue(x)
  \/ \E r \in Runs : Revise(x, r) \/ Run(x, r)

WorkerStep(r) ==
  \/ Claim(r) \/ Plan(r) \/ PlanForNobody(r) \/ GiveUp(r) \/ Return(r) \/ Fail(r)
  \/ \E j \in Jobs : Commit(r, j)

RenderStep(j) ==
  \/ StartRender(j) \/ Pin(j) \/ FinishRender(j) \/ FailRender(j)
  \/ \E v \in Versions : MakeVersion(j, v)

OtherStep ==
  \/ \E S \in SUBSET Comments, r \in Runs : RunBatch(S, r)
  \/ \E c \in Comments : ResolveComment(c) \/ DeleteComment(c)
  \/ \E c \in Comments, text \in Texts : EditComment(c, text)
  \/ \E v \in Versions : DeleteVersion(v)
  \/ \E k \in Jobs : DeleteCut(k)
  \/ \E k, j \in Jobs : Rerender(k, j)

Next ==
  \/ \E x \in Calls : RouteStep(x)
  \/ \E r \in Runs : WorkerStep(r) \/ Stop(r)
  \/ \E j \in Jobs : RenderStep(j) \/ RestartRender(j)
  \/ OtherStep

Spec == Init /\ [][Next]_vars

\* Both workers run; neither is stopped at work.
FairSpec ==
  /\ Spec
  /\ \A r \in Runs : WF_vars(WorkerStep(r))
  /\ \A j \in Jobs : WF_vars(RenderStep(j))

-----------------------------------------------------------------------------
(* Properties.                                                             *)

\* The comments of a batch share one draft for as long as they share its run:
\* no action, failure, pin or deletion leaves one of them in another state, on
\* another render or with another preview.
SharedDraft ==
  \A c, d \in Comments :
    task[c].run # None /\ task[c].run = task[d].run =>
      /\ task[c].status = task[d].status
      /\ task[c].job = task[d].job /\ task[c].version = task[d].version

\* A preview is an existing version rendered from the task's own rough cut,
\* never from a draft the task has left, however late that render pins.
OwnPreview ==
  \A c \in Comments : task[c].version # None =>
    version[task[c].version].alive /\ version[task[c].version].cut = task[c].job

\* "A running task must finish before assignment can change."
BusyStays ==
  [][\A c \in Comments : Shown(c) \in Busy /\ comment'[c].alive =>
       /\ task'[c].run = task[c].run
       /\ task'[c].status = task[c].status \/ task'[c].status = "RENDERING"]_vars

\* An acceptance takes the whole batch, each member with its comment as it was
\* when the draft was asked for, and all of them on one rendered preview.
AcceptedWhole ==
  [][\A c \in Comments : task[c].status # "ACCEPTED" /\ task'[c].status = "ACCEPTED" =>
       \A d \in Members(task[c].run) :
         /\ Shown(d) = "READY" /\ Unchanged(d) /\ task[d].version = task[c].version
         /\ task'[d].status = "ACCEPTED" /\ comment'[d].resolved]_vars

\* The history keeps every draft that could be reviewed: one is archived by
\* whatever replaces it or hands it off, and an archived one stays.
DraftsKept ==
  [][\A c \in Comments : comment'[c].alive =>
       /\ Shown(c) \in Reviewable
            /\ (task'[c].run # task[c].run \/ task'[c].status = "HUMAN")
            => archive'[c][task[c].run] = Shown(c)
       /\ \A r \in Runs : archive[c][r] # "none" => archive'[c][r] # "none"]_vars

\* Re-renders and retries of the render never replace a preview.
PreviewKept ==
  [][\A c \in Comments :
       /\ task[c].version # None /\ version'[task[c].version].alive
       /\ task'[c].run = task[c].run
       => task'[c].version = task[c].version]_vars

\* An accepted draft stays the accepted one: "the inline preview remains pinned
\* to the version produced by this task".
AcceptedPreviewPinned ==
  [][\A c \in Comments :
       task[c].status = "ACCEPTED" /\ task'[c].status = "ACCEPTED" =>
         task'[c].version \in {task[c].version, None}]_vars

\* A task that shows planning or rendering gets a result, a draft or a failure
\* that can be retried or handed over.
Settles == \A c \in Comments : Shown(c) \in Busy ~> Shown(c) \notin Busy
=============================================================================

------------------------- MODULE CommentEdit_proofs -------------------------
(***************************************************************************)
(* Proofs about CommentEdit for every set of comments, runs, render jobs,  *)
(* versions and calls.  The argument is about what a call or a worker read *)
(* before it was allowed to write: the members of a run never grow, so a   *)
(* group read earlier still covers the whole draft.                        *)
(***************************************************************************)
EXTENDS CommentEdit, TLAPS

USE NoneAssumption

Statuses == {"none", "HUMAN", "QUEUED", "PLANNING", "RENDERING", "ACCEPTED"}

(* What the prover needs of a task, field by field.                         *)
LEMMA TaskFields ==
  ASSUME NEW t \in Task
  PROVE  /\ t.status \in Statuses /\ t.run \in Runs \cup {None} /\ t.job \in Jobs \cup {None}
         /\ t.version \in Versions \cup {None} /\ t.text \in Texts \cup {None}
         /\ t.adjusted \in BOOLEAN
  BY DEF Task, Statuses

LEMMA ResetType ==
  ASSUME NEW t \in Task, NEW status \in Statuses, NEW r \in Runs \cup {None}
  PROVE  /\ Reset(t, status, r) \in Task
         /\ Reset(t, status, r).status = status /\ Reset(t, status, r).run = r
         /\ Reset(t, status, r).job = None /\ Reset(t, status, r).version = None
  BY DEF Reset, Task, Statuses

LEMMA TaskUpdates ==
  ASSUME NEW t \in Task
  PROVE  /\ \A s \in Statuses : [t EXCEPT !.status = s] \in Task
         /\ \A s \in Statuses, j \in Jobs : [t EXCEPT !.status = s, !.job = j] \in Task
         /\ \A v \in Versions \cup {None} : [t EXCEPT !.version = v] \in Task
         /\ \A x \in Texts, b \in BOOLEAN : [t EXCEPT !.text = x, !.adjusted = b] \in Task
         /\ \A b \in BOOLEAN : [t EXCEPT !.adjusted = b] \in Task
  BY DEF Task, Statuses

JobStatuses == {"none", "QUEUED", "RUNNING", "SUCCEEDED", "FAILED"}

LEMMA JobUpdates ==
  ASSUME NEW k \in Job
  PROVE  /\ \A s \in JobStatuses : [k EXCEPT !.status = s] \in Job
         /\ \A s \in JobStatuses, at \in {"start", "lost"} :
              [k EXCEPT !.status = s, !.at = at, !.version = None] \in Job
         /\ \A at \in {"start", "lost"} : [k EXCEPT !.at = at, !.version = None] \in Job
         /\ [k EXCEPT !.kept = FALSE] \in Job
         /\ \A v \in Versions : [k EXCEPT !.at = "made", !.version = v] \in Job
         /\ [k EXCEPT !.at = "pinned"] \in Job
         /\ k.cut \in Jobs \cup {None} /\ k.version \in Versions \cup {None}
  BY DEF Job, JobStatuses

LEMMA NoJobType ==
  ASSUME NEW k \in Jobs
  PROVE  [NoJob EXCEPT !.status = "QUEUED", !.cut = k] \in Job
  BY DEF NoJob, Job

(* What a task is a snapshot of does not move it to another run.            *)
LEMMA SnapshotType ==
  ASSUME TypeOK, NEW c \in Comments, NEW op
  PROVE  /\ Snapshot(task[c], c, op) \in Task
         /\ Snapshot(task[c], c, op).run = task[c].run
<1> DEFINE t == task[c]
           taken == [t EXCEPT !.text = comment[c].text, !.adjusted = FALSE]
<1>1. t \in Task /\ comment[c].text \in Texts
  BY DEF TypeOK
<1>2. taken \in Task /\ taken.run = t.run
  BY <1>1, TaskUpdates DEF Task
<1>3. Snapshot(t, c, op) \in {t, taken}
  BY DEF Snapshot
<1> QED
  BY <1>1, <1>2, <1>3

-----------------------------------------------------------------------------
LEMMA TypeInit == Init => TypeOK
<1> SUFFICES ASSUME Init PROVE TypeOK
  OBVIOUS
<1>1. (CHOOSE t \in Texts : TRUE) \in Texts
  OBVIOUS
<1>2. NoTask \in Task /\ NoExecution \in Execution /\ NoJob \in Job
  BY DEF NoTask, Task, NoExecution, Execution, NoJob, Job
<1> QED
  BY <1>1, <1>2 DEF Init, TypeOK

LEMMA ArchiveType ==
  ASSUME TypeOK, NEW S, Archive(S)
  PROVE  archive' \in [Comments -> [Runs -> {"none", "READY", "ACCEPTED", "FAILED"}]]
  BY DEF Archive, TypeOK, Reviewable

LEMMA ResolveType ==
  ASSUME TypeOK, NEW S, NEW b \in BOOLEAN, Resolve(S, b)
  PROVE  comment' \in [Comments -> [alive : BOOLEAN, resolved : BOOLEAN, text : Texts]]
<1>1. \A k \in [alive : BOOLEAN, resolved : BOOLEAN, text : Texts] :
        [k EXCEPT !.resolved = b] \in [alive : BOOLEAN, resolved : BOOLEAN, text : Texts]
  OBVIOUS
<1> QED
  BY <1>1 DEF Resolve, TypeOK

LEMMA LeaveType ==
  ASSUME TypeOK, NEW x \in Calls, Leave(x)
  PROVE  call' \in [Calls -> Call \cup {None}]
  BY DEF Leave, TypeOK

LEMMA ToStepType ==
  ASSUME TypeOK, NEW r \in Runs, NEW at \in {"idle", "claimed", "planned", "committed"},
         NEW S \in SUBSET Comments, ToStep(r, at, S)
  PROVE  exec' \in [Runs -> Execution]
  BY DEF ToStep, TypeOK, Execution

LEMMA TypeRoute ==
  ASSUME TypeOK, NEW x \in Calls, RouteStep(x)
  PROVE  TypeOK'
<1>1. ASSUME NEW c \in Comments, NEW op \in Actions, Read(x, c, op) PROVE TypeOK'
  <2>1. task[c] \in Task
    BY DEF TypeOK
  <2> DEFINE retry == op = "run" /\ task[c].adjusted /\ task[c].status \in Busy
             shared == task[c].run # None
                         /\ (op \in {"accept", "human", "revise", "undo"} \/ retry)
             k == [op |-> op, comment |-> c, had |-> task[c].status # "none",
                   run |-> task[c].run, retry |-> retry,
                   group |-> IF shared THEN Members(task[c].run) ELSE {}]
  <2>2. k \in Call
    BY <2>1, TaskFields, BoundsAssumption DEF Call, Members
  <2>3. call' = [call EXCEPT ![x] = k]
    BY <1>1 DEF Read
  <2>4. UNCHANGED <<comment, task, archive, run, exec, job, version>>
    BY <1>1 DEF Read
  <2> HIDE DEF k
  <2>5. call' \in [Calls -> Call \cup {None}]
    BY <2>2, <2>3 DEF TypeOK
  <2> QED
    BY <2>4, <2>5 DEF TypeOK
<1>2. CASE Refuse(x)
  BY <1>2, LeaveType DEF Refuse, TypeOK
<1>3. CASE Undo(x)
  <2>1. task' \in [Comments -> Task]
    BY <1>3, TaskUpdates DEF Undo, Assign, TypeOK, Statuses
  <2> QED
    BY <1>3, <2>1, LeaveType, ResolveType DEF Undo, TypeOK
<1>4. CASE Accept(x)
  <2>1. task' \in [Comments -> Task]
    BY <1>4, TaskUpdates DEF Accept, Assign, TypeOK, Statuses
  <2> QED
    BY <1>4, <2>1, LeaveType, ResolveType DEF Accept, TypeOK
<1>5. CASE Human(x)
  <2>1. task' \in [Comments -> Task]
    BY <1>5, TaskUpdates DEF Human, Assign, TypeOK, Statuses
  <2> QED
    BY <1>5, <2>1, LeaveType, ResolveType, ArchiveType DEF Human, TypeOK
<1>6. CASE Queue(x)
  <2>1. task' \in [Comments -> Task]
    <3> DEFINE c == call[x].comment
               t == Snapshot(task[c], c, call[x].op)
    <3>1. c \in Comments
      BY <1>6 DEF Queue, TypeOK, Call
    <3>2. t \in Task
      BY <3>1, SnapshotType
    <3>3. Reset(t, "QUEUED", None) \in Task
      BY <3>2, ResetType DEF Statuses
    <3> QED
      BY <1>6, <3>3 DEF Queue, Assign, TypeOK
  <2> QED
    BY <1>6, <2>1, LeaveType, ArchiveType DEF Queue, TypeOK
<1>7. ASSUME NEW r \in Runs, Revise(x, r) PROVE TypeOK'
  <2>1. task' \in [Comments -> Task]
    <3>1. \A t \in Task : [Reset(t, "PLANNING", r) EXCEPT !.adjusted = TRUE] \in Task
      BY ResetType, TaskUpdates DEF Statuses
    <3> QED
      BY <1>7, <3>1 DEF Revise, Assign, TypeOK
  <2> QED
    BY <1>7, <2>1, LeaveType, ResolveType, ArchiveType DEF Revise, TypeOK
<1>8. ASSUME NEW r \in Runs, Run(x, r) PROVE TypeOK'
  <2>1. task' \in [Comments -> Task]
    <3> DEFINE c == call[x].comment
               t == Snapshot(task[c], c, call[x].op)
    <3>1. c \in Comments
      BY <1>8 DEF Run, TypeOK, Call
    <3>2. t \in Task
      BY <3>1, SnapshotType
    <3>3. Reset(t, "PLANNING", r) \in Task
      BY <3>2, ResetType DEF Statuses
    <3> QED
      BY <1>8, <3>3 DEF Run, Assign, TypeOK
  <2> QED
    BY <1>8, <2>1, LeaveType, ArchiveType DEF Run, TypeOK
<1> QED
  BY <1>1, <1>2, <1>3, <1>4, <1>5, <1>6, <1>7, <1>8 DEF RouteStep

LEMMA TypeWorker ==
  ASSUME TypeOK, NEW r \in Runs, WorkerStep(r) \/ Stop(r)
  PROVE  TypeOK'
<1>1. CASE Claim(r)
  <2>1. exec' \in [Runs -> Execution]
    BY <1>1, ToStepType DEF Claim
  <2>2. run' \in [Runs -> {"none", "PENDING", "RUNNING", "SUCCEEDED", "FAILED"}]
    BY <1>1 DEF Claim, TypeOK
  <2> QED
    BY <1>1, <2>1, <2>2 DEF Claim, TypeOK
<1>2. CASE Plan(r)
  BY <1>2, ToStepType DEF Plan, TypeOK, Members
<1>3. CASE PlanForNobody(r) \/ GiveUp(r) \/ Return(r) \/ Fail(r) \/ Stop(r)
  <2>1. PICK at \in {"idle", "committed"} : ToStep(r, at, {})
    BY <1>3 DEF PlanForNobody, GiveUp, Return, Fail, Stop
  <2>2. exec' \in [Runs -> Execution]
    BY <2>1, ToStepType
  <2>3. run' \in [Runs -> {"none", "PENDING", "RUNNING", "SUCCEEDED", "FAILED"}]
    BY <1>3 DEF PlanForNobody, GiveUp, Return, Fail, Stop, TypeOK
  <2>4. UNCHANGED <<comment, task, archive, job, version, call>>
    BY <1>3 DEF PlanForNobody, GiveUp, Return, Fail, Stop
  <2> QED
    BY <2>2, <2>3, <2>4 DEF TypeOK
<1>4. ASSUME NEW j \in Jobs, Commit(r, j) PROVE TypeOK'
  <2>1. task' \in [Comments -> Task]
    BY <1>4, TaskUpdates DEF Commit, Assign, TypeOK, Statuses
  <2>2. job' \in [Jobs -> Job]
    BY <1>4, NoJobType DEF Commit, TypeOK
  <2> QED
    BY <1>4, <2>1, <2>2, ToStepType DEF Commit, TypeOK
<1> QED
  BY <1>1, <1>2, <1>3, <1>4 DEF WorkerStep

LEMMA TypeRender ==
  ASSUME TypeOK, NEW j \in Jobs, RenderStep(j) \/ RestartRender(j)
  PROVE  TypeOK'
<1>1. CASE StartRender(j) \/ FinishRender(j) \/ FailRender(j) \/ RestartRender(j)
  <2>1. job' \in [Jobs -> Job]
    <3>1. CASE StartRender(j)
      <4>1. job' = [job EXCEPT ![j] = [job[j] EXCEPT !.status = "RUNNING", !.at = Begun(j),
                                                     !.version = None]]
        BY <3>1 DEF StartRender, TypeOK, Job
      <4>2. Begun(j) \in {"start", "lost"}
        BY DEF Begun
      <4> QED
        BY <4>1, <4>2, JobUpdates DEF TypeOK, JobStatuses
    <3>2. CASE FinishRender(j) \/ FailRender(j)
      <4>1. PICK s \in JobStatuses : job' = [job EXCEPT ![j] = [job[j] EXCEPT !.status = s]]
        BY <3>2 DEF FinishRender, FailRender, JobStatuses
      <4> QED
        BY <4>1, JobUpdates DEF TypeOK
    <3>3. CASE RestartRender(j)
      <4>1. job' = [job EXCEPT ![j] = [job[j] EXCEPT !.at = Begun(j), !.version = None]]
        BY <3>3 DEF RestartRender, TypeOK, Job
      <4>2. Begun(j) \in {"start", "lost"}
        BY DEF Begun
      <4> QED
        BY <4>1, <4>2, JobUpdates DEF TypeOK
    <3> QED
      BY <1>1, <3>1, <3>2, <3>3
  <2> QED
    BY <1>1, <2>1 DEF StartRender, FinishRender, FailRender, RestartRender, TypeOK
<1>2. ASSUME NEW v \in Versions, MakeVersion(j, v) PROVE TypeOK'
  <2>1. job' \in [Jobs -> Job]
    <3>1. job' = [job EXCEPT ![j] = [job[j] EXCEPT !.at = "made", !.version = v]]
      BY <1>2 DEF MakeVersion, TypeOK, Job
    <3> QED
      BY <3>1, JobUpdates DEF TypeOK
  <2>2. version' \in [Versions -> [used : BOOLEAN, alive : BOOLEAN, cut : Jobs \cup {None}]]
    BY <1>2, JobUpdates DEF MakeVersion, TypeOK
  <2> QED
    BY <1>2, <2>1, <2>2 DEF MakeVersion, TypeOK
<1>3. CASE Pin(j)
  <2>1. job' \in [Jobs -> Job]
    BY <1>3, JobUpdates DEF Pin, TypeOK
  <2>2. task' \in [Comments -> Task]
    BY <1>3, TaskUpdates, JobUpdates DEF Pin, Pinned, TypeOK
  <2> QED
    BY <1>3, <2>1, <2>2 DEF Pin, TypeOK
<1> QED
  BY <1>1, <1>2, <1>3 DEF RenderStep

LEMMA TypeOther ==
  ASSUME TypeOK, OtherStep
  PROVE  TypeOK'
<1>1. ASSUME NEW S \in SUBSET Comments, NEW r \in Runs, RunBatch(S, r) PROVE TypeOK'
  <2>1. task' \in [Comments -> Task]
    BY <1>1, ResetType DEF RunBatch, Assign, TypeOK, Statuses
  <2> QED
    BY <1>1, <2>1 DEF RunBatch, TypeOK
<1>2. ASSUME NEW c \in Comments, ResolveComment(c) \/ DeleteComment(c) PROVE TypeOK'
  <2>1. CASE ResolveComment(c)
    <3>1. comment' = [comment EXCEPT ![c] = [comment[c] EXCEPT !.resolved = ~comment[c].resolved]]
      BY <2>1 DEF ResolveComment
    <3>2. comment' \in [Comments -> [alive : BOOLEAN, resolved : BOOLEAN, text : Texts]]
      <4>1. \A k \in [alive : BOOLEAN, resolved : BOOLEAN, text : Texts], b \in BOOLEAN :
              [k EXCEPT !.resolved = b] \in [alive : BOOLEAN, resolved : BOOLEAN, text : Texts]
        OBVIOUS
      <4>2. (~comment[c].resolved) \in BOOLEAN
        OBVIOUS
      <4> QED
        BY <3>1, <4>1, <4>2 DEF TypeOK
    <3> QED
      BY <2>1, <3>2 DEF ResolveComment, TypeOK
  <2>2. CASE DeleteComment(c)
    <3>1. NoTask \in Task
      BY DEF NoTask, Task
    <3>2. task' \in [Comments -> Task]
      BY <2>2, <3>1 DEF DeleteComment, TypeOK
    <3>3. \A k \in [alive : BOOLEAN, resolved : BOOLEAN, text : Texts] :
            [k EXCEPT !.alive = FALSE] \in [alive : BOOLEAN, resolved : BOOLEAN, text : Texts]
      OBVIOUS
    <3>4. comment' \in [Comments -> [alive : BOOLEAN, resolved : BOOLEAN, text : Texts]]
      BY <2>2, <3>3 DEF DeleteComment, TypeOK
    <3>5. archive' \in [Comments -> [Runs -> {"none", "READY", "ACCEPTED", "FAILED"}]]
      BY <2>2 DEF DeleteComment, TypeOK
    <3> QED
      BY <2>2, <3>2, <3>4, <3>5 DEF DeleteComment, TypeOK
  <2> QED
    BY <1>2, <2>1, <2>2
<1>3. ASSUME NEW c \in Comments, NEW text \in Texts, EditComment(c, text) PROVE TypeOK'
  BY <1>3 DEF EditComment, TypeOK
<1>4. ASSUME NEW v \in Versions, DeleteVersion(v) PROVE TypeOK'
  <2>1. task' \in [Comments -> Task]
    BY <1>4, TaskUpdates DEF DeleteVersion, TypeOK
  <2> QED
    BY <1>4, <2>1 DEF DeleteVersion, TypeOK
<1>5. ASSUME NEW k \in Jobs, NEW j \in Jobs, Rerender(k, j) PROVE TypeOK'
  <2>1. job' \in [Jobs -> Job]
    BY <1>5, NoJobType DEF Rerender, TypeOK
  <2> QED
    BY <1>5, <2>1 DEF Rerender, TypeOK
<1>6. ASSUME NEW k \in Jobs, DeleteCut(k) PROVE TypeOK'
  <2>1. job' \in [Jobs -> Job]
    BY <1>6, JobUpdates DEF DeleteCut, TypeOK
  <2> QED
    BY <1>6, <2>1 DEF DeleteCut, TypeOK
<1> QED
  BY <1>1, <1>2, <1>3, <1>4, <1>5, <1>6 DEF OtherStep

LEMMA TypeStep == TypeOK /\ [Next]_vars => TypeOK'
<1> SUFFICES ASSUME TypeOK, [Next]_vars PROVE TypeOK'
  OBVIOUS
<1>1. CASE UNCHANGED vars
  BY <1>1 DEF vars, TypeOK
<1> QED
  BY <1>1, TypeRoute, TypeWorker, TypeRender, TypeOther DEF Next

(* Comments, tasks, archives, runs, jobs, versions and the calls in flight  *)
(* keep their types, for every instance.                                    *)
THEOREM TypeCorrect == Spec => []TypeOK
<1> QED
  BY TypeInit, TypeStep, PTL DEF Spec

-----------------------------------------------------------------------------
(* The inductive invariant.  A run nobody has asked for has no members and  *)
(* is in nobody's hands; a call's group and a plan's tasks still cover the  *)
(* run they were read for; a task has a job and a version only under a run  *)
(* that was planned; a job knows the version it has made.                   *)
FreshRuns ==
  \A r \in Runs : run[r] = "none" =>
    exec[r].at = "idle" /\ \A c \in Comments : task[c].run # r

KnownGroups ==
  \A x \in Calls : call[x] # None =>
    /\ call[x].run # None => run[call[x].run] # "none"
    /\ call[x].group # {} => call[x].run # None /\ call[x].comment \in call[x].group
    /\ call[x].run # None
         /\ (call[x].op \in {"accept", "human", "revise", "undo"} \/ call[x].retry)
         => Members(call[x].run) \subseteq call[x].group

KnownPlans ==
  \A r \in Runs : exec[r].at = "planned" => Members(r) \subseteq exec[r].tasks

TaskShape ==
  \A c \in Comments :
    /\ task[c].run = None =>
         /\ task[c].status \notin {"PLANNING", "RENDERING", "ACCEPTED"}
         /\ task[c].job = None /\ task[c].version = None
    /\ task[c].status \in {"PLANNING", "QUEUED"} =>
         task[c].job = None /\ task[c].version = None

JobShape ==
  \A j \in Jobs :
    /\ job[j].status # "none" => job[j].cut # None
    /\ job[j].at \in {"made", "pinned"} =>
         /\ job[j].version # None
         /\ version[job[j].version].used /\ version[job[j].version].cut = job[j].cut

VersionShape == \A v \in Versions : version[v].alive => version[v].used

IInv ==
  /\ TypeOK /\ FreshRuns /\ KnownGroups /\ KnownPlans
  /\ TaskShape /\ JobShape /\ VersionShape /\ SharedDraft /\ OwnPreview

-----------------------------------------------------------------------------
(* How a step may change the tasks.                                         *)

\* S holds all or none of the members of a run.
Whole(S) ==
  \A c \in S, d \in Comments :
    task[c].run # None /\ task[d].run = task[c].run => d \in S

\* The drafts of S change status and nothing else: undo, accept, human.
Relabelled(S, s) ==
  /\ Whole(S) /\ s \in {"RENDERING", "ACCEPTED", "HUMAN"}
  /\ \A c \in S : s # "HUMAN" => task[c].run # None
  /\ \A c \in Comments :
       /\ task'[c].run = task[c].run /\ task'[c].job = task[c].job
       /\ task'[c].version = task[c].version
       /\ task'[c].status = IF c \in S THEN s ELSE task[c].status
  /\ UNCHANGED <<run, exec, job, version>>

\* The tasks of S leave their drafts behind, for a run of their own or for
\* none: revise, queue, run, a batch, and a deletion.
Restarted(S, s, r) ==
  /\ \/ /\ s = "PLANNING" /\ r \in Runs /\ run[r] = "none"
        /\ run' = [run EXCEPT ![r] = "PENDING"]
     \/ s \in {"QUEUED", "none"} /\ r = None /\ run' = run
  /\ \A c \in Comments :
       IF c \in S THEN /\ task'[c].status = s /\ task'[c].run = r
                       /\ task'[c].job = None /\ task'[c].version = None
                  ELSE task'[c] = task[c]
  /\ UNCHANGED <<exec, job, version>>

LEMMA GroupFacts ==
  ASSUME TypeOK, KnownGroups, NEW x \in Calls, call[x] # None, Admitted(call[x])
  PROVE  /\ call[x] \in Call
         /\ call[x].comment \in Group(call[x]) /\ Group(call[x]) \subseteq Comments
         /\ \A d \in Group(call[x]) : task[d].run = call[x].run
         /\ task[call[x].comment].run = call[x].run
<1>1. call[x] \in Call
  BY DEF TypeOK
<1>2. call[x].comment \in Comments /\ call[x].group \subseteq Comments
  BY <1>1 DEF Call
<1> QED
  BY <1>1, <1>2 DEF Group, Admitted, KnownGroups

(* The members of a run a call has read are the members there are now.      *)
LEMMA WholeGroup ==
  ASSUME TypeOK, KnownGroups, NEW x \in Calls, call[x] # None, Admitted(call[x]),
         call[x].op \in {"accept", "human", "revise", "undo"} \/ call[x].retry
  PROVE  Whole(Group(call[x]))
<1> SUFFICES ASSUME NEW c \in Group(call[x]), NEW d \in Comments,
                    task[c].run # None, task[d].run = task[c].run
             PROVE  d \in Group(call[x])
  BY DEF Whole
<1>1. task[c].run = call[x].run
  BY GroupFacts
<1>2. d \in Members(call[x].run)
  BY <1>1 DEF Members
<1> QED
  BY <1>1, <1>2 DEF KnownGroups, Group

(* A draft is looked at as a whole: what one member shows, all of them do.  *)
LEMMA GroupShown ==
  ASSUME TypeOK, KnownGroups, SharedDraft, NEW x \in Calls, call[x] # None,
         Admitted(call[x]), NEW d \in Group(call[x])
  PROVE  Shown(d) = Shown(call[x].comment)
<1>1. call[x].comment \in Comments /\ d \in Comments
  BY GroupFacts
<1>2. CASE d = call[x].comment
  BY <1>2
<1>3. CASE d # call[x].comment
  <2>1. call[x].run # None
    BY <1>3 DEF Group, KnownGroups
  <2>2. task[d].run = call[x].run /\ task[call[x].comment].run = call[x].run
    BY GroupFacts
  <2>3. /\ task[d].status = task[call[x].comment].status
        /\ task[d].job = task[call[x].comment].job
        /\ task[d].version = task[call[x].comment].version
    BY <1>1, <2>1, <2>2 DEF SharedDraft
  <2> QED
    BY <2>2, <2>3 DEF Shown, View
<1> QED
  BY <1>2, <1>3

LEMMA ReadyIsRendering ==
  ASSUME TypeOK, NEW c \in Comments, Shown(c) = "READY"
  PROVE  task[c].status = "RENDERING"
<1>1. task[c].status \in Statuses
  BY TaskFields DEF TypeOK
<1> QED
  BY <1>1 DEF Shown, View, Statuses

LEMMA RestartTasks ==
  ASSUME IInv, NEW x \in Calls, Queue(x) \/ \E r \in Runs : Revise(x, r) \/ Run(x, r)
  PROVE  \E S \in SUBSET Comments, s \in Statuses, r \in Runs \cup {None} : Restarted(S, s, r)
<1> DEFINE S == Group(call[x])
<1>0. TypeOK /\ KnownGroups /\ task \in [Comments -> Task]
  BY DEF IInv, TypeOK
<1>1. CASE Queue(x)
  <2> DEFINE c == call[x].comment
             t == Snapshot(task[c], c, call[x].op)
  <2>1. call[x] # None /\ Admitted(call[x]) /\ c \in Comments
    BY <1>0, <1>1 DEF Queue, CanStart, TypeOK, Call
  <2>2. t \in Task
    BY <1>0, <2>1, SnapshotType
  <2>3. task' = [d \in Comments |-> IF d \in {c} THEN Reset(t, "QUEUED", None) ELSE task[d]]
    BY <1>1 DEF Queue, Assign
  <2> HIDE DEF t, c
  <2>4. Restarted({c}, "QUEUED", None)
    BY <1>1, <2>1, <2>2, <2>3, ResetType DEF Restarted, Queue, Statuses
  <2> QED
    BY <2>1, <2>4 DEF Statuses
<1>2. ASSUME NEW r \in Runs, Run(x, r)
      PROVE  \E T \in SUBSET Comments, s \in Statuses : Restarted(T, s, r)
  <2> DEFINE c == call[x].comment
             t == Snapshot(task[c], c, call[x].op)
  <2>1. call[x] # None /\ Admitted(call[x]) /\ c \in Comments /\ run[r] = "none"
    BY <1>0, <1>2 DEF Run, CanStart, TypeOK, Call
  <2>2. t \in Task
    BY <1>0, <2>1, SnapshotType
  <2>3. task' = [d \in Comments |-> IF d \in {c} THEN Reset(t, "PLANNING", r) ELSE task[d]]
    BY <1>2 DEF Run, Assign
  <2> HIDE DEF t, c
  <2>4. Restarted({c}, "PLANNING", r)
    BY <1>2, <2>1, <2>2, <2>3, ResetType DEF Restarted, Run, Statuses
  <2> QED
    BY <2>1, <2>4 DEF Statuses
<1>3. ASSUME NEW r \in Runs, Revise(x, r)
      PROVE  \E T \in SUBSET Comments, s \in Statuses : Restarted(T, s, r)
  <2>1. call[x] # None /\ Admitted(call[x]) /\ run[r] = "none"
    BY <1>3 DEF Revise
  <2>2. S \subseteq Comments
    BY <1>0, <2>1, GroupFacts
  <2>3. task' = [c \in Comments |->
                  IF c \in S THEN [Reset(task[c], "PLANNING", r) EXCEPT !.adjusted = TRUE]
                             ELSE task[c]]
    BY <1>3 DEF Revise, Assign
  <2>4. \A c \in Comments :
          LET t == [Reset(task[c], "PLANNING", r) EXCEPT !.adjusted = TRUE]
          IN  t.status = "PLANNING" /\ t.run = r /\ t.job = None /\ t.version = None
    BY <1>0, ResetType DEF Task, Statuses
  <2>5. Restarted(S, "PLANNING", r)
    BY <1>3, <2>1, <2>2, <2>3, <2>4 DEF Restarted, Revise
  <2> QED
    BY <2>2, <2>5 DEF Statuses
<1> QED
  BY <1>1, <1>2, <1>3

LEMMA RouteTasks ==
  ASSUME IInv, NEW x \in Calls, RouteStep(x)
  PROVE  \/ UNCHANGED <<task, run, exec, job, version>>
         \/ \E S \in SUBSET Comments, s \in Statuses : Relabelled(S, s)
         \/ \E S \in SUBSET Comments, s \in Statuses, r \in Runs \cup {None} :
              Restarted(S, s, r)
<1> DEFINE S == Group(call[x])
<1>0. TypeOK /\ KnownGroups /\ TaskShape /\ task \in [Comments -> Task]
  BY DEF IInv, TypeOK
<1>1. CASE Refuse(x) \/ \E c \in Comments, op \in Actions : Read(x, c, op)
  BY <1>1 DEF Refuse, Read
<1>2. CASE Undo(x)
  <2>1. call[x] # None /\ Admitted(call[x]) /\ call[x].op = "undo" /\ call[x].run # None
    BY <1>2 DEF Undo
  <2>2. S \subseteq Comments /\ Whole(S) /\ \A c \in S : task[c].run # None
    BY <1>0, <2>1, GroupFacts, WholeGroup
  <2>3. task' = [c \in Comments |-> IF c \in S THEN [task[c] EXCEPT !.status = "RENDERING"]
                                              ELSE task[c]]
    BY <1>2 DEF Undo, Assign
  <2>4. Relabelled(S, "RENDERING")
    BY <1>0, <1>2, <2>2, <2>3, TaskFields DEF Relabelled, Undo, Task
  <2> QED
    BY <2>2, <2>4 DEF Statuses
<1>3. CASE Accept(x)
  <2>1. call[x] # None /\ Admitted(call[x]) /\ call[x].op = "accept" /\ Acceptable(call[x])
    BY <1>3 DEF Accept
  <2>2. S \subseteq Comments /\ Whole(S)
    BY <1>0, <2>1, GroupFacts, WholeGroup
  <2>3. \A c \in S : task[c].run # None
    BY <1>0, <2>1, <2>2 DEF Acceptable, TaskShape
  <2>4. task' = [c \in Comments |-> IF c \in S THEN [task[c] EXCEPT !.status = "ACCEPTED"]
                                              ELSE task[c]]
    BY <1>3 DEF Accept, Assign
  <2>5. Relabelled(S, "ACCEPTED")
    BY <1>0, <1>3, <2>2, <2>3, <2>4, TaskFields DEF Relabelled, Accept, Task
  <2> QED
    BY <2>2, <2>5 DEF Statuses
<1>4. CASE Human(x)
  <2>1. call[x] # None /\ Admitted(call[x]) /\ call[x].op = "human"
    BY <1>4 DEF Human
  <2>2. S \subseteq Comments /\ Whole(S)
    BY <1>0, <2>1, GroupFacts, WholeGroup
  <2>3. task' = [c \in Comments |-> IF c \in S THEN [task[c] EXCEPT !.status = "HUMAN"]
                                              ELSE task[c]]
    BY <1>4 DEF Human, Assign
  <2>4. Relabelled(S, "HUMAN")
    BY <1>0, <1>4, <2>2, <2>3, TaskFields DEF Relabelled, Human, Task
  <2> QED
    BY <2>2, <2>4 DEF Statuses
<1>5. CASE Queue(x) \/ \E r \in Runs : Revise(x, r) \/ Run(x, r)
  BY <1>5, RestartTasks
<1> QED
  BY <1>1, <1>2, <1>3, <1>4, <1>5 DEF RouteStep

(* What the steps below the route do to the tasks, field by field.          *)
LEMMA CommitEffect ==
  ASSUME IInv, NEW r \in Runs, NEW j \in Jobs, Commit(r, j)
  PROVE  /\ \A c \in Comments :
              /\ task'[c].run = task[c].run /\ task'[c].version = task[c].version
              /\ task[c].run = r =>
                   /\ task[c].status = "PLANNING" /\ task[c].version = None
                   /\ task'[c].status = "RENDERING" /\ task'[c].job = j
              /\ task[c].run # r => task'[c] = task[c]
         /\ job'[j].status = "QUEUED" /\ job'[j].cut = j /\ job'[j].at = "start"
         /\ \A i \in Jobs : i # j => job'[i] = job[i]
         /\ UNCHANGED version
<1>0. TypeOK /\ KnownPlans /\ TaskShape /\ task \in [Comments -> Task] /\ job \in [Jobs -> Job]
      /\ exec[r].at = "planned"
  BY DEF IInv, TypeOK, Commit
<1>1. exec[r].tasks \subseteq Comments
  BY <1>0 DEF TypeOK, Execution
<1>2. \A c \in Comments : c \in exec[r].tasks <=> task[c].run = r
  BY <1>0, <1>1 DEF Commit, Intact, KnownPlans, Members
<1>3. task' = [c \in Comments |->
                IF c \in exec[r].tasks THEN [task[c] EXCEPT !.status = "RENDERING", !.job = j]
                                       ELSE task[c]]
  BY DEF Commit, Assign
<1>4. ASSUME NEW c \in Comments
      PROVE  /\ task'[c].run = task[c].run /\ task'[c].version = task[c].version
             /\ task[c].run = r =>
                  /\ task[c].status = "PLANNING" /\ task[c].version = None
                  /\ task'[c].status = "RENDERING" /\ task'[c].job = j
             /\ task[c].run # r => task'[c] = task[c]
  <2>1. task[c].run = r => task[c].status = "PLANNING" /\ task[c].version = None
    BY <1>0, <1>2 DEF Commit, Intact, TaskShape
  <2> QED
    BY <1>0, <1>2, <1>3, <2>1 DEF Task
<1>5. job' = [job EXCEPT ![j] = [NoJob EXCEPT !.status = "QUEUED", !.cut = j]]
      /\ version' = version
  BY DEF Commit
<1>6. /\ job'[j].status = "QUEUED" /\ job'[j].cut = j /\ job'[j].at = "start"
      /\ \A i \in Jobs : i # j => job'[i] = job[i]
  BY <1>0, <1>5 DEF NoJob
<1> QED
  BY <1>4, <1>5, <1>6

LEMMA PinEffect ==
  ASSUME IInv, NEW j \in Jobs, Pin(j)
  PROVE  /\ job[j].cut # None /\ job[j].version \in Versions
         /\ version[job[j].version].alive /\ version[job[j].version].cut = job[j].cut
         /\ \A c \in Comments :
              /\ task'[c].run = task[c].run /\ task'[c].status = task[c].status
              /\ task'[c].job = task[c].job
              /\ task'[c].version = IF /\ task[c].job = job[j].cut /\ job[task[c].job].kept
                                        /\ task[c].version = None
                                      THEN job[j].version ELSE task[c].version
<1>0. /\ TypeOK /\ JobShape /\ task \in [Comments -> Task]
      /\ job[j].status = "RUNNING" /\ job[j].at = "made" /\ version[job[j].version].alive
      /\ task' = [c \in Comments |-> Pinned(task[c], j, job[j].version)]
  BY DEF IInv, TypeOK, Pin
<1>1. /\ job[j].cut # None /\ job[j].version \in Versions
      /\ version[job[j].version].cut = job[j].cut
  BY <1>0, JobUpdates DEF JobShape, TypeOK
<1>2. \A c \in Comments :
        /\ task'[c].run = task[c].run /\ task'[c].status = task[c].status
        /\ task'[c].job = task[c].job
        /\ task'[c].version = IF /\ task[c].job = job[j].cut /\ job[task[c].job].kept
                                  /\ task[c].version = None
                                THEN job[j].version ELSE task[c].version
  BY <1>0 DEF Pinned, Task
<1> QED
  BY <1>0, <1>1, <1>2

LEMMA DeleteVersionEffect ==
  ASSUME IInv, NEW v \in Versions, DeleteVersion(v)
  PROVE  /\ \A c \in Comments :
              /\ task'[c].run = task[c].run /\ task'[c].status = task[c].status
              /\ task'[c].job = task[c].job
              /\ task'[c].version = IF task[c].version = v THEN None ELSE task[c].version
         /\ ~version'[v].alive /\ version'[v].used = version[v].used
         /\ version'[v].cut = version[v].cut
         /\ \A u \in Versions : u # v => version'[u] = version[u]
         /\ UNCHANGED <<run, exec, job>>
<1>1. /\ task \in [Comments -> Task]
      /\ version \in [Versions -> [used : BOOLEAN, alive : BOOLEAN, cut : Jobs \cup {None}]]
      /\ task' = [c \in Comments |-> IF task[c].version = v
                                       THEN [task[c] EXCEPT !.version = None] ELSE task[c]]
      /\ version' = [version EXCEPT ![v] = [version[v] EXCEPT !.alive = FALSE]]
  BY DEF IInv, TypeOK, DeleteVersion
<1>2. \A c \in Comments :
        /\ task'[c].run = task[c].run /\ task'[c].status = task[c].status
        /\ task'[c].job = task[c].job
        /\ task'[c].version = IF task[c].version = v THEN None ELSE task[c].version
  BY <1>1 DEF Task
<1>3. /\ ~version'[v].alive /\ version'[v].used = version[v].used
      /\ version'[v].cut = version[v].cut
      /\ \A u \in Versions : u # v => version'[u] = version[u]
  BY <1>1
<1> QED
  BY <1>2, <1>3 DEF DeleteVersion

LEMMA OtherTasks ==
  ASSUME IInv, OtherStep
  PROVE  \/ UNCHANGED <<task, run, exec, version>>
         \/ \E S \in SUBSET Comments, s \in Statuses, r \in Runs \cup {None} :
              Restarted(S, s, r)
         \/ \E v \in Versions : DeleteVersion(v)
<1>0. TypeOK /\ task \in [Comments -> Task]
  BY DEF IInv, TypeOK
<1>1. ASSUME NEW S \in SUBSET Comments, NEW r \in Runs, RunBatch(S, r)
      PROVE  \E T \in SUBSET Comments, s \in Statuses : Restarted(T, s, r)
  <2>1. task' = [c \in Comments |-> IF c \in S THEN Reset(task[c], "PLANNING", r)
                                              ELSE task[c]]
    BY <1>1 DEF RunBatch, Assign
  <2>2. Restarted(S, "PLANNING", r)
    BY <1>0, <1>1, <2>1, ResetType DEF Restarted, RunBatch, Statuses
  <2> QED
    BY <2>2 DEF Statuses
<1>2. ASSUME NEW c \in Comments, DeleteComment(c)
      PROVE  \E T \in SUBSET Comments, s \in Statuses : Restarted(T, s, None)
  <2>1. Restarted({c}, "none", None)
    BY <1>0, <1>2 DEF Restarted, DeleteComment, NoTask
  <2> QED
    BY <2>1 DEF Statuses
<1>3. CASE \/ \E c \in Comments : ResolveComment(c)
           \/ \E c \in Comments, text \in Texts : EditComment(c, text)
           \/ \E k, j \in Jobs : Rerender(k, j)
           \/ \E k \in Jobs : DeleteCut(k)
  BY <1>3 DEF ResolveComment, EditComment, Rerender, DeleteCut
<1> QED
  BY <1>1, <1>2, <1>3 DEF OtherStep

(* Every step is one of these kinds.                                        *)
LEMMA TaskKinds ==
  ASSUME IInv, [Next]_vars
  PROVE  \/ UNCHANGED task
         \/ \E S \in SUBSET Comments, s \in Statuses : Relabelled(S, s)
         \/ \E S \in SUBSET Comments, s \in Statuses, r \in Runs \cup {None} :
              Restarted(S, s, r)
         \/ \E r \in Runs, j \in Jobs : Commit(r, j)
         \/ \E j \in Jobs : Pin(j)
         \/ \E v \in Versions : DeleteVersion(v)
<1>1. ASSUME NEW r \in Runs, WorkerStep(r) \/ Stop(r)
      PROVE  UNCHANGED task \/ \E j \in Jobs : Commit(r, j)
  BY <1>1 DEF WorkerStep, Claim, Plan, PlanForNobody, GiveUp, Return, Fail, Stop
<1>2. ASSUME NEW j \in Jobs, RenderStep(j) \/ RestartRender(j)
      PROVE  UNCHANGED task \/ Pin(j)
  BY <1>2 DEF RenderStep, StartRender, FinishRender, FailRender, MakeVersion, RestartRender
<1>3. CASE UNCHANGED vars
  BY <1>3 DEF vars
<1> QED
  BY <1>1, <1>2, <1>3, RouteTasks, OtherTasks DEF Next

-----------------------------------------------------------------------------
(* Runs: an id that was given out stays given out, and is never joined.     *)
LEMMA RunsKeep ==
  ASSUME IInv, [Next]_vars, NEW r \in Runs, run[r] # "none"
  PROVE  run'[r] # "none"
<1>0. run \in [Runs -> {"none", "PENDING", "RUNNING", "SUCCEEDED", "FAILED"}]
  BY DEF IInv, TypeOK
<1>1. ASSUME NEW x \in Calls, RouteStep(x) PROVE run'[r] # "none"
  BY <1>0, <1>1, RouteTasks DEF Relabelled, Restarted
<1>2. ASSUME NEW q \in Runs, WorkerStep(q) \/ Stop(q) PROVE run'[r] # "none"
  BY <1>0, <1>2 DEF WorkerStep, Claim, Plan, PlanForNobody, GiveUp, Return, Fail, Commit, Stop
<1>3. ASSUME NEW j \in Jobs, RenderStep(j) \/ RestartRender(j) PROVE run' = run
  BY <1>3 DEF RenderStep, StartRender, FinishRender, FailRender, MakeVersion, Pin, RestartRender
<1>4. CASE OtherStep
  BY <1>0, <1>4, OtherTasks, DeleteVersionEffect DEF Restarted
<1>5. CASE UNCHANGED vars
  BY <1>5 DEF vars
<1> QED
  BY <1>1, <1>2, <1>3, <1>4, <1>5 DEF Next

LEMMA MembersShrink ==
  ASSUME IInv, [Next]_vars, NEW r \in Runs, run[r] # "none",
         NEW c \in Comments, task'[c].run = r
  PROVE  task[c].run = r
<1>1. CASE UNCHANGED task
  BY <1>1
<1>2. ASSUME NEW S \in SUBSET Comments, NEW s \in Statuses, Relabelled(S, s)
      PROVE  task[c].run = r
  BY <1>2 DEF Relabelled
<1>3. ASSUME NEW S \in SUBSET Comments, NEW s \in Statuses, NEW q \in Runs \cup {None},
             Restarted(S, s, q)
      PROVE  task[c].run = r
  BY <1>3 DEF Restarted
<1>4. ASSUME NEW q \in Runs, NEW j \in Jobs, Commit(q, j) PROVE task[c].run = r
  BY <1>4, CommitEffect
<1>5. ASSUME NEW j \in Jobs, Pin(j) PROVE task[c].run = r
  BY <1>5, PinEffect
<1>6. ASSUME NEW v \in Versions, DeleteVersion(v) PROVE task[c].run = r
  BY <1>6, DeleteVersionEffect
<1> QED
  BY <1>1, <1>2, <1>3, <1>4, <1>5, <1>6, TaskKinds

(* A run nobody asked for stays without members until it is asked for.      *)
LEMMA FreshStays ==
  ASSUME IInv, [Next]_vars, NEW r \in Runs, run'[r] = "none", NEW c \in Comments
  PROVE  task'[c].run # r
<1>0. run[r] = "none" /\ task[c].run # r
  BY RunsKeep DEF IInv, FreshRuns
<1>1. CASE UNCHANGED task
  BY <1>0, <1>1
<1>2. ASSUME NEW S \in SUBSET Comments, NEW s \in Statuses, Relabelled(S, s)
      PROVE  task'[c].run # r
  BY <1>0, <1>2 DEF Relabelled
<1>3. ASSUME NEW S \in SUBSET Comments, NEW s \in Statuses, NEW q \in Runs \cup {None},
             Restarted(S, s, q)
      PROVE  task'[c].run # r
  <2>1. q # r
    BY <1>3 DEF Restarted, IInv, TypeOK
  <2> QED
    BY <1>0, <1>3, <2>1 DEF Restarted
<1>4. ASSUME NEW q \in Runs, NEW j \in Jobs, Commit(q, j) PROVE task'[c].run # r
  BY <1>0, <1>4, CommitEffect
<1>5. ASSUME NEW j \in Jobs, Pin(j) PROVE task'[c].run # r
  BY <1>0, <1>5, PinEffect
<1>6. ASSUME NEW v \in Versions, DeleteVersion(v) PROVE task'[c].run # r
  BY <1>0, <1>6, DeleteVersionEffect
<1> QED
  BY <1>1, <1>2, <1>3, <1>4, <1>5, <1>6, TaskKinds

(* The worker steps of a run are the only ones that move its execution.     *)
LEMMA ExecKinds ==
  ASSUME IInv, [Next]_vars, NEW r \in Runs
  PROVE  \/ exec'[r] = exec[r]
         \/ run[r] # "none" /\ exec'[r].at # "planned"
         \/ run[r] # "none" /\ UNCHANGED task /\ exec'[r].tasks = Members(r)
<1>0. exec \in [Runs -> Execution] /\ FreshRuns
  BY DEF IInv, TypeOK
<1>1. ASSUME NEW q \in Runs, WorkerStep(q) \/ Stop(q)
      PROVE  \/ exec'[r] = exec[r]
             \/ run[r] # "none" /\ exec'[r].at # "planned"
             \/ run[r] # "none" /\ UNCHANGED task /\ exec'[r].tasks = Members(r)
  <2>1. PICK at \in {"idle", "claimed", "planned", "committed"}, T \in {{}, Members(q)} :
          /\ ToStep(q, at, T)
          /\ at = "planned" => UNCHANGED task /\ T = Members(q)
          /\ exec[q].at # "idle" \/ run[q] = "PENDING"
    <3>1. CASE Claim(q)
      BY <3>1 DEF Claim
    <3>2. CASE Plan(q)
      BY <3>2 DEF Plan
    <3>3. CASE PlanForNobody(q)
      BY <3>3 DEF PlanForNobody
    <3>4. CASE GiveUp(q) \/ Return(q) \/ Fail(q) \/ Stop(q)
      BY <3>4 DEF GiveUp, Overtaken, Return, Fail, Stop
    <3>5. ASSUME NEW j \in Jobs, Commit(q, j)
          PROVE  ToStep(q, "committed", {}) /\ exec[q].at # "idle"
      BY <3>5 DEF Commit
    <3> QED
      BY <1>1, <3>1, <3>2, <3>3, <3>4, <3>5 DEF WorkerStep
  <2>2. run[q] # "none"
    BY <1>0, <2>1 DEF FreshRuns
  <2>3. CASE q = r
    BY <1>0, <2>1, <2>2, <2>3 DEF ToStep
  <2>4. CASE q # r
    BY <1>0, <2>1, <2>4 DEF ToStep
  <2> QED
    BY <2>3, <2>4
<1>2. ASSUME NEW j \in Jobs, RenderStep(j) \/ RestartRender(j) PROVE exec' = exec
  BY <1>2 DEF RenderStep, StartRender, FinishRender, FailRender, MakeVersion, Pin, RestartRender
<1>3. ASSUME NEW x \in Calls, RouteStep(x) PROVE exec' = exec
  BY <1>3, RouteTasks DEF Relabelled, Restarted
<1>4. CASE OtherStep
  BY <1>4, OtherTasks, DeleteVersionEffect DEF Restarted
<1>5. CASE UNCHANGED vars
  BY <1>5 DEF vars
<1> QED
  BY <1>1, <1>2, <1>3, <1>4, <1>5 DEF Next

LEMMA FreshStep == IInv /\ [Next]_vars => FreshRuns' /\ KnownPlans'
<1> SUFFICES ASSUME IInv, [Next]_vars PROVE FreshRuns' /\ KnownPlans'
  OBVIOUS
<1>0. FreshRuns /\ KnownPlans
  BY DEF IInv
<1>1. ASSUME NEW r \in Runs, run'[r] = "none"
      PROVE  exec'[r].at = "idle" /\ \A c \in Comments : task'[c].run # r
  <2>1. run[r] = "none" /\ \A c \in Comments : task'[c].run # r
    BY <1>1, RunsKeep, FreshStays
  <2> QED
    BY <1>0, <2>1, ExecKinds DEF FreshRuns
<1>2. ASSUME NEW r \in Runs, exec'[r].at = "planned"
      PROVE  {c \in Comments : task'[c].run = r} \subseteq exec'[r].tasks
  <2>1. CASE exec'[r] = exec[r]
    <3>1. run[r] # "none"
      BY <1>0, <1>2, <2>1 DEF FreshRuns
    <3> QED
      BY <1>0, <1>2, <2>1, <3>1, MembersShrink DEF KnownPlans, Members
  <2>2. CASE UNCHANGED task /\ exec'[r].tasks = Members(r)
    BY <2>2 DEF Members
  <2> QED
    BY <1>2, <2>1, <2>2, ExecKinds
<1> QED
  BY <1>1, <1>2 DEF FreshRuns, KnownPlans, Members

(* A call's knowledge: it read the run's members, and they only leave.      *)
LEMMA CallKinds ==
  ASSUME IInv, [Next]_vars, NEW x \in Calls
  PROVE  \/ call'[x] = call[x]
         \/ call'[x] = None
         \/ \E c \in Comments, op \in Actions : Read(x, c, op)
<1>0. call \in [Calls -> Call \cup {None}]
  BY DEF IInv, TypeOK
<1>1. ASSUME NEW y \in Calls, RouteStep(y)
      PROVE  \/ call'[x] = call[x]
             \/ call'[x] = None
             \/ \E c \in Comments, op \in Actions : Read(x, c, op)
  <2>1. CASE Leave(y)
    BY <1>0, <2>1 DEF Leave
  <2>2. ASSUME NEW c \in Comments, NEW op \in Actions, Read(y, c, op)
        PROVE  call'[x] = call[x] \/ y = x
    BY <1>0, <2>2 DEF Read
  <2>3. Leave(y) \/ \E c \in Comments, op \in Actions : Read(y, c, op)
    BY <1>1 DEF RouteStep, Refuse, Undo, Accept, Human, Queue, Revise, Run
  <2> QED
    BY <2>1, <2>2, <2>3
<1>2. ASSUME NEW q \in Runs, WorkerStep(q) \/ Stop(q) PROVE call' = call
  BY <1>2 DEF WorkerStep, Claim, Plan, PlanForNobody, GiveUp, Return, Fail, Commit, Stop
<1>3. ASSUME NEW j \in Jobs, RenderStep(j) \/ RestartRender(j) PROVE call' = call
  BY <1>3 DEF RenderStep, StartRender, FinishRender, FailRender, MakeVersion, Pin, RestartRender
<1>4. CASE OtherStep
  BY <1>4 DEF OtherStep, RunBatch, ResolveComment, DeleteComment, EditComment, DeleteVersion,
     DeleteCut, Rerender
<1>5. CASE UNCHANGED vars
  BY <1>5 DEF vars
<1> QED
  BY <1>1, <1>2, <1>3, <1>4, <1>5 DEF Next

LEMMA GroupsStep == IInv /\ [Next]_vars => KnownGroups'
<1> SUFFICES ASSUME IInv, [Next]_vars, NEW x \in Calls, call'[x] # None
             PROVE  /\ call'[x].run # None => run'[call'[x].run] # "none"
                    /\ call'[x].group # {} =>
                         call'[x].run # None /\ call'[x].comment \in call'[x].group
                    /\ call'[x].run # None
                         /\ (call'[x].op \in {"accept", "human", "revise", "undo"}
                               \/ call'[x].retry)
                         => {c \in Comments : task'[c].run = call'[x].run}
                              \subseteq call'[x].group
  BY DEF KnownGroups, Members
<1>0. KnownGroups /\ FreshRuns /\ call \in [Calls -> Call \cup {None}]
      /\ task \in [Comments -> Task]
  BY DEF IInv, TypeOK
<1>1. CASE call'[x] = call[x]
  <2>1. call[x] # None /\ call[x] \in Call
    BY <1>0, <1>1
  <2> DEFINE r == call[x].run
  <2>2. r \in Runs \cup {None}
    BY <2>1 DEF Call
  <2>3. r # None => run[r] # "none" /\ run'[r] # "none"
    BY <1>0, <2>1, <2>2, RunsKeep DEF KnownGroups
  <2>4. r # None => {c \in Comments : task'[c].run = r} \subseteq Members(r)
    BY <2>2, <2>3, MembersShrink DEF Members
  <2> QED
    BY <1>0, <1>1, <2>1, <2>3, <2>4 DEF KnownGroups
<1>2. ASSUME NEW c \in Comments, NEW op \in Actions, Read(x, c, op)
      PROVE  /\ call'[x].run # None => run'[call'[x].run] # "none"
             /\ call'[x].group # {} =>
                  call'[x].run # None /\ call'[x].comment \in call'[x].group
             /\ call'[x].run # None
                  /\ (call'[x].op \in {"accept", "human", "revise", "undo"}
                        \/ call'[x].retry)
                  => {d \in Comments : task'[d].run = call'[x].run} \subseteq call'[x].group
  <2> DEFINE retry == op = "run" /\ task[c].adjusted /\ task[c].status \in Busy
             shared == task[c].run # None
                         /\ (op \in {"accept", "human", "revise", "undo"} \/ retry)
             members == IF shared THEN Members(task[c].run) ELSE {}
  <2>1. /\ call'[x].op = op /\ call'[x].comment = c /\ call'[x].run = task[c].run
        /\ call'[x].retry = retry /\ call'[x].group = members
    BY <1>0, <1>2 DEF Read
  <2>2. task' = task /\ run' = run
    BY <1>2 DEF Read
  <2>3. task[c].run \in Runs \cup {None}
    BY <1>0, TaskFields
  <2>4. task[c].run # None => run[task[c].run] # "none"
    BY <1>0, <2>3 DEF FreshRuns
  <2>5. c \in Members(task[c].run)
    BY DEF Members
  <2> HIDE DEF retry
  <2> QED
    BY <2>1, <2>2, <2>4, <2>5 DEF Members
<1> QED
  BY <1>1, <1>2, CallKinds

LEMMA ShapeStep == IInv /\ [Next]_vars => TaskShape'
<1> SUFFICES ASSUME IInv, [Next]_vars, NEW c \in Comments
             PROVE  /\ task'[c].run = None =>
                         /\ task'[c].status \notin {"PLANNING", "RENDERING", "ACCEPTED"}
                         /\ task'[c].job = None /\ task'[c].version = None
                    /\ task'[c].status \in {"PLANNING", "QUEUED"} =>
                         task'[c].job = None /\ task'[c].version = None
  BY DEF TaskShape
<1> DEFINE Shaped(t) ==
      /\ t.run = None =>
           /\ t.status \notin {"PLANNING", "RENDERING", "ACCEPTED"}
           /\ t.job = None /\ t.version = None
      /\ t.status \in {"PLANNING", "QUEUED"} => t.job = None /\ t.version = None
<1>0. Shaped(task[c])
  BY DEF IInv, TaskShape
<1>1. CASE UNCHANGED task
  BY <1>0, <1>1
<1>2. ASSUME NEW S \in SUBSET Comments, NEW s \in Statuses, Relabelled(S, s)
      PROVE  Shaped(task'[c])
  BY <1>0, <1>2 DEF Relabelled
<1>3. ASSUME NEW S \in SUBSET Comments, NEW s \in Statuses, NEW q \in Runs \cup {None},
             Restarted(S, s, q)
      PROVE  Shaped(task'[c])
  <2>1. CASE c \in S
    BY <1>3, <2>1 DEF Restarted
  <2>2. CASE c \notin S
    BY <1>0, <1>3, <2>2 DEF Restarted
  <2> QED
    BY <2>1, <2>2
<1>4. ASSUME NEW q \in Runs, NEW j \in Jobs, Commit(q, j) PROVE Shaped(task'[c])
  <2>1. CASE task[c].run = q
    BY <1>4, <2>1, CommitEffect
  <2>2. CASE task[c].run # q
    BY <1>0, <1>4, <2>2, CommitEffect
  <2> QED
    BY <2>1, <2>2
<1>5. ASSUME NEW j \in Jobs, Pin(j) PROVE Shaped(task'[c])
  BY <1>0, <1>5, PinEffect
<1>6. ASSUME NEW v \in Versions, DeleteVersion(v) PROVE Shaped(task'[c])
  BY <1>0, <1>6, DeleteVersionEffect
<1> QED
  BY <1>1, <1>2, <1>3, <1>4, <1>5, <1>6, TaskKinds

(* The members of a run move together.                                      *)
LEMMA SharedStep == IInv /\ [Next]_vars => SharedDraft'
<1> SUFFICES ASSUME IInv, [Next]_vars, NEW c \in Comments, NEW d \in Comments,
                    task'[c].run # None, task'[c].run = task'[d].run
             PROVE  /\ task'[c].status = task'[d].status
                    /\ task'[c].job = task'[d].job /\ task'[c].version = task'[d].version
  BY DEF SharedDraft
<1> DEFINE Alike == /\ task'[c].status = task'[d].status
                    /\ task'[c].job = task'[d].job /\ task'[c].version = task'[d].version
<1>0. /\ SharedDraft /\ FreshRuns
      /\ task[c].run = task[d].run /\ task[c].run # None =>
           /\ task[c].status = task[d].status
           /\ task[c].job = task[d].job /\ task[c].version = task[d].version
  BY DEF IInv, SharedDraft
<1>1. CASE UNCHANGED task
  BY <1>0, <1>1
<1>2. ASSUME NEW S \in SUBSET Comments, NEW s \in Statuses, Relabelled(S, s)
      PROVE  Alike
  <2>1. c \in S <=> d \in S
    BY <1>2 DEF Relabelled, Whole
  <2> QED
    BY <1>0, <1>2, <2>1 DEF Relabelled
<1>3. ASSUME NEW S \in SUBSET Comments, NEW s \in Statuses, NEW q \in Runs \cup {None},
             Restarted(S, s, q)
      PROVE  Alike
  <2>1. \A e \in Comments : q # None => task[e].run # q
    BY <1>0, <1>3 DEF Restarted, FreshRuns
  <2>2. c \in S <=> d \in S
    BY <1>3, <2>1 DEF Restarted
  <2> QED
    BY <1>0, <1>3, <2>2 DEF Restarted
<1>4. ASSUME NEW q \in Runs, NEW j \in Jobs, Commit(q, j) PROVE Alike
  <2>1. task[c].run = task[d].run /\ task[c].run # None
    BY <1>4, CommitEffect
  <2>2. CASE task[c].run = q
    BY <1>4, <2>1, <2>2, CommitEffect
  <2>3. CASE task[c].run # q
    BY <1>0, <1>4, <2>1, <2>3, CommitEffect
  <2> QED
    BY <2>2, <2>3
<1>5. ASSUME NEW j \in Jobs, Pin(j) PROVE Alike
  BY <1>0, <1>5, PinEffect
<1>6. ASSUME NEW v \in Versions, DeleteVersion(v) PROVE Alike
  BY <1>0, <1>6, DeleteVersionEffect
<1> QED
  BY <1>1, <1>2, <1>3, <1>4, <1>5, <1>6, TaskKinds

-----------------------------------------------------------------------------
(* Render jobs and versions.                                                *)

LEMMA MakeVersionEffect ==
  ASSUME IInv, NEW j \in Jobs, NEW v \in Versions, MakeVersion(j, v)
  PROVE  /\ ~version[v].used /\ version'[v].used /\ version'[v].alive
         /\ version'[v].cut = job[j].cut
         /\ \A u \in Versions : u # v => version'[u] = version[u]
         /\ job[j].cut # None
         /\ job'[j].cut = job[j].cut /\ job'[j].status = job[j].status
         /\ job'[j].version = v
         /\ \A i \in Jobs : i # j => job'[i] = job[i]
<1>1. /\ version \in [Versions -> [used : BOOLEAN, alive : BOOLEAN, cut : Jobs \cup {None}]]
      /\ job \in [Jobs -> Job]
  BY DEF IInv, TypeOK
<1>2. job' = [job EXCEPT ![j] = [job[j] EXCEPT !.at = "made", !.version = v]]
  BY <1>1 DEF MakeVersion, Job
<1>3. job[j].cut # None
  BY DEF IInv, JobShape, MakeVersion
<1> QED
  BY <1>1, <1>2, <1>3 DEF MakeVersion, Job

\* A step on job j that makes no version: it begins (again), or goes on with
\* the version it has made.
JobMoved(j) ==
  /\ UNCHANGED version
  /\ \A i \in Jobs : i # j => job'[i] = job[i]
  /\ \/ job'[j].cut # None /\ job'[j].at \in {"start", "lost"}
     \/ /\ job'[j].cut # None /\ job'[j].cut = job[j].cut
        /\ job'[j].version = job[j].version
        /\ job'[j].at = job[j].at \/ job[j].at = "made"

LEMMA JobKinds ==
  ASSUME IInv, [Next]_vars
  PROVE  \/ UNCHANGED <<job, version>>
         \/ \E v \in Versions : DeleteVersion(v)
         \/ \E j \in Jobs, v \in Versions : MakeVersion(j, v)
         \/ \E j \in Jobs : JobMoved(j)
<1>0. job \in [Jobs -> Job] /\ JobShape
  BY DEF IInv, TypeOK
<1>1. ASSUME NEW q \in Runs, WorkerStep(q) \/ Stop(q)
      PROVE  UNCHANGED <<job, version>> \/ \E j \in Jobs : JobMoved(j)
  <2>1. ASSUME NEW j \in Jobs, Commit(q, j) PROVE JobMoved(j)
    BY <2>1, CommitEffect DEF JobMoved
  <2> QED
    BY <1>1, <2>1 DEF WorkerStep, Claim, Plan, PlanForNobody, GiveUp, Return, Fail, Stop
<1>2. ASSUME NEW j \in Jobs, RenderStep(j) \/ RestartRender(j)
      PROVE  JobMoved(j) \/ \E v \in Versions : MakeVersion(j, v)
  <2>1. CASE StartRender(j) \/ RestartRender(j)
    BY <1>0, <2>1 DEF StartRender, RestartRender, Begun, JobMoved, JobShape, Job
  <2>2. CASE FinishRender(j) \/ FailRender(j)
    BY <1>0, <2>2 DEF FinishRender, FailRender, JobMoved, JobShape, Job
  <2>3. CASE Pin(j)
    BY <1>0, <2>3 DEF Pin, JobMoved, JobShape, Job
  <2> QED
    BY <1>2, <2>1, <2>2, <2>3 DEF RenderStep
<1>3. ASSUME NEW x \in Calls, RouteStep(x) PROVE UNCHANGED <<job, version>>
  BY <1>3, RouteTasks DEF Relabelled, Restarted, RouteStep, Refuse, Undo, Accept, Human,
     Queue, Revise, Run, Read
<1>4. CASE OtherStep
  <2>1. ASSUME NEW k \in Jobs, NEW j \in Jobs, Rerender(k, j) PROVE JobMoved(j)
    <3>1. job[k].cut = k /\ k # None
      BY <2>1 DEF Rerender
    <3> QED
      BY <1>0, <2>1, <3>1 DEF Rerender, JobMoved, NoJob
  <2>2. ASSUME NEW k \in Jobs, DeleteCut(k) PROVE JobMoved(k)
    BY <1>0, <2>2 DEF DeleteCut, JobMoved, Job
  <2> QED
    BY <1>4, <2>1, <2>2 DEF OtherStep, RunBatch, ResolveComment, DeleteComment, EditComment
<1>5. CASE UNCHANGED vars
  BY <1>5 DEF vars
<1> QED
  BY <1>1, <1>2, <1>3, <1>4, <1>5 DEF Next

LEMMA VersionsStep ==
  IInv /\ [Next]_vars =>
    /\ VersionShape'
    /\ \A v \in Versions :
         version[v].used => version'[v].used /\ version'[v].cut = version[v].cut
<1> SUFFICES ASSUME IInv, [Next]_vars, NEW v \in Versions
             PROVE  /\ version'[v].alive => version'[v].used
                    /\ version[v].used => version'[v].used /\ version'[v].cut = version[v].cut
  BY DEF VersionShape
<1>0. version[v].alive => version[v].used
  BY DEF IInv, VersionShape
<1>1. CASE UNCHANGED version
  BY <1>0, <1>1
<1>2. ASSUME NEW u \in Versions, DeleteVersion(u)
      PROVE  /\ version'[v].alive => version'[v].used
             /\ version[v].used => version'[v].used /\ version'[v].cut = version[v].cut
  BY <1>0, <1>2, DeleteVersionEffect
<1>3. ASSUME NEW j \in Jobs, NEW u \in Versions, MakeVersion(j, u)
      PROVE  /\ version'[v].alive => version'[v].used
             /\ version[v].used => version'[v].used /\ version'[v].cut = version[v].cut
  BY <1>0, <1>3, MakeVersionEffect
<1> QED
  BY <1>1, <1>2, <1>3, JobKinds DEF JobMoved

LEMMA JobsStep == IInv /\ [Next]_vars => JobShape'
<1> SUFFICES ASSUME IInv, [Next]_vars, NEW i \in Jobs
             PROVE  /\ job'[i].status # "none" => job'[i].cut # None
                    /\ job'[i].at \in {"made", "pinned"} =>
                         /\ job'[i].version # None
                         /\ version'[job'[i].version].used
                         /\ version'[job'[i].version].cut = job'[i].cut
  BY DEF JobShape
<1> DEFINE Shaped(k) ==
      /\ k.status # "none" => k.cut # None
      /\ k.at \in {"made", "pinned"} =>
           /\ k.version # None /\ version'[k.version].used
           /\ version'[k.version].cut = k.cut
<1>0. /\ job[i].status # "none" => job[i].cut # None
      /\ job[i].at \in {"made", "pinned"} =>
           /\ job[i].version # None /\ version[job[i].version].used
           /\ version[job[i].version].cut = job[i].cut
      /\ job[i].version \in Versions \cup {None}
  BY JobUpdates DEF IInv, JobShape, TypeOK
<1>1. Shaped(job[i])
  BY <1>0, VersionsStep
<1>2. CASE UNCHANGED job
  BY <1>1, <1>2
<1>3. ASSUME NEW v \in Versions, DeleteVersion(v) PROVE Shaped(job'[i])
  BY <1>1, <1>3, DeleteVersionEffect
<1>4. ASSUME NEW j \in Jobs, NEW v \in Versions, MakeVersion(j, v) PROVE Shaped(job'[i])
  <2>1. CASE i = j
    BY <1>4, <2>1, MakeVersionEffect
  <2>2. CASE i # j
    BY <1>1, <1>4, <2>2, MakeVersionEffect
  <2> QED
    BY <2>1, <2>2
<1>5. ASSUME NEW j \in Jobs, JobMoved(j) PROVE Shaped(job'[i])
  <2>1. CASE i # j
    BY <1>1, <1>5, <2>1 DEF JobMoved
  <2>2. CASE i = j /\ job'[j].cut # None /\ job'[j].at \in {"start", "lost"}
    BY <2>2
  <2>3. CASE /\ i = j /\ job'[j].cut # None /\ job'[j].cut = job[j].cut
             /\ job'[j].version = job[j].version
             /\ job'[j].at = job[j].at \/ job[j].at = "made"
    BY <1>1, <2>3
  <2> QED
    BY <1>5, <2>1, <2>2, <2>3 DEF JobMoved
<1> QED
  BY <1>2, <1>3, <1>4, <1>5, JobKinds

(* A preview comes from the task's own rough cut.                           *)
LEMMA PreviewStep == IInv /\ [Next]_vars => OwnPreview'
<1> SUFFICES ASSUME IInv, [Next]_vars, NEW c \in Comments, task'[c].version # None
             PROVE  /\ version'[task'[c].version].alive
                    /\ version'[task'[c].version].cut = task'[c].job
  BY DEF OwnPreview
<1> DEFINE v == task[c].version
           Owned == /\ version'[task'[c].version].alive
                    /\ version'[task'[c].version].cut = task'[c].job
<1>0. /\ v \in Versions \cup {None}
      /\ v # None => version[v].alive /\ version[v].cut = task[c].job /\ version[v].used
  BY TaskFields DEF IInv, OwnPreview, VersionShape, TypeOK
<1>1. CASE UNCHANGED task
  <2>1. ASSUME NEW u \in Versions, DeleteVersion(u) PROVE Owned
    <3>1. u # v
      BY <1>1, <2>1, DeleteVersionEffect
    <3> QED
      BY <1>0, <1>1, <2>1, <3>1, DeleteVersionEffect
  <2>2. ASSUME NEW j \in Jobs, NEW u \in Versions, MakeVersion(j, u) PROVE Owned
    <3>1. u # v
      BY <1>0, <1>1, <2>2, MakeVersionEffect
    <3> QED
      BY <1>0, <1>1, <2>2, <3>1, MakeVersionEffect
  <2>3. CASE UNCHANGED version
    BY <1>0, <1>1, <2>3
  <2> QED
    BY <2>1, <2>2, <2>3, JobKinds DEF JobMoved
<1>2. ASSUME NEW S \in SUBSET Comments, NEW s \in Statuses, Relabelled(S, s)
      PROVE  Owned
  BY <1>0, <1>2 DEF Relabelled
<1>3. ASSUME NEW S \in SUBSET Comments, NEW s \in Statuses, NEW q \in Runs \cup {None},
             Restarted(S, s, q)
      PROVE  Owned
  BY <1>0, <1>3 DEF Restarted
<1>4. ASSUME NEW q \in Runs, NEW j \in Jobs, Commit(q, j) PROVE Owned
  BY <1>0, <1>4, CommitEffect
<1>5. ASSUME NEW j \in Jobs, Pin(j) PROVE Owned
  <2>1. version' = version
    BY <1>5 DEF Pin
  <2> QED
    BY <1>0, <1>5, <2>1, PinEffect
<1>6. ASSUME NEW u \in Versions, DeleteVersion(u) PROVE Owned
  BY <1>0, <1>6, DeleteVersionEffect
<1> QED
  BY <1>1, <1>2, <1>3, <1>4, <1>5, <1>6, TaskKinds

-----------------------------------------------------------------------------
LEMMA InvInit == Init => IInv
<1> SUFFICES ASSUME Init PROVE IInv
  OBVIOUS
<1>1. TypeOK
  BY TypeInit
<1>2. /\ \A c \in Comments : task[c] = NoTask
      /\ \A r \in Runs : run[r] = "none" /\ exec[r] = NoExecution
      /\ \A j \in Jobs : job[j] = NoJob
      /\ \A v \in Versions : ~version[v].alive
      /\ \A x \in Calls : call[x] = None
  BY DEF Init
<1>3. FreshRuns /\ KnownGroups /\ KnownPlans
  BY <1>2 DEF FreshRuns, KnownGroups, KnownPlans, NoTask, NoExecution
<1>4. TaskShape /\ SharedDraft /\ OwnPreview
  BY <1>2 DEF TaskShape, SharedDraft, OwnPreview, NoTask
<1>5. JobShape /\ VersionShape
  BY <1>2 DEF JobShape, VersionShape, NoJob
<1> QED
  BY <1>1, <1>3, <1>4, <1>5 DEF IInv

LEMMA InvStep == IInv /\ [Next]_vars => IInv'
  BY TypeStep, FreshStep, GroupsStep, ShapeStep, SharedStep, VersionsStep, JobsStep,
     PreviewStep DEF IInv

(* The invariant holds of every behaviour.                                  *)
LEMMA Invariant == Spec => []IInv
<1> QED
  BY InvInit, InvStep, PTL DEF Spec

(* The comments of a batch share one draft as long as they share its run:   *)
(* the route locks and re-checks the group it read, and the worker its plan.*)
THEOREM SharedDraftHolds == Spec => []SharedDraft
<1>1. IInv => SharedDraft
  BY DEF IInv
<1> QED
  BY <1>1, Invariant, PTL

(* A preview is an existing version of the task's own rough cut, however    *)
(* late a render pins and whichever drafts were left or versions deleted.   *)
THEOREM OwnPreviewHolds == Spec => []OwnPreview
<1>1. IInv => OwnPreview
  BY DEF IInv
<1> QED
  BY <1>1, Invariant, PTL

-----------------------------------------------------------------------------
(* Steps.                                                                   *)

\* What a route call does to a task that is not in its group: nothing.
LEMMA RouteOutside ==
  ASSUME IInv, NEW x \in Calls, RouteStep(x), NEW c \in Comments, task'[c] # task[c]
  PROVE  call[x] # None /\ Admitted(call[x]) /\ c \in Group(call[x])
<1>0. TypeOK /\ KnownGroups
  BY DEF IInv
<1>1. \/ Undo(x) \/ Accept(x) \/ Human(x) \/ Queue(x)
      \/ \E r \in Runs : Revise(x, r) \/ Run(x, r)
  BY DEF RouteStep, Refuse, Read
<1>2. call[x] # None /\ Admitted(call[x])
  BY <1>1 DEF Undo, Accept, Human, Queue, Run, Revise, CanStart
<1>3. call[x].comment \in Group(call[x])
  BY <1>0, <1>2, GroupFacts
<1>4. CASE Undo(x)
  BY <1>0, <1>2, <1>4 DEF Undo, Assign
<1>5. CASE Accept(x)
  BY <1>0, <1>2, <1>5 DEF Accept, Assign
<1>6. CASE Human(x)
  BY <1>0, <1>2, <1>6 DEF Human, Assign
<1>7. CASE Queue(x)
  BY <1>2, <1>3, <1>7 DEF Queue, Assign
<1>8. ASSUME NEW r \in Runs, Revise(x, r) PROVE c \in Group(call[x])
  BY <1>0, <1>2, <1>8 DEF Revise, Assign
<1>9. ASSUME NEW r \in Runs, Run(x, r) PROVE c \in Group(call[x])
  BY <1>2, <1>3, <1>9 DEF Run, Assign
<1> QED
  BY <1>1, <1>2, <1>4, <1>5, <1>6, <1>7, <1>8, <1>9

(* "A running task must finish before assignment can change", for every     *)
(* member of a batch and not only the comment a call names.                 *)
THEOREM BusyStaysHolds == Spec => BusyStays
<1>1. ASSUME IInv, [Next]_vars, NEW c \in Comments, Shown(c) \in Busy, comment'[c].alive
      PROVE  /\ task'[c].run = task[c].run
             /\ task'[c].status = task[c].status \/ task'[c].status = "RENDERING"
  <2> DEFINE Kept == /\ task'[c].run = task[c].run
                     /\ task'[c].status = task[c].status \/ task'[c].status = "RENDERING"
  <2>1. CASE UNCHANGED task
    BY <2>1
  <2>2. ASSUME NEW x \in Calls, RouteStep(x) PROVE Kept
    <3>1. CASE task'[c] # task[c]
      <4>1. call[x] # None /\ Admitted(call[x]) /\ c \in Group(call[x])
        BY <1>1, <2>2, <3>1, RouteOutside
      <4>2. Shown(c) = Shown(call[x].comment)
        BY <1>1, <4>1, GroupShown DEF IInv
      <4> QED
        BY <1>1, <4>1, <4>2 DEF Admitted
    <3> QED
      BY <3>1
  <2>3. ASSUME NEW r \in Runs, WorkerStep(r) \/ Stop(r) PROVE Kept
    <3>1. ASSUME NEW j \in Jobs, Commit(r, j) PROVE Kept
      <4>1. CASE task[c].run = r
        BY <1>1, <3>1, <4>1, CommitEffect
      <4>2. CASE task[c].run # r
        BY <1>1, <3>1, <4>2, CommitEffect
      <4> QED
        BY <4>1, <4>2
    <3> QED
      BY <2>1, <2>3, <3>1
      DEF WorkerStep, Claim, Plan, PlanForNobody, GiveUp, Return, Fail, Stop
  <2>4. ASSUME NEW j \in Jobs, RenderStep(j) \/ RestartRender(j) PROVE Kept
    BY <1>1, <2>1, <2>4, PinEffect
    DEF RenderStep, StartRender, FinishRender, FailRender, MakeVersion, RestartRender
  <2>5. CASE OtherStep
    <3>1. ASSUME NEW S \in SUBSET Comments, NEW r \in Runs, RunBatch(S, r) PROVE Kept
      <4>1. c \notin S
        BY <1>1, <3>1 DEF RunBatch, Shown, View, Busy
      <4> QED
        BY <3>1, <4>1 DEF RunBatch, Assign
    <3>2. ASSUME NEW d \in Comments, DeleteComment(d) PROVE Kept
      <4>1. d # c
        BY <1>1, <3>2 DEF DeleteComment, IInv, TypeOK
      <4> QED
        BY <1>1, <3>2, <4>1 DEF DeleteComment, IInv, TypeOK
    <3>3. ASSUME NEW v \in Versions, DeleteVersion(v) PROVE Kept
      BY <1>1, <3>3, DeleteVersionEffect
    <3> QED
      BY <2>1, <2>5, <3>1, <3>2, <3>3 DEF OtherStep, ResolveComment, EditComment, DeleteCut, Rerender
  <2> QED
    BY <1>1, <2>1, <2>2, <2>3, <2>4, <2>5 DEF Next, vars
<1>2. IInv /\ [Next]_vars =>
        [\A c \in Comments : Shown(c) \in Busy /\ comment'[c].alive =>
           /\ task'[c].run = task[c].run
           /\ task'[c].status = task[c].status \/ task'[c].status = "RENDERING"]_vars
  BY <1>1
<1> QED
  BY <1>2, Invariant, PTL DEF Spec, BusyStays

(* Only an accept call accepts, and it takes the whole run.                 *)
LEMMA AcceptStep ==
  ASSUME IInv, [Next]_vars, NEW c \in Comments,
         task[c].status # "ACCEPTED", task'[c].status = "ACCEPTED"
  PROVE  \E x \in Calls : Accept(x) /\ c \in Group(call[x])
<1>0. TypeOK /\ TaskShape /\ task \in [Comments -> Task]
  BY DEF IInv, TypeOK
<1>1. ASSUME NEW x \in Calls, RouteStep(x) PROVE Accept(x) /\ c \in Group(call[x])
  <2>1. c \in Group(call[x]) /\ Admitted(call[x]) /\ call[x] # None
    BY <1>1, RouteOutside
  <2>2. ~Undo(x)
    BY <1>0, <2>1 DEF Undo, Assign, Task
  <2>3. ~Human(x)
    BY <1>0, <2>1 DEF Human, Assign, Task
  <2>4. ~(Queue(x) \/ \E r \in Runs : Revise(x, r) \/ Run(x, r))
    BY RestartTasks DEF Restarted
  <2> QED
    BY <1>1, <2>1, <2>2, <2>3, <2>4 DEF RouteStep, Refuse, Read
<1>2. ASSUME NEW r \in Runs, WorkerStep(r) \/ Stop(r) PROVE FALSE
  <2>1. ~\E j \in Jobs : Commit(r, j)
    BY CommitEffect
  <2> QED
    BY <1>2, <2>1 DEF WorkerStep, Claim, Plan, PlanForNobody, GiveUp, Return, Fail, Stop
<1>3. ASSUME NEW j \in Jobs, RenderStep(j) \/ RestartRender(j) PROVE FALSE
  BY <1>3, PinEffect
  DEF RenderStep, StartRender, FinishRender, FailRender, MakeVersion, RestartRender
<1>4. CASE OtherStep
  BY <1>4, OtherTasks, DeleteVersionEffect DEF Restarted
<1>5. CASE UNCHANGED vars
  BY <1>5 DEF vars
<1> QED
  BY <1>1, <1>2, <1>3, <1>4, <1>5 DEF Next

(* An acceptance takes the whole batch: every member of the run is ready,   *)
(* its comment is as it was when the draft was asked for, and all of them   *)
(* share the preview that was reviewed.                                     *)
THEOREM AcceptedWholeHolds == Spec => AcceptedWhole
<1>1. ASSUME IInv, [Next]_vars, NEW c \in Comments,
             task[c].status # "ACCEPTED", task'[c].status = "ACCEPTED",
             NEW d \in Members(task[c].run)
      PROVE  /\ Shown(d) = "READY" /\ Unchanged(d) /\ task[d].version = task[c].version
             /\ task'[d].status = "ACCEPTED" /\ comment'[d].resolved
  <2>0. /\ TypeOK /\ KnownGroups /\ SharedDraft /\ TaskShape /\ task \in [Comments -> Task]
        /\ d \in Comments /\ task[d].run = task[c].run
    BY <1>1 DEF IInv, TypeOK, Members
  <2>1. PICK x \in Calls : Accept(x) /\ c \in Group(call[x])
    BY <1>1, AcceptStep
  <2>2. /\ call[x] # None /\ Admitted(call[x]) /\ Acceptable(call[x])
        /\ call[x].op = "accept" /\ Resolve(Group(call[x]), TRUE)
        /\ task' = [e \in Comments |-> IF e \in Group(call[x])
                                         THEN [task[e] EXCEPT !.status = "ACCEPTED"]
                                         ELSE task[e]]
    BY <2>1 DEF Accept, Assign
  <2>3. task[c].run # None
    BY <2>0, <2>1, <2>2 DEF Acceptable, TaskShape
  <2>4. Whole(Group(call[x]))
    BY <2>0, <2>2, WholeGroup
  <2>5. d \in Group(call[x])
    BY <2>0, <2>1, <2>3, <2>4 DEF Whole
  <2>6. Shown(d) = "READY" /\ Unchanged(d) /\ task[d].version = task[c].version
    BY <2>0, <2>1, <2>2, <2>5, GroupShown DEF Acceptable
  <2>7. task'[d].status = "ACCEPTED"
    BY <2>0, <2>2, <2>5 DEF Task
  <2>8. comment'[d].resolved
    BY <2>0, <2>2, <2>5 DEF Resolve, TypeOK
  <2> QED
    BY <2>6, <2>7, <2>8
<1>2. IInv /\ [Next]_vars =>
        [\A c \in Comments : task[c].status # "ACCEPTED" /\ task'[c].status = "ACCEPTED" =>
           \A d \in Members(task[c].run) :
             /\ Shown(d) = "READY" /\ Unchanged(d) /\ task[d].version = task[c].version
             /\ task'[d].status = "ACCEPTED" /\ comment'[d].resolved]_vars
  BY <1>1
<1> QED
  BY <1>2, Invariant, PTL DEF Spec, AcceptedWhole

(* Renders, re-renders and retries never replace a preview under its run.   *)
THEOREM PreviewKeptHolds == Spec => PreviewKept
<1>1. ASSUME IInv, [Next]_vars, NEW c \in Comments, task[c].version # None,
             version'[task[c].version].alive, task'[c].run = task[c].run
      PROVE  task'[c].version = task[c].version
  <2>0. TaskShape /\ FreshRuns /\ task[c].run # None
    BY <1>1 DEF IInv, TaskShape
  <2>1. CASE UNCHANGED task
    BY <2>1
  <2>2. ASSUME NEW S \in SUBSET Comments, NEW s \in Statuses, Relabelled(S, s)
        PROVE  task'[c].version = task[c].version
    BY <2>2 DEF Relabelled
  <2>3. ASSUME NEW S \in SUBSET Comments, NEW s \in Statuses, NEW q \in Runs \cup {None},
               Restarted(S, s, q)
        PROVE  task'[c].version = task[c].version
    <3>1. q # task[c].run
      BY <2>0, <2>3 DEF Restarted, FreshRuns
    <3> QED
      BY <1>1, <2>3, <3>1 DEF Restarted
  <2>4. ASSUME NEW q \in Runs, NEW j \in Jobs, Commit(q, j)
        PROVE  task'[c].version = task[c].version
    BY <1>1, <2>4, CommitEffect
  <2>5. ASSUME NEW j \in Jobs, Pin(j) PROVE task'[c].version = task[c].version
    BY <1>1, <2>5, PinEffect
  <2>6. ASSUME NEW v \in Versions, DeleteVersion(v) PROVE task'[c].version = task[c].version
    BY <1>1, <2>6, DeleteVersionEffect
  <2> QED
    BY <1>1, <2>1, <2>2, <2>3, <2>4, <2>5, <2>6, TaskKinds
<1>2. IInv /\ [Next]_vars =>
        [\A c \in Comments :
           /\ task[c].version # None /\ version'[task[c].version].alive
           /\ task'[c].run = task[c].run
           => task'[c].version = task[c].version]_vars
  BY <1>1
<1> QED
  BY <1>2, Invariant, PTL DEF Spec, PreviewKept

LEMMA ArchiveEffect ==
  ASSUME IInv, NEW S, Archive(S), NEW c \in Comments
  PROVE  /\ \A r \in Runs : archive[c][r] # "none" => archive'[c][r] # "none"
         /\ c \in S /\ Shown(c) \in Reviewable => archive'[c][task[c].run] = Shown(c)
<1>0. archive \in [Comments -> [Runs -> {"none", "READY", "ACCEPTED", "FAILED"}]]
      /\ task[c] \in Task
  BY DEF IInv, TypeOK
<1>1. task[c].run \in Runs \cup {None} /\ task[c].status \in Statuses
  BY <1>0, TaskFields
<1>2. Shown(c) \in Reviewable => task[c].status \in {"RENDERING", "ACCEPTED"}
  BY <1>1 DEF Shown, View, Reviewable, Statuses
<1>3. Shown(c) \in Reviewable => task[c].run # None
  BY <1>2 DEF IInv, TaskShape
<1>4. archive'[c] = IF c \in S /\ task[c].run # None /\ Shown(c) \in Reviewable \cup {"FAILED"}
                      THEN [archive[c] EXCEPT ![task[c].run] = Shown(c)] ELSE archive[c]
  BY DEF Archive
<1> HIDE DEF Shown
<1> QED
  BY <1>0, <1>1, <1>3, <1>4 DEF Reviewable

(* The history keeps every draft that could be reviewed.                    *)
THEOREM DraftsKeptHolds == Spec => DraftsKept
<1> DEFINE Kept(c) ==
      /\ Shown(c) \in Reviewable /\ (task'[c].run # task[c].run \/ task'[c].status = "HUMAN")
           => archive'[c][task[c].run] = Shown(c)
      /\ \A r \in Runs : archive[c][r] # "none" => archive'[c][r] # "none"
<1>1. ASSUME IInv, [Next]_vars, NEW c \in Comments, comment'[c].alive PROVE Kept(c)
  <2>0. task \in [Comments -> Task] /\ task[c].status \in Statuses
    BY <1>1, TaskFields DEF IInv, TypeOK
  <2>1. Shown(c) \in Reviewable => task[c].status \in {"RENDERING", "ACCEPTED"}
    BY <2>0 DEF Shown, View, Reviewable, Statuses
  <2>2. ASSUME task'[c].run = task[c].run,
               task'[c].status \in {task[c].status, "RENDERING", "ACCEPTED"},
               UNCHANGED archive
        PROVE  Kept(c)
    BY <2>1, <2>2
  <2>3. ASSUME NEW x \in Calls, RouteStep(x) PROVE Kept(c)
    <3>1. CASE Refuse(x) \/ \E d \in Comments, op \in Actions : Read(x, d, op)
      BY <2>2, <3>1 DEF Refuse, Read
    <3>2. CASE Undo(x)
      BY <2>0, <2>2, <3>2 DEF Undo, Assign, Task
    <3>3. CASE Accept(x)
      BY <2>0, <2>2, <3>3 DEF Accept, Assign, Task
    <3>4. ASSUME NEW S, Archive(S), c \in S \/ task'[c] = task[c] PROVE Kept(c)
      <4>1. \A r \in Runs : archive[c][r] # "none" => archive'[c][r] # "none"
        BY <1>1, <3>4, ArchiveEffect
      <4>2. c \in S /\ Shown(c) \in Reviewable => archive'[c][task[c].run] = Shown(c)
        BY <1>1, <3>4, ArchiveEffect
      <4> QED
        BY <2>1, <3>4, <4>1, <4>2
    <3>5. CASE Human(x)
      <4>1. Archive(Group(call[x])) /\ (c \in Group(call[x]) \/ task'[c] = task[c])
        BY <3>5 DEF Human, Assign
      <4> QED
        BY <3>4, <4>1
    <3>6. CASE Queue(x)
      <4>1. Archive({call[x].comment}) /\ (c \in {call[x].comment} \/ task'[c] = task[c])
        BY <3>6 DEF Queue, Assign
      <4> QED
        BY <3>4, <4>1
    <3>7. ASSUME NEW r \in Runs, Run(x, r) PROVE Kept(c)
      <4>1. Archive({call[x].comment}) /\ (c \in {call[x].comment} \/ task'[c] = task[c])
        BY <3>7 DEF Run, Assign
      <4> QED
        BY <3>4, <4>1
    <3>8. ASSUME NEW r \in Runs, Revise(x, r) PROVE Kept(c)
      <4>1. Archive(Group(call[x])) /\ (c \in Group(call[x]) \/ task'[c] = task[c])
        BY <3>8 DEF Revise, Assign
      <4> QED
        BY <3>4, <4>1
    <3> QED
      BY <2>3, <3>1, <3>2, <3>3, <3>5, <3>6, <3>7, <3>8 DEF RouteStep
  <2>4. ASSUME NEW r \in Runs, WorkerStep(r) \/ Stop(r) PROVE Kept(c)
    <3>1. ASSUME NEW j \in Jobs, Commit(r, j) PROVE Kept(c)
      <4>1. /\ task'[c].run = task[c].run
            /\ task'[c].status \in {task[c].status, "RENDERING"}
        <5>1. CASE task[c].run = r
          BY <1>1, <3>1, <5>1, CommitEffect
        <5>2. CASE task[c].run # r
          BY <1>1, <3>1, <5>2, CommitEffect
        <5> QED
          BY <5>1, <5>2
      <4> QED
        BY <2>2, <3>1, <4>1 DEF Commit
    <3> QED
      BY <2>2, <2>4, <3>1
      DEF WorkerStep, Claim, Plan, PlanForNobody, GiveUp, Return, Fail, Stop
  <2>5. ASSUME NEW j \in Jobs, RenderStep(j) \/ RestartRender(j) PROVE Kept(c)
    <3>1. CASE Pin(j)
      BY <1>1, <2>2, <3>1, PinEffect DEF Pin
    <3> QED
      BY <2>2, <2>5, <3>1
      DEF RenderStep, StartRender, FinishRender, FailRender, MakeVersion, RestartRender
  <2>6. CASE OtherStep
    <3>1. ASSUME NEW S \in SUBSET Comments, NEW r \in Runs, RunBatch(S, r) PROVE Kept(c)
      <4>1. c \in S => task[c].status = "QUEUED"
        BY <3>1 DEF RunBatch
      <4>2. c \notin S => task'[c] = task[c]
        BY <3>1 DEF RunBatch, Assign
      <4> QED
        BY <2>1, <3>1, <4>1, <4>2 DEF RunBatch
    <3>2. ASSUME NEW d \in Comments, DeleteComment(d) PROVE Kept(c)
      <4>1. d # c
        BY <1>1, <3>2 DEF DeleteComment, IInv, TypeOK
      <4>2. task'[c] = task[c] /\ archive'[c] = archive[c]
        BY <1>1, <3>2, <4>1 DEF DeleteComment, IInv, TypeOK
      <4> QED
        BY <2>1, <4>2
    <3>3. ASSUME NEW v \in Versions, DeleteVersion(v) PROVE Kept(c)
      BY <1>1, <2>2, <3>3, DeleteVersionEffect DEF DeleteVersion
    <3> QED
      BY <2>2, <2>6, <3>1, <3>2, <3>3 DEF OtherStep, ResolveComment, EditComment, DeleteCut, Rerender
  <2>7. CASE UNCHANGED vars
    BY <2>2, <2>7 DEF vars
  <2> QED
    BY <1>1, <2>3, <2>4, <2>5, <2>6, <2>7 DEF Next
<1>2. IInv /\ [Next]_vars => [\A c \in Comments : comment'[c].alive => Kept(c)]_vars
  BY <1>1
<1>3. Spec => [][\A c \in Comments : comment'[c].alive => Kept(c)]_vars
  BY <1>2, Invariant, PTL DEF Spec
<1> QED
  BY <1>3 DEF DraftsKept

=============================================================================

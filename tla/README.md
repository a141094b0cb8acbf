# Maas-Frame in TLA+

Specifications, model-checking runs and machine-checked proofs for the parts of
Maas-Frame (an OpenFrame deployment: video review, approval and AI editing) where
correctness depends on the order in which several processes act on shared rows.

Maas-Frame is a Next.js application and two workers around one PostgreSQL database:

- the **app** serves the API routes; each request runs concurrently with every other one,
  usually as a few separate statements and one transaction, at READ COMMITTED unless a
  route asks for SERIALIZABLE;
- the **media worker** (`worker/src/index.ts`, any number of processes) takes rows of
  `media_jobs`, hands them to pg-boss queues and runs them;
- the **agent worker** (`scripts/agent-worker.ts`) takes rows of `agent_runs`, calls a
  language model and writes what comes of it.

They share nothing but rows. Whatever must not happen twice, get lost or be mixed up is
kept by row locks, advisory locks, serializable transactions, conditional updates and the
order of statements, and that is what the modules are about.

## Reading order

| Module | What it is |
| --- | --- |
| `MediaJobs` | the job pipeline: rows, publish loop, pg-boss, runs |
| `ApprovalLedger`, `Approvals` | what an approval request promises, and the routes with their transactions |
| `CommentEdit` | AI edits of comments: route, agent worker, render job, other routes |
| `Transcription`, `RoughCuts` | transcripts of a folder's cameras, and the cuts assembled on them |
| `EditLists` | what assembly, review, render and comments make of footage |
| `Uploads`, `Billing`, `Invitations` | an account: its storage, its subscription, its members |
| `AgentRuns`, `ShortForm` | the queue of agent runs, and batches of short clips |
| `CutReview`, `CommentFeed` | two hooks of the browser, with the rows behind them |
| `MediaJobs_proofs`, `Approvals_proofs`, `CommentEdit_proofs`, `RoughCuts_proofs`, `EditLists_proofs` | proofs about one component each |
| `Accounts_proofs` | proofs about uploads, the subscription and the invitations |
| `Services_proofs` | proofs about the agent runs, the short forms and the two hooks, and about all parts side by side |
| `DataLemmas` | numbers, finite sets, sums over them, folds and filters of sequences |
| `MCMediaJobs`, `MCApprovals`, `MCCommentEdit`, `MCRoughCuts`, `MCEditLists` | instances for TLC |
| `MCServices`, `MCProgress` | instances that hold several components, one per behaviour |

To check a run: `tlc -workers 2 -config Services.cfg MCServices`. To check the proofs of a
module: `tlapm RoughCuts_proofs.tla`. `PROJECT.json` lists the runs, the theorems, the lines
every definition stands for (`map`), and, for each property, a mutation of a modelled
definition that breaks it (`mutants`: the mutated form stands just above the definition in
its module).

## Inventory

**Media job queue** (`lib/media-job-queue.ts`, `lib/media-jobs.ts`, `worker/src/index.ts`).
State: `media_jobs`, pg-boss's own records, and in each worker the batch it has claimed.
Every two seconds a worker claims the oldest due PENDING rows under row locks, commits them
as QUEUED, and only then sends them one by one. Hard: the hand-over is not atomic with the
claim, delivery is at least once, and the status writes of a run look at nothing. Right
when: one claim per row, none before its time, no started row taken back, nothing stranded
but by a fault of its own, and known kinds progress behind unknown ones. *Modelled.*

**Approvals** (`app/api/approvals`, `app/api/versions/[versionId]/approvals`). State: a
request and one decision row per approver. Unanimity approves, one rejection rejects, the
requester or an editor cancels, each in a SERIALIZABLE transaction that checks again; the
notice follows the commit. Hard: the status is a stored function of rows that several
people write at once. Right when the status always is that function, a version has one
pending request, and the requester hears of one outcome. *Modelled.*

**AI comment editing** (`lib/comment-edit`). State: one task per comment, the archive of
earlier drafts, and what a user sees, which is computed from task, run and render job.
Comments can be planned as a batch that shares one draft. Hard: the route reads before it
locks, the worker reads, thinks for minutes and writes, a render pins its output whenever
it is done, and comments, versions and rough cuts are deleted meanwhile. Right when a batch
stays one draft, a running task is left alone, an acceptance is of what was reviewed, a
preview is the task's own and stays, the history is complete, and a running task comes to a
result. *Modelled.*

**Rough cuts** (`lib/rough-cut`). State: `rough_cuts` with its decision list, overrides and
what the last file was made by. A cut waits for transcripts by ending its job and parking a
copy of it with `run_after`. Hard: whether to wait, to transcribe or to go on is decided on
rows that other runs, uploads and workers change; the run ends as a success while the cut
goes on; a cut must not wait for ever. Right when a running cut has a job, one
transcription is queued per clip, and a cut that was begun ends, each unless the last
delivery ended with nothing written. *Assembly modelled, the
render in part (ffmpeg, captions and markers are not).*

**Timecode, ranges and edit plans** (`lib/rough-cut/{decisions,program,overrides,effects}.ts`,
`lib/comment-edit/plan.ts`). Pure functions on lists of edits and cut islands, composed over
a cut's life: assembled, reviewed, rendered, and edited again by comments on the rendered
file. Hard: islands nest, overlap what was kept, and carry keys; footage must neither come
twice nor vanish. *In part: whole frames, the linear layout.*

**Transcripts** (`lib/transcription`, `worker/src/index.ts`). Written by the worker one
statement at a time, by uploads in one transaction, and by an inline runner. *In part.*

**Storage quota and uploads** (`lib/storage-quota.ts`, `lib/r2-*`). Reservations under a lock
per account, upload sessions, storage itself. Hard: the check, the hold, the object, the
session and the version are written apart, and finalizing races with cleaning up.
*Modelled for direct video uploads.*

**Billing** (`lib/billing.ts`, the Stripe webhook and checkout). Hard: every webhook lists,
reads and writes with nothing held between; a trial must survive all of it. *Modelled.*

**Invitations** (`lib/invitations.ts`, members routes). Hard: sending is serializable,
accepting is not, cancelling is a read and a write. *Modelled.*

**Agent runs** (`lib/agents`, `scripts/agent-worker.ts`). Hard: claims side by side, workers
that stop with runs in hand. *Modelled; what a run does is in `CommentEdit` and `ShortForm`.*

**Short form** (`lib/short-form`). Hard: an active batch keeps all others of its version
out; analysis, ranking, approval and renders are four jobs on the same rows. *Modelled.*

**Review of a cut, comments of a page** (`use-rough-cut-review.ts`, `use-video-page-data.ts`,
`use-comment-actions.ts`). Two hooks with state of their own: replies come late, for a video
that is no longer open, or are left out because an ETag says nothing has changed. *Modelled,
the comments in part.*

**Advisory locks, videos and versions, notifications, email verification.** *In part*, where
the components above take, delete, send or start them.

**Share links, project access, rate limits, analytics, folders, tags, projects, workspaces,
user interface, editor plugins.** *Not modelled:* see the end.

`PROJECT.json` holds the full list under `components` and, under `hazards`, what is hard to
test at its line, with the properties that watch over it or the reason why none does.

## Runs

| Run | What it asks | States, time |
| --- | --- | --- |
| `media_jobs_publish` | are claims exclusive, timely, and never undone, and rows never stranded? | 2.6 million, 1 min |
| `approvals` | is the status what the votes say, and every commit a step of the ledger? | 1.2 million, 1 min |
| `comment_edit` | does a batch stay together and a preview stay its own? | 2.9 million, 3.5 min |
| `rough_cuts` | does a running cut have a job, and end, unless it was stranded? | safety and liveness, 960,000, 4 min |
| `services` | eight components, see below | 1.0 million, 3.5 min |
| `progress` | do known jobs settle, and planning and rendering end? | liveness, 1.5 min |
| `media_jobs_backlog` | the same with as many unknown jobs as a claim takes; **violated** | seconds |
| `comment_edit_deleted` | the same when a comment of the batch may be deleted; **violated** | seconds |
| `comment_edit_repinned` | does an accepted preview stay what was accepted? **violated** | seconds |
| `billing_two_webhooks` | does the subscription decide with two deliveries at once? **violated** | seconds |
| `comment_feed_hidden` | does a poll bring the comments there are? **violated** | seconds |
| `edit_lists_twice_cut` | does the cut list name what is missing? **violated** | seconds |

*Scenes.* `MCServices`, `MCProgress` and `MCCommentEdit` choose a scene in the initial state.
Components that share no row are put side by side in one module, each moving in behaviours of
its own, so that their states add up and do not multiply; the invariants are stated on all of
them at once. `MCCommentEdit` does the same with two bounds of one component: a batch with one
render, and many renders of one comment's drafts.

*Symmetry* is used in the safety runs only, on ids that no action compares or orders: calls,
runs, jobs and versions of `CommentEdit`, calls of `Approvals`, analyses, rankings and renders
of `ShortForm`.

*Deadlock* is checked in `approvals`. In the other runs the system really rests once the
bounded ids are used up and everything is settled.

## The media job pipeline

`status` and `due` are the rows, `picked` what a worker's open claim transaction has
locked, `batch` what it has claimed and not handed over, `releasing` that its last send
failed, `msg` pg-boss's records, `runs` the live `runMediaJob` calls and how far each has come. `faulted`
is a history variable: the rows whose bookkeeping a fault cut short. Jobs are numbered by
`created_at`.

One action per observable step: the SELECT (`SelectDue`) and the commit (`CommitClaim`)
of a claim; a send that works, fails, or works without the worker hearing of it; the release and its failure;
delivery, expiry and the outcome pg-boss learns; the three status writes of a run, each of
which can fail; the inline runner's single UPDATE; a crash. `Writable` is the row lock:
whoever updates a row locked by an open claim waits.

pg-boss is external, and modelled as what the worker relies on: a stored message is
delivered, one at a time per queue and worker, until its handler returns or its retries are
used up; an expired delivery is given again while its old run may still be going. What a
job handler does is abstracted to returning or throwing, so the model holds for every kind.

The run `media_jobs_publish` has two jobs and two workers of which one does not know job 1,
two messages with one retry, and every fault: crashes, failing sends and writes, expired
deliveries, and inline settlement of job 2; job 1 is not due while a delivery is open that
nobody waits for, so that its redeliveries and second publications do not multiply. The scene "queue" of `progress` has three jobs (an
unknown one, a probe, an assembly), two workers, a claim of two and no faults;
`media_jobs_backlog` has two unknown jobs, one worker and the same claim.

Two jobs and two workers suffice for a claim to collide, for a batch to be abandoned after its
first row, and for a queue to hold a second delivery back; two messages for one job are
the duplicate that a lost answer produces; one retry is the smallest budget in which a
redelivery meets a run that is still alive.

*Fairness* (`FairSpec`): the publish loop ticks whatever the last tick did (`start`,
lines 954-961), pg-boss polls, time passes, and a handler ends. It is weak fairness of each
worker's whole loop, of the delivery and the end of each message, and of nothing that a
fault or a user does. Without faults there is no crash to be fair about.

*Finding.* INTERNAL.md says that behind a worker that is out of date "everything queued behind it keeps
moving". That holds as long as fewer unknown jobs wait than one claim takes (20). From then on
each tick claims and releases the same oldest rows and nothing behind them moves.

*Proved* (`MediaJobs_proofs`, for all sets of jobs, workers and messages, any limits and
any faults): `TypeOK`; `ClaimedOnce` and `BatchNotClaimable`; `StartedNotRequeued`;
`NoSilentLoss`; `ParkedNotPublished`. None but the type is inductive alone. The claim
argument needs that the rows of an open claim are PENDING, due and in no batch, and that a
batch row is never PENDING; a release is harmless because it is guarded by QUEUED; a
row's `due` never falls back; a live run's message is the one whose record names its row.

## Approvals

`ApprovalLedger` is the promise: a request is its votes and whether it was withdrawn, its
outcome is a function of them, and asking, voting and withdrawing are atomic. `Approvals`
is the code: `call` is a request handler in flight (checked, in its transaction, about to
notify), `seen` its transaction's snapshot, `db` the tables with the stored status.

`Certified` models SERIALIZABLE for these transactions. Each of them reads the whole request
(the create route: the requests of its version) and writes a row of it, so of two that overlap the
database lets the first one commit and gives the other P2034, which `Abort` also stands
for. A cancel reads the decision rows through the `include` of its update, which is what
makes the claim true of a vote and a cancel. That certification is an assumption about PostgreSQL, not
something proved here; its mutant (the isolation level dropped) breaks
`StatusIsOutcome` and `OneOutcomeNotice`.

The run `approvals` has one version, two requests in its life, an editor and two approvers one of
whom is an editor too, and two calls in flight: enough for two last votes, a vote and a
cancel, or two questions to overlap, and for a version to be asked about again. It checks
the invariants and the refinement (`ImplementsLedger`, with the stored votes mapped to the
ledger's and CANCELED to withdrawn).

*Proved* (`Approvals_proofs`): all five, for any number of users, versions, requests
and calls. The strengthening relates each snapshot to the tables: a request that was
there when a snapshot was taken has kept its version and approvers, a closed request stays
as it is, and a call about to notify holds the request's stored outcome.
`ImplementsLedger` is then a step simulation: the three commits map to `Ask`, `Vote` and
`Withdraw`, everything else stutters.

## AI comment editing

Variables are the tables (`comment`, `task`, `archive`, `run`, `job`, `version`) and what is
in flight (`call`: what a route call read before its locks; `exec`: where the worker's
execution of a run is and which tasks it read). `View` is `serializeCommentEdit`, and
`Shown` is what every guard that consults it sees.

A route call is two steps: `Read`, before the locks, and one of the actions, under them.
What runs under a comment's advisory lock is one step, because every writer of an
assignment takes that lock; the statements of `actOnCommentEdit` before the locks, edits
and deletions of comments, the pin of a render and deletions of versions and cuts take none, so they
come in between. The worker's execution is three: `Plan` (read), the model call, and
`Commit`, `GiveUp` or `Fail`. A render is `StartRender`, `MakeVersion`, `Pin`,
`FinishRender` or `FailRender` at any point, with redelivery from the start.

Abstractions. A run, job or version is created once (`"none"` until then), so the sets bound how
many a behaviour makes. `task.job` stands for `renderJobId` and `roughCutId`, which are
written together; they differ only after the cut is deleted, which `job.kept` records.
`expectedRunId`, presets, ranges and sources only refuse (`Refuse` may always happen) or fail a plan (`Fail` may always happen). A
task's stored status is never FAILED and a run's never CANCELED: nothing writes them. Not
modelled: cascades from deleting the reviewed video itself, and videos moved to another project.

The scene "batch" of `comment_edit` has two comments, one of which others edit and resolve and
one of which they delete, two runs, one render and two calls with any action; two calls are in
flight together only before anything was rendered, and of an edited comment, a deleted
comment and a deleted version one comes in a behaviour, a deletion while there is one run. The scene "renders" has one comment with
a task, two runs, two render jobs and two versions, deletions of cuts, and of versions before the second render, and workers that
are stopped at work. Two comments are the smallest batch; with two runs a draft can be
replaced while the first one's execution or render is at work; two jobs and versions are a
re-render beside a retry. The scene "editing" of `progress` has two comments, two runs and one
render whose cut may be deleted. `comment_edit_deleted` lets one comment be deleted,
`comment_edit_repinned` has one comment, one run and two renders.

*Fairness*: both workers go on with what they have taken, and the routes owe nothing. The
documentation concedes that a stopped worker leaves work waiting, so the liveness run has
no stops (`MayStop = FALSE`), and the scene of the renders has them.

*Findings.* (1) A comment of a batch deleted during the model call: the commit counts one task
too few and returns silently, the run stays RUNNING, the other comment shows PLANNING for
ever and every action on it answers that it is still running. (2) The pin of a render
fills any NULL output of its cut, also an accepted task's whose version was deleted, with a version nobody reviewed.

*Proved* (`CommentEdit_proofs`, for any number of comments, calls, runs, renders and
versions): `TypeOK`, `SharedDraft`, `OwnPreview`, `BusyStays`, `AcceptedWhole`, `DraftsKept`
and `PreviewKept`. The inductive invariant `IInv` adds to the type: a run that does not exist yet is nobody's
(`FreshRuns`); the tasks an execution or a call remembers were the members of
its run (`KnownPlans`, `KnownGroups`); what a task in each status may hold (`TaskShape`), and
what a render at each point has made (`JobShape`, `VersionShape`). `SharedDraft` needs `KnownGroups`:
an action on a group is an action on all members of the run, unless the run has changed
and the call is refused. `OwnPreview` needs `JobShape`: what a render pins was made from
its own cut and is alive. The proof sorts the two dozen actions into the few ways they
write tasks (relabel, restart, commit, pin, delete a version) and proves each way once.

## Transcripts and rough cuts

`Transcription` has the rows of `transcripts` with the number of their segments, the worker's
TRANSCRIBE job statement by statement (`BeginHearing`, `StoreHeard`, `ClearSegments`,
`InsertSegment`, `FinishHearing`, each of which can be the last), and uploads. `RoughCuts`
extends it by the request of a cut (admission, a transcription for each camera that has none,
the cut's row, its job: four writes, abandoned at any of them), the assembly and the render.

An assembly reads all transcript rows once (`LoadRows`), decides for each transcript its
layout reads (`Decide` is `decideTranscriptSource`: use, wait, transcribe, go on without),
enqueues a missing one in a transaction of three steps (`UpsertMissing`, `SelectActive`,
`CommitMissing`, with the upserted row locked in between), and then either parks a copy of
itself or reads the segments, builds and stores the list, and queues the render.

Every step can throw, and a worker can die at any of them, on any delivery. Not all throws
reach the catch that writes FAILED, and the catch can throw:
- `FailAssembly`: the run throws inside its try. Its catch writes FAILED to the cut, or
  that UPDATE (`assemble-job.ts:1350`) throws too and the cut stays as it was. Then
  `runMediaJob` marks the job FAILED, or cannot do that either (`Fails`).
- `FailToBegin`: `markJob` RUNNING (`worker/src/index.ts:725`) or the first UPDATE of the cut
  (`assemble-job.ts:924`) throws; both stand before a try. The delivery is used.
- `FailToReport`: `markJob` SUCCEEDED (830) throws, and a run that did its work comes again.
- `LoseAssembly`: the worker dies.

Each uses up a delivery. After the last one pg-boss gives the job up, and a cut whose state
was not written stays RUNNING for ever: the repository has no sweep for it, and the folder
takes no other request until it is deleted. The model marks it `stranded` (`LeaveCut`), at that step
and no other: no delivery left, nothing written, and the run neither saved its cut nor parked
a copy of itself. The comment before the try (`assemble-job.ts:929-931`) says that a failure
"lands on the row as FAILED rather than leaving it RUNNING with only the media job marked
failed"; that is so of a failure inside the try whose catch can write, and `RunningCutHasJob`
and `CutSettles` say it of every cut that is not stranded. A cut that is still PENDING when
every delivery fails to begin is stuck in the same way; no property is about it.

The instance `rough_cuts` has two cuts of one folder, two cameras, two transcript rows, two
hearings, two deliveries per job, three assemblies alive at once (two at work and a parked
one) and one render. What disturbs a behaviour is one of the eight sets of `Together`: a
second cut, a lost assembly, a lost hearing with failures, writes that fail inside and outside the
try (`outage`), an abandoned request with failures or with the transcription route, failures with
uploads, deletion with failures and a review. All of them at once is out of reach. A run comes
again after a death, or after a report that failed, only while one of the three places is free
(`PlaceLeft`), because it may park another copy.

*Fairness* (`FairSpec`): a cut grows old, and the worker goes on with each assembly. Nothing is
asked of transcriptions, uploads or the render: that is what `CutSettles` is about, a cut ends
even when its transcript never comes, or it is stranded.

*Proved* (`RoughCuts_proofs`, for any number of versions, rows, cuts and jobs and any layout):
the types, `RunningCutHasJob` and `OneTranscriptionQueued`. `CarriedHasRun` strengthens the
first: it names, for every step of an assembly, whether the copy it parks or the delivery that
is left is the one that comes back, or whether the step strands the cut. `Transactions` strengthens the second: two transactions
that have upserted a row of one version do not overlap, because the second waits for the first one's
commit, so a look that found nothing is still true when its run commits.

## Edit lists

`EditLists` follows the lists of one cut through its life. `Assembled` is the linear assembly of
what was heard; `Overrides` are the reviews that `validateOverridesForDecisions` lets pass;
`Effective` is the program and the cut list a render makes of both; `Drafted` is what the plans
of one comment or of a batch make of a rendered file, or `NoFile` when they are refused. The actions
are assembly's second delivery, a save of the review, a render that reads, works and
stores in one UPDATE or fails, and the draft, whose file can be reviewed, rendered and
edited again.

`FilesShowDecisions` compares all of it with a definition by frames, which knows neither edits
nor offsets: a file that `needsRender` calls up to date shows each frame of what was kept and
restored once and in the order of the clips, without what was cut, its overlays on
the footage they were laid on; its cut list names what is missing; and whatever comments ask of it, the draft
lacks what they cut, has what they keep or decorate, and lists what is gone. TLC checks the
last part for every set of comments of one or two operations, and every pair of comments
of one, on every file it reaches.

The instance (scene "edits" of `services`) has clips of three and two frames, shots of at least two, one
extra cut per save, four choices of what is heard (speech past the end of its clip, takes that are too
short, islands one in the other, nothing long enough) and one draft. One delivery renders at a
time: what a file holds depends only on what its own delivery has read. Of a draft, what is
saved is rendered next, and it has at most two islands and one overlay.

*Finding.* A comment's cut is keyed by its time on the reviewed timeline. A draft of a draft that
cuts at the same times has two islands with one key; restoring it puts one back and drops both
from the cut list. `MissingIsListed` is the conjunct of `FilesShowDecisions` that fails once
`MaxDrafts` is 2.

Not in the model: seconds and their rounding to frames, markers, the multicam layout with its
camera grammar, and the fields of graphics (an overlay is B-roll).

*Proved* (`EditLists_proofs`, for any clips, speech, reviews and plans): the types; and, for
`MaxDrafts <= 1`, all of `FilesShowDecisions`. The bound is the code's, not the proof's: with a second
draft `edit_lists_twice_cut` refutes the statement, and only its `MissingIsListed`.
`DraftsFollowCommentsHolds` states its last part, what drafts make of a file (`Revised`), for any number of
drafts. Both ask for `CutsInClips`: what assembly removes lies in its clip. `wordsFromSegments`
(`beats.ts:63`) sees to that when the clip's duration is on record; a clip without one is clamped to
nothing, and of it only `FilesShowFootageHolds` is proved: which frames an up-to-date file shows.
The instances satisfy the condition (`MCEditLists` has TLC evaluate it).

The argument has two invariants. `EditListsInv` says that the edits of every list, stored, read or
shown, follow each other without a gap (`Contiguous`: a comment's cut is a time on the timeline, and only
then is it one stretch of footage), that a list without a draft holds cuts that are keyed by their
footage (`PlainCuts`), and that up to the first draft islands of one key are one stretch (`Keyed`). `SoundInv`
adds that the frames of every list stand in the order of the clips, each of them once; that edits and
islands lie within their clips (the sort by `OffsetOf` puts clips in order only then); and that overlays lie on the
timeline. Assembly establishes it, a review (`EffectiveSound`) and a draft (`DraftRevised`) preserve it.

Each function has a lemma that says what it does to footage and to order. `Minus` takes out what lies
in a range and `PutBack` adds it, and the parts they leave are apart (`Apart`) and traced to where the old
timeline showed them (`Traced`); the sort by offsets puts parts that are apart in the order of their
frames (`SortedSooner`); `Packed` and `Joined` leave the frames as they are; `Mapping` and `Remapped` carry an
overlay along with the footage under it (`RemapCover`); `Gaps` are the complement of ranges in order; and
frames in order are known by their set (`OrderedSame`), which makes equal sets of frames equal
programs. `HeardAssumption` says that what was heard is a finite set of stretches that end no earlier than they
begin, from zero on: the transcript's segments. The functions are folds and concatenations; `Where`,
`Place` and `Sorted` stand for `filter` and the stable `sort` by definitions that a proof can unfold.

## Services

Each module names its variables after the columns, requests and jobs it stands for; the bounds are
those of `Services.cfg` and the `...Bound` operators of `MCServices`.

**`Uploads`.** The unlocked check (`EnforceQuota`), the reservation under the account's lock,
the session, the object in storage, `r2-complete`, the cleanup route (a read, a conditional UPDATE, the
deletion, the release) and the requests that make a version of the upload. Two uploads, one in
parts and one of them no video, two requests that finalize. `UploadBecomesOneVersion`: one
version or one hold whatever runs at once, and a version keeps its object. `OnlyLateUploadsOverfill`:
the limit is passed only by an upload whose hold had lapsed. Both *proved*, for any number of uploads and
requests: the first with `Deleting` (who deletes an object has closed its session first), the
second with sums over the set of uploads, each step of which changes one summand.

**`Billing`.** The trial, checkout, Stripe's subscriptions changing on their own, and webhooks
that list, read and write. Two subscriptions of one customer, one delivery at a time, one
checkout, two days. `TrialOnceAndKept`, `EndedMeansNoAccess` (the date that the storage cleanup counts
from is only ever on an account without access), `SubscriptionDecides`. All *proved*: the first two for any number of
webhooks, with `ReadStillHolds` (what a webhook has read of the trial
is still in the row unless it has run out), the third for one delivery at a time (`OneDelivery`) and one customer, any number of subscriptions and
checkouts: while events are outstanding nothing is claimed, and the last delivery has listed what is there. *Finding* (`billing_two_webhooks`): with two deliveries at
once `SubscriptionDecides` fails, since the list, the read and the write are not held together.

**`Invitations`.** Sending (a SERIALIZABLE transaction with its retries; as in `Approvals` the
certification is assumed of PostgreSQL), accepting by link, lapsing, cancelling, changes
of the member. Two rows, two senders, one link and one cancel in progress, two of the requests at a time.
`OneLiveInvitation` and `LinksOnlyPromote`, both *proved*: a transaction that has not been refused has
seen every live invitation there is (`SawAllLive`).

**`AgentRuns`.** Requests that look for an active run and create one, claims with row locks,
execution, findings, failures, and workers that stop with runs in hand. Three runs, two
requests, two workers that take two. `OneWorkerPerRun`, *proved*: locks do not overlap, and
what is in a worker's hands is RUNNING and nobody else's. That two requests can create two runs, and
that what a stopped worker held stays RUNNING, is part of the model and promised by no one.

**`CutReview`.** The hook with its refs, the loads, the save and the render under way, and the
rows behind it. Two videos, one decision each, two loads, two switches. `OwnDecisions`: no reply
that is late puts the decisions of one video on another; `UnsavedOutlivesReload`: no load takes unsaved
work away. Both *proved*, with `RepliesAreOwn`: a reply that is not stale is of the video on the page. (What is
decided while a save is under way is replaced by the stored row when the save lands: `LandSave`.)

**`ShortForm`.** Batches, analysis, ranking, approval, edits and renders, each with deliveries
that overlap, die and are refused. Two batches, two candidates, two analyses, two rankings, one
approval, two renders. `OneVideoPerShort` and `ActiveBatchHasWork`, both *proved*: one batch is
active at a time, and what keeps it active is in somebody's hands (`OwnInHand`).

**`CommentFeed`.** The route's conditional GET (revision, then list, two statements), the
page's list, ETags, optimistic writes and rollbacks, other people's writes, and renders that
make the page load its video again. POST and PATCH are transactions: a write is begun and
stamped (`Stamped`: `updatedAt`, set by Prisma when the statement is built) and commits later
(`WriteLands`) or rolls back (`WriteFails`). Stamps are in milliseconds, as the ETag is, so two may
tie, and commits come in any order. A DELETE is one statement.

The ETag is therefore not enough: two comments are resolved, stamped t1 < t2, the second commits, the
page reads the list with (n, t2), the first commits; the revision is still (n, t2), and every poll is
answered 304 with the first comment shown unresolved until something else is written. The model
has this behaviour and marks the version `late` (a write was committed that is no newer than the
revision the page remembers, or than the one that a read under way has taken). `OnlyLateWritesHide`, *proved*: it is the only
way, beside what the page changed itself. The tag that comes with a list is never newer than
the list, so where no write was late a list that has not been changed here and that the next
poll leaves alone shows every comment as it is. The bounds (`FeedBound`): two versions, two
comments, two milliseconds, one read and one write of the page; two transactions or reads open at
once where there is one version. *Finding* (`comment_feed_hidden`):
the reload empties the lists and keeps the tags, and then every poll is answered 304.

## Side by side

`Services_proofs` proves `PartsKeepTheirSpecs`: whatever scene `MCServices` runs, each part takes
steps of its own specification or none. So the theorems about a part hold in the composition,
and `TypesCorrect` (`TypesOK`) follows from eight of them.

## Checked and not proved

- Liveness (`KnownJobsSettle`, `UnknownJobsWait`, `Settles`, `CutSettles`) rests on fairness and is
  checked by TLC only.
- `FilesShowDecisions` for clips whose duration is not on record, see above.

All other properties of the passing runs are both checked and proved. The proofs assume only
`CutsInClips` where it is named, and the named assumptions in the modules: numbered rows, positive limits, finite sets of uploads and
of requests, and values such as `None` or `Nobody` outside the sets they stand beside. Induction
over data is not to be had by a theorem with an operator as a parameter; where a sum or a fold needs it,
`DataLemmas` proves it for functions as values (a fold is the last value of a function on the
prefixes, and the least counterexample of a statement about prefixes is refuted).

## Not modelled

- *Billing:* trials that Stripe granted before the cardless one, the portal, the deletion of a
  customer. *Invitations:* `acceptPendingInvitationsForUser`, which only tests call. *Uploads:* assets,
  images and camera-to-cloud, which take the same reservation; Bunny's usage is a constant.
- *Comments:* replies are comments; images, voice, tags, mentions and pages beyond the first 200
  are left out. *Transcripts:* edits, translations, captions and the inline runner's segments.
- *Rough cuts:* take selection, the multicam layout and its camera grammar, synchronization,
  ffmpeg. *Agent runs:* the model call and the text of what it finds.
- *Email verification* beyond the trial it starts, *rate limits*: rows written by one statement
  that nothing else reads.
- *Share links, sessions and project access:* functions of a row or a cookie; the modelled routes take
  their answers as constants (`Editors`, `Candidates`) or as refusals that may happen.
- *Analytics, folders, tags, projects, workspaces:* single-row writes that nothing decides on.
- *User interface and editor plugins:* components that show what routes answer. Most of the
  repository's lines are of this kind, and of generated, styled or textual code; they keep no
  state that a step of another actor could invalidate, but for the two hooks above.

What could be added next: several advisory locks taken one by one, as deadlock freedom; the
inline transcription's own segments; the multicam layout in `EditLists`.

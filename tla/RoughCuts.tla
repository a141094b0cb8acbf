----------------------------- MODULE RoughCuts -----------------------------
(***************************************************************************)
(* Rough cuts of a folder: the route that requests one (it starts the      *)
(* transcriptions a cut needs), the worker's ASSEMBLE_ROUGH_CUT job (it    *)
(* waits for transcripts by parking a copy of itself, or starts them), the *)
(* MATERIALIZE_ROUGH_CUT job behind a READY cut, and the reviewer's render *)
(* route.                                                                  *)
(*                                                                         *)
(* An assembly decides on the transcript rows it read once; enqueueing a   *)
(* missing transcription is a transaction of three statements.  Clips,     *)
(* takes, camera choices and warnings are abstracted; the cut's age is     *)
(* whether it has outlived the wait limit.                                 *)
(***************************************************************************)
EXTENDS Transcription, Sequences

CONSTANTS
  Cuts,        \* rough_cuts of one folder, numbered as they are requested
  Slots,       \* one sequence of candidate versions per transcript the layout reads
  Required,    \* isTranscriptionEnvEnabled
  Assemblies,  \* bound: ASSEMBLE_ROUGH_CUT jobs alive at once
  Renders      \* bound: MATERIALIZE_ROUGH_CUT jobs alive at once

ASSUME SlotsAssumption == Slots \in Seq(Seq(Versions) \ {<<>>})
ASSUME NumbersAssumption == Cuts \cup Assemblies \cup Renders \subseteq Nat
ASSUME RequiredAssumption == Required \in BOOLEAN

VARIABLES
  cut,       \* rough_cuts: [status, old, stranded]; ghost stranded: the last delivery of
             \* a job of the cut was used up, and what became of the cut was not written
  request,   \* POST rough-cuts in progress, one per cut
  assembly,  \* ASSEMBLE_ROUGH_CUT jobs and how far each has got
  render     \* MATERIALIZE_ROUGH_CUT jobs

cutVars == <<cut, request, assembly, render>>
vars == <<transcriptVars, cutVars>>

Use(r) == [kind |-> "use", row |-> r]
Plain(kind) == [kind |-> kind, row |-> None]
Decisions == {Use(r) : r \in Rows}
               \cup {Plain(k) : k \in {"wait", "transcribe", "fallback"}}

Request == [at : {"idle", "admitted", "upserted", "created"},
            need : SUBSET Versions, row : Rows \cup {None}]

\* plan: a decision per slot; next: the slot looked at; row, busy: what the
\* open transaction upserted and whether it saw a transcription on its way.
Assembly == [cut : Cuts, status : {"PENDING", "RUNNING", "FAILED"},
             at : {"lost", "start", "deciding", "upserted", "checked", "reading",
                   "building", "ready", "done"},
             plan : Seq(Decisions), next : Nat, waits : BOOLEAN,
             row : Rows \cup {None}, busy : BOOLEAN, left : 0..Tries]

Render == [cut : Cuts, status : {"PENDING", "RUNNING", "FAILED"},
           left : 0..Tries]

ASSUME NoJobAssumption == None \notin Assembly \cup Render

RoughCutsTypeOK ==
  /\ TranscriptionTypeOK
  /\ cut \in [Cuts -> [status : {"none", "PENDING", "RUNNING", "READY", "FAILED", "gone"},
                       old : BOOLEAN, stranded : BOOLEAN]]
  /\ request \in [Cuts -> Request]
  /\ assembly \in [Assemblies -> Assembly \cup {None}]
  /\ render \in [Renders -> Render \cup {None}]

NoRequest == [at |-> "idle", need |-> {}, row |-> None]

Init ==
  /\ TranscriptionInit
  /\ cut = [c \in Cuts |-> [status |-> "none", old |-> FALSE, stranded |-> FALSE]]
  /\ request = [c \in Cuts |-> NoRequest]
  /\ assembly = [a \in Assemblies |-> None]
  /\ render = [m \in Renders |-> None]

\* A settled job is never read again: its place is used for a new one.
NewAssembly(a) == Oldest({b \in Assemblies : assembly[b] = None}, a)
NewRender(m) == Oldest({n \in Renders : render[n] = None}, m)

QueuedAssembly(c) ==
  [cut |-> c, status |-> "PENDING", at |-> "lost", plan |-> <<>>, next |-> 1,
   waits |-> FALSE, row |-> None, busy |-> FALSE, left |-> Tries]

\* A run that did not finish starts afresh, while deliveries are left.
Unfinished(a, status, left) ==
  IF left = 0 THEN None
  ELSE [QueuedAssembly(assembly[a].cut) EXCEPT !.status = status, !.left = left]

QueuedRender(c) == [cut |-> c, status |-> "PENDING", left |-> Tries]

-----------------------------------------------------------------------------
(* POST /projects/../rough-cuts.                                           *)

\* ensureTranscriptsForVersions: what a version needs, from the rows' statuses.
NeedsTranscript(v) == \A r \in RowsOf(v) : row[r].status = "FAILED"

\* No cut of the folder is PENDING or RUNNING; the transcripts are read.  An app
\* that cannot transcribe ("route" is not in may) leaves it to the assembly.
RequestCut(c) ==
  /\ cut[c].status = "none" /\ request[c].at = "idle"
  /\ \A d \in Cuts : cut[d].status \notin {"PENDING", "RUNNING"}
  /\ \A d \in Cuts : d < c => request[d].at # "idle" \/ cut[d].status # "none"
  /\ "two" \in may \/ \A d \in Cuts : c <= d
  /\ request' = [request EXCEPT ![c] =
       [at |-> "admitted", row |-> None,
        need |-> {v \in {Slots[i][1] : i \in DOMAIN Slots} : "route" \in may /\ NeedsTranscript(v)}]]
  /\ UNCHANGED <<transcriptVars, cut, assembly, render>>

\* startVersionTranscription: the row, then its jobs, statement by statement.
StartRow(c, v, r) ==
  /\ request[c].at = "admitted" /\ v \in request[c].need
  /\ v \notin held /\ UpsertTarget(v, "und", r)
  /\ row' = Requested(v, r)
  /\ request' = [request EXCEPT ![c].at = "upserted", ![c].row = r]
  /\ UNCHANGED <<may, hearing, held, cut, assembly, render>>

StartJob(c, h) ==
  LET v == row[request[c].row].version
  IN /\ request[c].at = "upserted"
     /\ NewHearing(h)
     /\ hearing' = [hearing EXCEPT ![h] = Queued(v, request[c].row, FALSE)]
     /\ request' = [request EXCEPT ![c] =
                      [at |-> "admitted", row |-> None, need |-> @.need \ {v}]]
     /\ UNCHANGED <<may, row, held, cut, assembly, render>>

CreateCut(c) ==
  /\ request[c].at = "admitted" /\ request[c].need = {}
  /\ cut' = [cut EXCEPT ![c].status = "PENDING"]
  /\ request' = [request EXCEPT ![c].at = "created"]
  /\ UNCHANGED <<transcriptVars, assembly, render>>

EnqueueAssembly(c, a) ==
  /\ request[c].at = "created" /\ NewAssembly(a)
  /\ assembly' = [assembly EXCEPT ![a] = QueuedAssembly(c)]
  /\ request' = [request EXCEPT ![c] = NoRequest]
  /\ UNCHANGED <<transcriptVars, cut, render>>

\* A statement fails or the process stops: what was written stays.
AbandonRequest(c) ==
  /\ "abandon" \in may
  /\ request[c].at # "idle"
  /\ request' = [request EXCEPT ![c] = NoRequest]
  /\ UNCHANGED <<transcriptVars, cut, assembly, render>>

\* The cut is deleted; its jobs come to nothing.
DeleteCut(c) ==
  /\ "delete" \in may
  /\ cut[c].status \notin {"none", "gone"}
  /\ cut' = [cut EXCEPT ![c].status = "gone"]
  /\ UNCHANGED <<transcriptVars, request, assembly, render>>

\* The wait limit passes.
GrowOld(c) ==
  /\ cut[c].status \in {"PENDING", "RUNNING"} /\ ~cut[c].old
  /\ cut' = [cut EXCEPT ![c].old = TRUE]
  /\ UNCHANGED <<transcriptVars, request, assembly, render>>

-----------------------------------------------------------------------------
(* assembleRoughCut.                                                       *)

\* Nothing left to do but to report it.
Over(a) == [QueuedAssembly(assembly[a].cut) EXCEPT
  !.status = "RUNNING", !.at = "done", !.left = assembly[a].left]

Running(a, at) ==
  assembly[a] # None /\ assembly[a].status = "RUNNING" /\ assembly[a].at = at

\* UPDATE rough_cuts SET status: nothing is written for a deleted cut.
SetCut(c, status) ==
  cut' = IF cut[c].status = "gone" THEN cut
         ELSE [cut EXCEPT ![c].status = status, ![c].stranded = FALSE]

\* The run stops with `left` deliveries, and the cut stays as it was; a run that saved
\* its cut, or parked a copy of itself, has nothing left to write.
LeaveCut(a, left) ==
  cut' = [cut EXCEPT ![assembly[a].cut].stranded =
            @ \/ (left = 0 /\ assembly[a].at \notin {"ready", "done"})]

\* markJob(FAILED) of a run that threw may fail as well: the job stays RUNNING.
Fails(a, left) ==
  \E status \in {"FAILED", "RUNNING"} :
    /\ status = "RUNNING" => "outage" \in may
    /\ assembly' = [assembly EXCEPT ![a] = Unfinished(a, status, left)]

\* A parked job's delay is over, or the queue delivers a job again.
BeginAssembly(a) ==
  /\ assembly[a] # None /\ Deliverable(assembly[a])
  /\ SetCut(assembly[a].cut, "RUNNING")
  /\ assembly' = [assembly EXCEPT ![a] =
       [QueuedAssembly(assembly[a].cut) EXCEPT !.status = "RUNNING", !.at = "start",
                                               !.left = assembly[a].left - 1]]
  /\ UNCHANGED <<transcriptVars, request, render>>

\* markJob(RUNNING) throws and leaves the job as it was, or the UPDATE of the cut does:
\* both are outside the try that writes FAILED. The delivery is used.
FailToBegin(a) ==
  LET left == assembly[a].left - 1
  IN /\ "outage" \in may
     /\ assembly[a] # None /\ Deliverable(assembly[a])
     /\ \/ assembly' = [assembly EXCEPT ![a] = Unfinished(a, assembly[a].status, left)]
        \/ Fails(a, left)
     /\ LeaveCut(a, left)
     /\ UNCHANGED <<transcriptVars, request, render>>

InProgress(v) == \E r \in RowsOf(v) : row[r].status \in {"PENDING", "RUNNING"}
Ready(v) == {r \in RowsOf(v) : row[r].status = "READY"}

\* The first candidate with a READY transcript, by its oldest READY row.
ReadySource(slot, r) ==
  \E i \in DOMAIN slot :
    /\ Oldest(Ready(slot[i]), r)
    /\ \A k \in 1..(i - 1) : Ready(slot[k]) = {}

\* Mutant of Decide: a transcript is waited for however old the cut is.
DecideWithoutLimit(slot, old) ==
  IF \E r \in Rows : ReadySource(slot, r) THEN Use(CHOOSE r \in Rows : ReadySource(slot, r))
  ELSE IF \E i \in DOMAIN slot : InProgress(slot[i]) THEN Plain("wait")
  ELSE IF Required /\ ~old /\ \A i \in DOMAIN slot : RowsOf(slot[i]) = {}
    THEN Plain("transcribe")
  ELSE Plain("fallback")

\* decideTranscriptSource, and what the assembly does about a missing row.
Decide(slot, old) ==
  IF \E r \in Rows : ReadySource(slot, r) THEN Use(CHOOSE r \in Rows : ReadySource(slot, r))
  ELSE IF ~old /\ \E i \in DOMAIN slot : InProgress(slot[i]) THEN Plain("wait")
  ELSE IF Required /\ ~old /\ \A i \in DOMAIN slot : RowsOf(slot[i]) = {}
    THEN Plain("transcribe")
  ELSE Plain("fallback")

\* loadRun (which throws for a deleted cut) and loadTranscriptRows.
LoadRows(a) ==
  LET c == assembly[a].cut
  IN /\ Running(a, "start") /\ cut[c].status # "gone"
     /\ assembly' = [assembly EXCEPT ![a].at = "deciding",
          ![a].plan = [i \in DOMAIN Slots |-> Decide(Slots[i], cut[c].old)]]
     /\ UNCHANGED <<transcriptVars, cut, request, render>>

Looking(a) == assembly[a].next \in DOMAIN Slots
Decision(a) == assembly[a].plan[assembly[a].next]

\* The slot needs nothing now; without a required transcript a fallback is voice
\* activity.
PassSlot(a) ==
  /\ Running(a, "deciding") /\ Looking(a)
  /\ \/ Decision(a).kind \in {"use", "wait"}
     \/ Decision(a).kind = "fallback" /\ ~Required
  /\ assembly' = [assembly EXCEPT ![a].next = @ + 1,
                    ![a].waits = @ \/ Decision(a).kind = "wait"]
  /\ UNCHANGED <<transcriptVars, cut, request, render>>

\* enqueueTranscription: BEGIN and the upsert, which waits for another open
\* transaction on the same row.
UpsertMissing(a, r) ==
  LET v == Slots[assembly[a].next][1]
  IN /\ Running(a, "deciding") /\ Looking(a) /\ Decision(a).kind = "transcribe"
     /\ v \notin held /\ UpsertTarget(v, "und", r)
     /\ held' = held \cup {v}
     /\ assembly' = [assembly EXCEPT ![a].at = "upserted", ![a].row = r]
     /\ UNCHANGED <<may, row, hearing, cut, request, render>>

OnItsWay(v) == \E h \in Hearings :
  hearing[h] # None /\ hearing[h].version = v /\ Active(hearing[h].status)

\* Mutant of SelectActive: the jobs were read before the upsert, by a caller
\* that found no row.
SelectActiveFirst(a) ==
  /\ Running(a, "upserted")
  /\ assembly' = [assembly EXCEPT ![a].at = "checked", ![a].busy = FALSE]
  /\ UNCHANGED <<transcriptVars, cut, request, render>>

\* SELECT ... WHERE status IN ('PENDING', 'QUEUED', 'RUNNING').
SelectActive(a) ==
  /\ Running(a, "upserted")
  /\ assembly' = [assembly EXCEPT ![a].at = "checked",
                    ![a].busy = OnItsWay(Slots[assembly[a].next][1])]
  /\ UNCHANGED <<transcriptVars, cut, request, render>>

\* The jobs, unless a transcription is on its way, and COMMIT.
CommitMissing(a, h) ==
  LET v == Slots[assembly[a].next][1]
  IN /\ Running(a, "checked")
     /\ NewHearing(h)
     /\ row' = Requested(v, assembly[a].row)
     /\ hearing' = IF assembly[a].busy THEN hearing
                   ELSE [hearing EXCEPT ![h] = Queued(v, assembly[a].row, TRUE)]
     /\ held' = held \ {v}
     /\ assembly' = [assembly EXCEPT ![a].at = "deciding", ![a].row = None,
                       ![a].next = @ + 1, ![a].waits = TRUE]
     /\ UNCHANGED <<may, cut, request, render>>

\* Mutant of Park: the waiting run is not parked.
ParkNothing(a, b) ==
  /\ Running(a, "deciding") /\ ~Looking(a) /\ assembly[a].waits
  /\ NewAssembly(b)
  /\ assembly' = [assembly EXCEPT ![a] = Over(a)]
  /\ UNCHANGED <<transcriptVars, cut, request, render>>

\* deferForTranscript: the cut stays RUNNING and a fresh job comes back to it.
Park(a, b) ==
  /\ Running(a, "deciding") /\ ~Looking(a) /\ assembly[a].waits
  /\ NewAssembly(b)
  /\ assembly' = [assembly EXCEPT ![a] = Over(a), ![b] = QueuedAssembly(assembly[a].cut)]
  /\ UNCHANGED <<transcriptVars, cut, request, render>>

\* Nothing to wait for: the transcripts are read, slot by slot.
StartReading(a) ==
  /\ Running(a, "deciding") /\ ~Looking(a) /\ ~assembly[a].waits
  /\ assembly' = [assembly EXCEPT ![a].at = "reading", ![a].next = 1]
  /\ UNCHANGED <<transcriptVars, cut, request, render>>

\* A transcript without segments is no transcript (decision "empty").
HasSpeech(a) == Decision(a).kind = "use" /\ row[Decision(a).row].segments > 0

ReadSlot(a) ==
  /\ Running(a, "reading") /\ Looking(a)
  /\ HasSpeech(a) \/ ~Required
  /\ assembly' = [assembly EXCEPT ![a].next = @ + 1]
  /\ UNCHANGED <<transcriptVars, cut, request, render>>

Build(a) ==
  /\ Running(a, "reading") /\ ~Looking(a)
  /\ assembly' = [assembly EXCEPT ![a].at = "building", ![a].plan = <<>>, ![a].next = 1]
  /\ UNCHANGED <<transcriptVars, cut, request, render>>

\* persistReady: the cut's READY, then the job that renders it.
SaveReady(a) ==
  /\ Running(a, "building")
  /\ SetCut(assembly[a].cut, "READY")
  /\ assembly' = [assembly EXCEPT ![a].at = "ready"]
  /\ UNCHANGED <<transcriptVars, request, render>>

QueueRender(a, m) ==
  /\ Running(a, "ready") /\ NewRender(m)
  /\ render' = [render EXCEPT ![m] = QueuedRender(assembly[a].cut)]
  /\ assembly' = [assembly EXCEPT ![a] = Over(a)]
  /\ UNCHANGED <<transcriptVars, cut, request>>

FinishAssembly(a) ==
  /\ Running(a, "done")
  /\ assembly' = [assembly EXCEPT ![a] = None]
  /\ UNCHANGED <<transcriptVars, cut, request, render>>

\* The transaction of a run that ends rolls back.
Released(a) ==
  IF assembly[a].at \in {"upserted", "checked"} THEN held \ {Slots[assembly[a].next][1]} ELSE held

\* loadRun finds no cut, or a required transcript cannot be had or is empty.
Refuses(a) ==
  \/ Running(a, "start") /\ cut[assembly[a].cut].status = "gone"
  \/ Required /\ Looking(a) /\ \/ Running(a, "deciding") /\ Decision(a).kind = "fallback"
                               \/ Running(a, "reading") /\ ~HasSpeech(a)

\* The catch: a deleted cut, a refused transcript, or any statement that fails.  Its own
\* UPDATE to FAILED may fail too.
FailAssembly(a) ==
  /\ assembly[a] # None /\ assembly[a].status = "RUNNING"
  /\ assembly[a].at \notin {"lost", "done"}
  /\ Refuses(a) \/ may \cap {"failure", "outage"} # {}
  /\ \/ SetCut(assembly[a].cut, "FAILED")
     \/ "outage" \in may /\ LeaveCut(a, assembly[a].left)
  /\ Fails(a, assembly[a].left)
  /\ held' = Released(a)
  /\ UNCHANGED <<may, row, hearing, request, render>>

\* Bound: a run that may park a second copy, when it is delivered again, has a place left
\* for it.
PlaceLeft == \E b \in Assemblies : assembly[b] = None

\* markJob(SUCCEEDED) throws: the run is over, and comes again as if it had failed.
FailToReport(a) ==
  /\ "outage" \in may /\ PlaceLeft
  /\ Running(a, "done") /\ Fails(a, assembly[a].left)
  /\ UNCHANGED <<transcriptVars, cut, request, render>>

\* The worker dies; the queue delivers again while it has retries.
LoseAssembly(a) ==
  /\ "lost assembly" \in may /\ PlaceLeft
  /\ assembly[a] # None /\ assembly[a].status = "RUNNING" /\ assembly[a].at # "lost"
  /\ assembly' = [assembly EXCEPT ![a] = Unfinished(a, "RUNNING", assembly[a].left)]
  /\ LeaveCut(a, assembly[a].left)
  /\ held' = Released(a)
  /\ UNCHANGED <<may, row, hearing, request, render>>

-----------------------------------------------------------------------------
(* Renders of a READY cut.                                                 *)

\* findActiveMaterializeJob and the insert, under the cut's advisory lock.
RequestRender(c, m) ==
  /\ "review" \in may /\ cut[c].status = "READY" /\ NewRender(m)
  /\ \A n \in Renders : render[n] # None /\ render[n].cut = c => ~Active(render[n].status)
  /\ render' = [render EXCEPT ![m] = QueuedRender(c)]
  /\ UNCHANGED <<transcriptVars, cut, request, assembly>>

RunRender(m) ==
  /\ render[m] # None /\ render[m].status \in {"PENDING", "FAILED"} /\ render[m].left > 0
  /\ render' = [render EXCEPT ![m].status = "RUNNING", ![m].left = @ - 1]
  /\ UNCHANGED <<transcriptVars, cut, request, assembly>>

EndRender(m, status) ==
  /\ render[m] # None /\ render[m].status = "RUNNING"
  /\ status = "FAILED" => "failure" \in may
  /\ render' = [render EXCEPT ![m] =
       IF status = "SUCCEEDED" \/ render[m].left = 0 THEN None
       ELSE [render[m] EXCEPT !.status = status]]
  /\ UNCHANGED <<transcriptVars, cut, request, assembly>>

-----------------------------------------------------------------------------
RequestStep(c) ==
  \/ CreateCut(c) \/ RequestCut(c)
  \/ \E v \in Versions, r \in Rows : StartRow(c, v, r)
  \/ \E h \in Hearings : StartJob(c, h)
  \/ \E a \in Assemblies : EnqueueAssembly(c, a)

AssemblyStep(a) ==
  \/ BeginAssembly(a) \/ LoadRows(a) \/ PassSlot(a) \/ SelectActive(a)
  \/ StartReading(a) \/ ReadSlot(a) \/ Build(a) \/ SaveReady(a) \/ FinishAssembly(a)
  \/ FailAssembly(a) \/ FailToBegin(a) \/ FailToReport(a)
  \/ \E r \in Rows : UpsertMissing(a, r)
  \/ \E h \in Hearings : CommitMissing(a, h)
  \/ \E b \in Assemblies : Park(a, b)
  \/ \E m \in Renders : QueueRender(a, m)

RenderStep(m) == RunRender(m) \/ \E s \in {"SUCCEEDED", "FAILED"} : EndRender(m, s)

Next ==
  \/ TranscriptionStep /\ UNCHANGED cutVars
  \/ \E c \in Cuts : RequestStep(c) \/ AbandonRequest(c) \/ DeleteCut(c) \/ GrowOld(c)
  \/ \E a \in Assemblies : AssemblyStep(a) \/ LoseAssembly(a)
  \/ \E m \in Renders : RenderStep(m)
  \/ \E c \in Cuts, m \in Renders : RequestRender(c, m)

Spec == Init /\ [][Next]_vars

\* Time passes, and the worker does not stand idle while an assembly is waiting
\* or begun.
FairSpec ==
  /\ Spec
  /\ WF_vars(\E c \in Cuts : GrowOld(c))
  /\ WF_vars(\E a \in Assemblies : AssemblyStep(a))

-----------------------------------------------------------------------------
(* Properties.                                                             *)

\* A job the worker still has to do, or will be given again.
Live(job) == job # None /\ (Active(job.status) \/ (job.status = "FAILED" /\ job.left > 0))

\* A cut that shows RUNNING has a job that will come back to it, parked, with the worker,
\* or to be delivered again: no parked run is forgotten, and no failure inside the run's
\* try leaves it "RUNNING with only the media job marked failed". Only a stranded cut has
\* none: on the last delivery the worker died, or what should have written the cut's
\* status failed as well (the first UPDATE of the run, markJob before it, or the catch's).
RunningCutHasJob ==
  \A c \in Cuts : cut[c].status = "RUNNING" /\ ~cut[c].stranded =>
    \E a \in Assemblies : Live(assembly[a]) /\ assembly[a].cut = c

\* Runs that wait for one clip queue one transcription of it between them: the
\* one that commits second sees the first one's job.  A job that failed once does
\* not count: it may come back between the second run's SELECT and its COMMIT.
OneTranscriptionQueued ==
  [][\A h \in Hearings :
       hearing[h] = None /\ hearing'[h] # None /\ hearing'[h].byRun =>
         ~\E g \in Hearings :
            /\ hearing[g] # None /\ hearing[g].byRun /\ Active(hearing[g].status)
            /\ hearing[g].left + 1 >= Tries
            /\ hearing[g].version = hearing'[h].version]_vars

\* A cut the worker has taken up ends, READY, FAILED or deleted, whatever its transcripts
\* do and whichever run of it fails: it waits no longer than the limit, and is left RUNNING
\* only stranded.
CutSettles ==
  \A c \in Cuts : cut[c].status = "RUNNING" ~>
    cut[c].status \in {"READY", "FAILED", "gone"} \/ cut[c].stranded
=============================================================================

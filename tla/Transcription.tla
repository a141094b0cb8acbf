--------------------------- MODULE Transcription ---------------------------
(***************************************************************************)
(* Transcripts of file-backed videos: the rows of transcripts with their   *)
(* segments, the media worker's TRANSCRIBE job (one statement at a time,   *)
(* no transaction around them), and an uploaded transcript, which is one   *)
(* transaction.                                                            *)
(*                                                                         *)
(* What starts a transcription (a route, a rough cut that needs one) is in *)
(* RoughCuts.  Words, timings, speakers, captions and translations are     *)
(* abstracted: a row's text is how many segments it has.                   *)
(***************************************************************************)
EXTENDS Naturals

CONSTANTS
  Versions,        \* video versions
  Rows,            \* bound: transcript rows, numbered in created_at order
  Hearings,        \* bound: TRANSCRIBE jobs, numbered likewise
  Tries,           \* deliveries of a media job (pg-boss: the first and its retries)
  Lines,           \* segments in what a provider hears
  Disturbances,    \* bound: sets of what may come between in one behaviour
  None

ASSUME RowsAssumption == Rows \subseteq Nat /\ Hearings \subseteq Nat
ASSUME TriesAssumption == Tries \in Nat \ {0}
ASSUME LinesAssumption == Lines \in Nat \ {0}
ASSUME NoVersionAssumption == None \notin Versions

VARIABLES
  row,      \* transcripts
  hearing,  \* TRANSCRIBE jobs and how far each has got
  held,     \* versions whose 'und' row an open transaction has upserted
  may       \* what comes between in this behaviour, chosen at the start

transcriptVars == <<row, hearing, held, may>>

\* Language tags: what autodetection stores before and after it has heard.
Langs == {"und", "en"}

Row == [version : Versions \cup {None}, lang : Langs,
        status : {"PENDING", "RUNNING", "READY", "FAILED"}, segments : Nat]

\* inserted: the segments the run has inserted; left: deliveries left.
Hearing == [version : Versions, row : Rows,
            status : {"PENDING", "RUNNING", "SUCCEEDED", "FAILED"},
            at : {"lost", "hearing", "ready", "inserting"}, inserted : 0..Lines,
            left : 0..Tries,
            byRun : BOOLEAN]             \* a waiting rough cut queued it

ASSUME NoHearingAssumption == None \notin Hearing

TranscriptionTypeOK ==
  /\ row \in [Rows -> Row]
  /\ hearing \in [Hearings -> Hearing \cup {None}]
  /\ held \subseteq Versions
  /\ may \in Disturbances

TranscriptionInit ==
  /\ row = [r \in Rows |-> [version |-> None, lang |-> "und", status |-> "PENDING",
                            segments |-> 0]]
  /\ hearing = [h \in Hearings |-> None]
  /\ held = {}
  /\ may \in Disturbances

RowsOf(v) == {r \in Rows : row[r].version = v}
Oldest(S, r) == r \in S /\ \A s \in S : r <= s

\* A media job row that is waiting for the worker or with it.
Active(status) == status \in {"PENDING", "QUEUED", "RUNNING"}

\* A write of row r waits for a transaction that has it locked.
Unlocked(r) == row[r].lang = "und" => row[r].version \notin held

\* INSERT ... ON CONFLICT (version_id, language): the row it lands on.
UpsertTarget(v, lang, r) ==
  IF \E s \in RowsOf(v) : row[s].lang = lang
    THEN r \in RowsOf(v) /\ row[r].lang = lang
    ELSE Oldest(RowsOf(None), r)

\* What an upsert to PENDING leaves; segments of an earlier transcript stay.
Requested(v, r) ==
  [row EXCEPT ![r].version = v, ![r].lang = "und", ![r].status = "PENDING"]

\* The next TRANSCRIBE job, and what a caller inserts.
NewHearing(h) == Oldest({g \in Hearings : hearing[g] = None}, h)
Queued(v, r, byRun) ==
  [version |-> v, row |-> r, status |-> "PENDING", at |-> "lost", inserted |-> 0,
   left |-> Tries, byRun |-> byRun]

-----------------------------------------------------------------------------
(* The worker's TRANSCRIBE job.                                            *)

\* Mutant of Deliverable: the retry limit is not looked at.
DeliverableForever(job) ==
  job.status \in {"PENDING", "FAILED"} \/ (job.status = "RUNNING" /\ job.at = "lost")

\* A job the queue delivers: the first time, or again after a failure or a
\* worker that died.
Deliverable(job) ==
  /\ job.left > 0
  /\ job.status \in {"PENDING", "FAILED"} \/ (job.status = "RUNNING" /\ job.at = "lost")

Hears(h, at) ==
  hearing[h] # None /\ hearing[h].status = "RUNNING" /\ hearing[h].at = at

\* markJob(RUNNING) and setTranscriptStatus(RUNNING): no status is looked at.
BeginHearing(h) ==
  /\ hearing[h] # None /\ Deliverable(hearing[h])
  /\ Unlocked(hearing[h].row)
  /\ hearing' = [hearing EXCEPT ![h].status = "RUNNING", ![h].at = "hearing",
                                ![h].left = @ - 1]
  /\ row' = [row EXCEPT ![hearing[h].row].status = "RUNNING"]
  /\ UNCHANGED <<held, may>>

\* UPDATE ... SET language = detected, status = 'READY' WHERE id: the segments
\* are not there yet.  Another row of the version with that language makes it fail.
StoreHeard(h) ==
  LET r == hearing[h].row
  IN /\ Hears(h, "hearing") /\ Unlocked(r)
     /\ \A s \in RowsOf(hearing[h].version) \ {r} : row[s].lang # "en"
     /\ row' = [row EXCEPT ![r].lang = "en", ![r].status = "READY"]
     /\ hearing' = [hearing EXCEPT ![h].at = "ready"]
     /\ UNCHANGED <<held, may>>

ClearSegments(h) ==
  /\ Hears(h, "ready")
  /\ row' = [row EXCEPT ![hearing[h].row].segments = 0]
  /\ hearing' = [hearing EXCEPT ![h].at = "inserting", ![h].inserted = 0]
  /\ UNCHANGED <<held, may>>

\* One INSERT per segment; two runs on one row both insert theirs.
InsertSegment(h) ==
  /\ Hears(h, "inserting") /\ hearing[h].inserted < Lines
  /\ row' = [row EXCEPT ![hearing[h].row].segments = @ + 1]
  /\ hearing' = [hearing EXCEPT ![h].inserted = @ + 1]
  /\ UNCHANGED <<held, may>>

\* All segments are in, or nothing was spoken.
FinishHearing(h) ==
  /\ Hears(h, "inserting") /\ hearing[h].inserted \in {0, Lines}
  /\ hearing' = [hearing EXCEPT ![h].status = "SUCCEEDED", ![h].at = "lost", ![h].inserted = 0]
  /\ UNCHANGED <<row, held, may>>

\* Any statement or the provider fails: the row is FAILED whatever it was.
FailHearing(h) ==
  /\ "failure" \in may
  /\ hearing[h] # None /\ hearing[h].status = "RUNNING" /\ hearing[h].at # "lost"
  /\ Unlocked(hearing[h].row)
  /\ row' = [row EXCEPT ![hearing[h].row].status = "FAILED"]
  /\ hearing' = [hearing EXCEPT ![h].status = "FAILED", ![h].at = "lost", ![h].inserted = 0]
  /\ UNCHANGED <<held, may>>

\* The worker dies; the queue delivers again while it has retries, else the row stays as
\* the run left it.
LoseHearing(h) ==
  /\ "lost hearing" \in may
  /\ hearing[h] # None /\ hearing[h].status = "RUNNING" /\ hearing[h].at # "lost"
  /\ hearing' = [hearing EXCEPT ![h].at = "lost", ![h].inserted = 0]
  /\ UNCHANGED <<row, held, may>>

\* saveReadyTranscript: an upload in the language the provider would detect.
UploadTranscript(v, r) ==
  /\ "upload" \in may
  /\ UpsertTarget(v, "en", r)
  /\ row' = [row EXCEPT ![r] = [version |-> v, lang |-> "en", status |-> "READY",
                                segments |-> Lines]]
  /\ UNCHANGED <<hearing, held, may>>

HearingStep(h) ==
  \/ BeginHearing(h) \/ StoreHeard(h) \/ ClearSegments(h) \/ InsertSegment(h)
  \/ FinishHearing(h) \/ FailHearing(h)

TranscriptionStep ==
  \/ \E h \in Hearings : HearingStep(h) \/ LoseHearing(h)
  \/ \E v \in Versions, r \in Rows : UploadTranscript(v, r)
=============================================================================

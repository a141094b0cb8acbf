-------------------------- MODULE RoughCuts_proofs --------------------------
(***************************************************************************)
(* Proofs about transcriptions and rough cuts, for any number of versions, *)
(* transcripts, cuts and jobs, and for any layout: types, that a cut that  *)
(* shows RUNNING and is not stranded has a job that comes back to it, and  *)
(* that two runs that wait for one clip queue one transcription of it      *)
(* between them.                                                           *)
(***************************************************************************)
EXTENDS RoughCuts, TLAPS

USE RowsAssumption, TriesAssumption, LinesAssumption, NoVersionAssumption, NoHearingAssumption,
    NumbersAssumption, RequiredAssumption, NoJobAssumption

-----------------------------------------------------------------------------
(* The inductive invariant.                                                *)

\* A request that has its row has the row of a version; a job that was begun has
\* fewer deliveries left.
RowsNamed ==
  /\ \A c \in Cuts : request[c].at = "upserted" =>
       request[c].row \in Rows /\ row[request[c].row].version \in Versions
  /\ \A h \in Hearings :
       hearing[h] # None /\ hearing[h].status # "PENDING" => hearing[h].left < Tries

\* An assembly inside its transaction, and the version it upserted a row of.
InTransaction(a) == assembly[a] # None /\ assembly[a].at \in {"upserted", "checked"}
Missing(a) == Slots[assembly[a].next][1]

\* A transcription that a waiting run queued, that no other may join.
Waited(g, v) ==
  /\ hearing[g] # None /\ hearing[g].byRun /\ Active(hearing[g].status)
  /\ hearing[g].left + 1 >= Tries /\ hearing[g].version = v

\* A transaction locks the row of its version, so no two are about one version; and a
\* run that found no transcription on its way is still right.
Transactions ==
  \A a \in Assemblies : InTransaction(a) =>
    /\ assembly[a].status = "RUNNING"
    /\ assembly[a].row \in Rows /\ assembly[a].next \in DOMAIN Slots /\ Missing(a) \in held
    /\ \A b \in Assemblies \ {a} : InTransaction(b) => Missing(b) # Missing(a)
    /\ assembly[a].at = "checked" /\ ~assembly[a].busy =>
         \A g \in Hearings, v \in Versions : v = Missing(a) => ~Waited(g, v)

\* A run that has not saved its cut yet, and may still do so.
WillDo(a, c) ==
  /\ assembly[a] # None /\ assembly[a].cut = c /\ assembly[a].at \notin {"ready", "done"}
  /\ assembly[a].status = "FAILED" => assembly[a].left > 0

\* A cut that somebody has to come back to.
Carried(c) == cut[c].status = "RUNNING" /\ ~cut[c].stranded

CarriedHasRun == \A c \in Cuts : Carried(c) => \E a \in Assemblies : WillDo(a, c)

IInv == RoughCutsTypeOK /\ RowsNamed /\ Transactions /\ CarriedHasRun

CutType == [status : {"none", "PENDING", "RUNNING", "READY", "FAILED", "gone"}, old : BOOLEAN,
            stranded : BOOLEAN]

LEMMA InitInv == Init => IInv
<1> SUFFICES ASSUME Init PROVE IInv
    OBVIOUS
<1> USE DEF Init, TranscriptionInit
<1>1. TranscriptionTypeOK
  <2>1. row \in [Rows -> Row]
        BY DEF Row, Langs
  <2> QED BY <2>1 DEF TranscriptionTypeOK
<1>2. RoughCutsTypeOK
  <2>1. request \in [Cuts -> Request]
        BY DEF NoRequest, Request
  <2>2. /\ assembly \in [Assemblies -> Assembly \cup {None}]
        /\ render \in [Renders -> Render \cup {None}]
        OBVIOUS
  <2> QED BY <1>1, <2>1, <2>2 DEF RoughCutsTypeOK
<1>3. RowsNamed
      BY DEF RowsNamed, NoRequest
<1>4. Transactions /\ CarriedHasRun
      BY DEF Transactions, InTransaction, CarriedHasRun, Carried
<1> QED BY <1>2, <1>3, <1>4 DEF IInv

LEMMA Typed ==
  ASSUME IInv
  PROVE  /\ row \in [Rows -> Row] /\ hearing \in [Hearings -> Hearing \cup {None}]
         /\ held \subseteq Versions /\ may \in Disturbances
         /\ cut \in [Cuts -> CutType] /\ request \in [Cuts -> Request]
         /\ assembly \in [Assemblies -> Assembly \cup {None}]
         /\ render \in [Renders -> Render \cup {None}]
         /\ \A h \in Hearings : hearing[h] # None => hearing[h] \in Hearing
         /\ \A a \in Assemblies : assembly[a] # None => assembly[a] \in Assembly
         /\ \A m \in Renders : render[m] # None => render[m] \in Render
  BY DEF IInv, RoughCutsTypeOK, TranscriptionTypeOK, CutType

-----------------------------------------------------------------------------
(* What a step has to show for the transactions it leaves alone.           *)

\* The runs in `Left` end their transactions; the others' are as they were.
LEMMA TransactionsStay ==
  ASSUME IInv, NEW Left \in SUBSET Assemblies,
         \A b \in Assemblies : InTransaction(b)' =>
           b \notin Left /\ InTransaction(b) /\ assembly'[b] = assembly[b],
         \A v \in held \ held' : \E a \in Left : InTransaction(a) /\ v = Missing(a),
         \A g \in Hearings, v \in Versions : Waited(g, v)' =>
           Waited(g, v) \/ \E a \in Left : InTransaction(a) /\ v = Missing(a)
  PROVE  Transactions'
<1> SUFFICES ASSUME NEW b \in Assemblies, InTransaction(b)'
             PROVE  /\ assembly'[b].status = "RUNNING"
                    /\ assembly'[b].row \in Rows /\ assembly'[b].next \in DOMAIN Slots
                    /\ Missing(b)' \in held'
                    /\ \A d \in Assemblies \ {b} : InTransaction(d)' => Missing(d)' # Missing(b)'
                    /\ assembly'[b].at = "checked" /\ ~assembly'[b].busy =>
                         \A g \in Hearings, v \in Versions : v = Missing(b)' => ~Waited(g, v)'
    BY DEF Transactions
<1>1. /\ b \notin Left /\ InTransaction(b) /\ assembly'[b] = assembly[b]
      /\ \A d \in Assemblies : InTransaction(d)' => InTransaction(d) /\ Missing(d)' = Missing(d)
      BY DEF Missing
<1>2. /\ assembly[b].status = "RUNNING"
      /\ assembly[b].row \in Rows /\ assembly[b].next \in DOMAIN Slots /\ Missing(b) \in held
      /\ \A a \in Assemblies \ {b} : InTransaction(a) => Missing(a) # Missing(b)
      /\ assembly[b].at = "checked" /\ ~assembly[b].busy =>
           \A g \in Hearings, v \in Versions : v = Missing(b) => ~Waited(g, v)
      BY <1>1 DEF IInv, Transactions
<1>3. Missing(b)' = Missing(b) /\ Missing(b) \in held'
      BY <1>1, <1>2
<1>4. \A d \in Assemblies \ {b} : InTransaction(d)' => Missing(d)' # Missing(b)
      BY <1>1, <1>2
<1>5. ASSUME assembly[b].at = "checked", ~assembly[b].busy, NEW g \in Hearings, NEW v \in Versions,
             v = Missing(b)
      PROVE  ~Waited(g, v)'
      BY <1>1, <1>2, <1>5
<1> QED BY <1>1, <1>2, <1>3, <1>4, <1>5

\* A step that touches no run.
LEMMA NoRunTouched ==
  ASSUME IInv, UNCHANGED <<assembly, held>>,
         \A g \in Hearings, v \in Versions : Waited(g, v)' => Waited(g, v)
  PROVE  Transactions' /\ \A a \in Assemblies, c \in Cuts : WillDo(a, c)' <=> WillDo(a, c)
<1>1. \A b \in Assemblies : InTransaction(b)' => InTransaction(b) /\ assembly'[b] = assembly[b]
      BY DEF InTransaction
<1>2. Transactions'
  <2> DEFINE Left == {}
  <2>1. /\ Left \in SUBSET Assemblies /\ \A a : a \notin Left /\ \A v : v \notin held \ held'
        OBVIOUS
  <2> HIDE DEF Left
  <2> QED BY <1>1, <2>1, TransactionsStay
<1> QED BY <1>2 DEF WillDo

-----------------------------------------------------------------------------
(* The transcriptions.                                                     *)

\* One job moves on, and writes its own row.
LEMMA HearingMoves ==
  ASSUME IInv, NEW h \in Hearings, NEW new \in Hearing, hearing[h] # None,
         hearing' = [hearing EXCEPT ![h] = new],
         new.byRun = hearing[h].byRun, new.version = hearing[h].version,
         new.left <= hearing[h].left, new.status # "PENDING", new.left < Tries,
         Active(new.status) => Active(hearing[h].status) \/ new.left + 1 < Tries,
         row' \in [Rows -> Row], \A r \in Rows : row'[r].version = row[r].version,
         UNCHANGED <<held, may, cutVars>>
  PROVE  IInv'
<1>1. /\ hearing' \in [Hearings -> Hearing \cup {None}] /\ hearing'[h] = new
      /\ \A g \in Hearings \ {h} : hearing'[g] = hearing[g]
      BY Typed
<1>2. RoughCutsTypeOK'
      BY <1>1 DEF IInv, RoughCutsTypeOK, TranscriptionTypeOK, cutVars
<1>3. RowsNamed'
      BY <1>1 DEF IInv, RowsNamed, cutVars
<1>4. \A g \in Hearings, v \in Versions : Waited(g, v)' => Waited(g, v)
  <2> SUFFICES ASSUME NEW g \in Hearings, NEW v \in Versions, Waited(g, v)' PROVE Waited(g, v)
      OBVIOUS
  <2>1. CASE g = h
    <3>1. hearing[h].left \in 0..Tries /\ new.left \in 0..Tries
          BY Typed DEF Hearing
    <3>2. hearing[h].left \in Nat /\ new.left \in Nat
          BY <3>1
    <3> QED BY <1>1, <2>1, <3>2 DEF Waited
  <2>2. CASE g # h
        BY <1>1, <2>2 DEF Waited
  <2> QED BY <2>1, <2>2
<1>5. Transactions' /\ \A a \in Assemblies, c \in Cuts : WillDo(a, c)' <=> WillDo(a, c)
      BY <1>4, NoRunTouched DEF cutVars
<1>6. CarriedHasRun'
      BY <1>5 DEF IInv, CarriedHasRun, Carried, cutVars
<1> QED BY <1>2, <1>3, <1>5, <1>6 DEF IInv

\* What is written to a row but its version.
LEMMA RowWritten ==
  ASSUME IInv, NEW r \in Rows, NEW new \in Row, new.version = row[r].version,
         row' = [row EXCEPT ![r] = new]
  PROVE  row' \in [Rows -> Row] /\ \A s \in Rows : row'[s].version = row[s].version
<1>1. row \in [Rows -> Row] /\ row[r] \in Row
      BY Typed
<1> QED BY <1>1

LEMMA HearingSteps ==
  ASSUME IInv, NEW h \in Hearings, HearingStep(h) \/ LoseHearing(h), UNCHANGED cutVars
  PROVE  IInv'
<1> DEFINE j == hearing[h]
           r == hearing[h].row
<1>0. /\ j # None /\ j \in Hearing /\ j.left \in 0..Tries /\ r \in Rows /\ row[r] \in Row
      /\ row \in [Rows -> Row] /\ hearing \in [Hearings -> Hearing \cup {None}]
      /\ UNCHANGED <<held, may>>
  <2>1. j # None /\ UNCHANGED <<held, may>>
        BY DEF HearingStep, BeginHearing, StoreHeard, ClearSegments, InsertSegment, FinishHearing,
               FailHearing, LoseHearing, Hears
  <2> QED BY <2>1, Typed DEF Hearing
<1>1. j.status # "PENDING" => j.left < Tries
      BY <1>0 DEF IInv, RowsNamed
<1>2. CASE BeginHearing(h)
  <2> DEFINE new == [j EXCEPT !.status = "RUNNING", !.at = "hearing", !.left = j.left - 1]
  <2>1. /\ j.left > 0 /\ hearing' = [hearing EXCEPT ![h] = new]
        /\ j.status \in {"PENDING", "RUNNING", "FAILED"}
        BY <1>0, <1>2 DEF BeginHearing, Deliverable
  <2>2. /\ new \in Hearing /\ new.byRun = j.byRun /\ new.version = j.version /\ new.left = j.left - 1
        /\ new.status = "RUNNING"
    <3>1. j.left - 1 \in 0..Tries
          BY <1>0, <2>1
    <3> QED BY <1>0, <3>1 DEF Hearing
  <2>3. /\ row' = [row EXCEPT ![r] = [row[r] EXCEPT !.status = "RUNNING"]]
        /\ [row[r] EXCEPT !.status = "RUNNING"] \in Row
        BY <1>0, <1>2 DEF BeginHearing, Row
  <2>4. row' \in [Rows -> Row] /\ \A s \in Rows : row'[s].version = row[s].version
    <3>1. [row[r] EXCEPT !.status = "RUNNING"].version = row[r].version
          BY <1>0 DEF Row
    <3> QED BY <1>0, <2>3, <3>1, RowWritten
  <2>5. Active(new.status) => Active(j.status) \/ new.left + 1 < Tries
        BY <1>0, <1>1, <2>1, <2>2 DEF Active
  <2>6. new.left <= j.left /\ new.left < Tries
        BY <1>0, <2>1, <2>2
  <2> HIDE DEF new
  <2> QED BY <1>0, <2>1, <2>2, <2>4, <2>5, <2>6, HearingMoves
<1>3. CASE ~BeginHearing(h)
  <2>1. /\ j.status = "RUNNING" /\ j.left < Tries
        BY <1>1, <1>3 DEF HearingStep, StoreHeard, ClearSegments, InsertSegment, FinishHearing,
                     FailHearing, LoseHearing, Hears
  <2> DEFINE Set(status, at, n) == [j EXCEPT !.status = status, !.at = at, !.inserted = n]
             Moved(status, at, n) == hearing' = [hearing EXCEPT ![h] = Set(status, at, n)]
  <2>0. 0 \in 0..Lines
        OBVIOUS
  <2>2. PICK status \in {"RUNNING", "SUCCEEDED", "FAILED"},
             at \in {"lost", "hearing", "ready", "inserting"}, n \in 0..Lines : Moved(status, at, n)
    <3>1. j = [j EXCEPT !.status = "RUNNING"] /\ j = [j EXCEPT !.inserted = j.inserted]
          /\ j.inserted \in 0..Lines
          BY <1>0, <2>1 DEF Hearing
    <3>2. CASE StoreHeard(h)
      <4>1. hearing' = [hearing EXCEPT ![h] = [j EXCEPT !.at = "ready"]]
            BY <3>2 DEF StoreHeard
      <4>2. [j EXCEPT !.at = "ready"] = Set("RUNNING", "ready", j.inserted)
            BY <1>0, <2>1 DEF Hearing
      <4>3. Moved("RUNNING", "ready", j.inserted)
            BY <4>1, <4>2
      <4> HIDE DEF Moved
      <4> QED BY <3>1, <4>3
    <3>3. CASE ClearSegments(h)
      <4>1. hearing' = [hearing EXCEPT ![h] = [j EXCEPT !.at = "inserting", !.inserted = 0]]
            BY <1>0, <3>3 DEF ClearSegments
      <4>2. [j EXCEPT !.at = "inserting", !.inserted = 0] = Set("RUNNING", "inserting", 0)
            BY <1>0, <2>1 DEF Hearing
      <4>3. Moved("RUNNING", "inserting", 0)
            BY <4>1, <4>2
      <4> HIDE DEF Moved
      <4> QED BY <2>0, <4>3
    <3>4. CASE InsertSegment(h)
      <4>1. /\ hearing' = [hearing EXCEPT ![h] = [j EXCEPT !.inserted = j.inserted + 1]]
            /\ j.inserted + 1 \in 0..Lines /\ j.at = "inserting"
            BY <3>1, <3>4 DEF InsertSegment, Hears
      <4>2. [j EXCEPT !.inserted = j.inserted + 1] = Set("RUNNING", "inserting", j.inserted + 1)
            BY <1>0, <2>1, <4>1 DEF Hearing
      <4>3. Moved("RUNNING", "inserting", j.inserted + 1)
            BY <4>1, <4>2
      <4> HIDE DEF Moved
      <4> QED BY <4>1, <4>3
    <3>5. CASE FinishHearing(h)
      <4>1. Moved("SUCCEEDED", "lost", 0)
            BY <1>0, <3>5 DEF FinishHearing
      <4> HIDE DEF Moved
      <4> QED BY <2>0, <4>1
    <3>6. CASE FailHearing(h)
      <4>1. Moved("FAILED", "lost", 0)
            BY <1>0, <3>6 DEF FailHearing
      <4> HIDE DEF Moved
      <4> QED BY <2>0, <4>1
    <3>7. CASE LoseHearing(h)
      <4>1. hearing' = [hearing EXCEPT ![h] = [j EXCEPT !.at = "lost", !.inserted = 0]]
            BY <1>0, <3>7 DEF LoseHearing
      <4>2. [j EXCEPT !.at = "lost", !.inserted = 0] = Set("RUNNING", "lost", 0)
            BY <1>0, <2>1 DEF Hearing
      <4>3. Moved("RUNNING", "lost", 0)
            BY <4>1, <4>2
      <4> HIDE DEF Moved
      <4> QED BY <2>0, <4>3
    <3> QED BY <1>3, <3>2, <3>3, <3>4, <3>5, <3>6, <3>7 DEF HearingStep
  <2> DEFINE new == [j EXCEPT !.status = status, !.at = at, !.inserted = n]
  <2>3. /\ new \in Hearing /\ new.byRun = j.byRun /\ new.version = j.version /\ new.left = j.left
        /\ new.status # "PENDING"
        BY <1>0 DEF Hearing
  <2>4. row' \in [Rows -> Row] /\ \A s \in Rows : row'[s].version = row[s].version
    <3>0. row[r].segments + 1 \in Nat
          BY <1>0 DEF Row
    <3>1. CASE UNCHANGED row
          BY <1>0, <3>1
    <3>2. CASE StoreHeard(h)
      <4> DEFINE text == [row[r] EXCEPT !.lang = "en", !.status = "READY"]
      <4>1. row' = [row EXCEPT ![r] = text]
            BY <1>0, <3>2 DEF StoreHeard
      <4>2. text \in Row /\ text.version = row[r].version
            BY <1>0 DEF Row, Langs
      <4> HIDE DEF text
      <4> QED BY <1>0, <4>1, <4>2, RowWritten
    <3>3. ASSUME NEW k \in Nat, row' = [row EXCEPT ![r].segments = k]
          PROVE  row' \in [Rows -> Row] /\ \A s \in Rows : row'[s].version = row[s].version
      <4> DEFINE text == [row[r] EXCEPT !.segments = k]
      <4>1. row' = [row EXCEPT ![r] = text]
            BY <1>0, <3>3
      <4>2. text \in Row /\ text.version = row[r].version
            BY <1>0 DEF Row
      <4> HIDE DEF text
      <4> QED BY <1>0, <4>1, <4>2, RowWritten
    <3>4. CASE FailHearing(h)
      <4> DEFINE text == [row[r] EXCEPT !.status = "FAILED"]
      <4>1. row' = [row EXCEPT ![r] = text]
            BY <1>0, <3>4 DEF FailHearing
      <4>2. text \in Row /\ text.version = row[r].version
            BY <1>0 DEF Row
      <4> HIDE DEF text
      <4> QED BY <1>0, <4>1, <4>2, RowWritten
    <3> QED BY <1>3, <3>0, <3>1, <3>2, <3>3, <3>4
        DEF HearingStep, ClearSegments, InsertSegment, FinishHearing, LoseHearing
  <2>5. Active(j.status) /\ new.left <= j.left
        BY <1>0, <2>1, <2>3 DEF Active
  <2> HIDE DEF new
  <2>6. hearing' = [hearing EXCEPT ![h] = new]
        BY <2>2 DEF new
  <2> QED BY <1>0, <2>1, <2>3, <2>4, <2>5, <2>6, HearingMoves
<1> QED BY <1>2, <1>3

-----------------------------------------------------------------------------
(* The requests, and what deletes or ages a cut.                           *)

\* A step of the transcripts or of a request that no run takes part in.
LEMMA NoRunMoves ==
  ASSUME IInv, UNCHANGED <<assembly, held, may, render>>,
         row' \in [Rows -> Row], hearing' \in [Hearings -> Hearing \cup {None}],
         cut' \in [Cuts -> CutType], request' \in [Cuts -> Request], RowsNamed',
         \A g \in Hearings, v \in Versions : Waited(g, v)' => Waited(g, v),
         \A c \in Cuts : Carried(c)' => Carried(c)
  PROVE  IInv'
<1>1. RoughCutsTypeOK'
      BY DEF IInv, RoughCutsTypeOK, TranscriptionTypeOK, CutType
<1>2. Transactions' /\ \A a \in Assemblies, c \in Cuts : WillDo(a, c)' <=> WillDo(a, c)
      BY NoRunTouched
<1>3. CarriedHasRun'
      BY <1>2 DEF IInv, CarriedHasRun
<1> QED BY <1>1, <1>2, <1>3 DEF IInv

\* The upsert of a row, to PENDING or with what was uploaded.
LEMMA RowUpserted ==
  ASSUME IInv, NEW v \in Versions, NEW r \in Rows
  PROVE  /\ Requested(v, r) \in [Rows -> Row] /\ Requested(v, r)[r].version = v
         /\ \A s \in Rows \ {r} : Requested(v, r)[s] = row[s]
<1>1. row \in [Rows -> Row] /\ row[r] \in Row
      BY Typed
<1> DEFINE new == [row[r] EXCEPT !.version = v, !.lang = "und", !.status = "PENDING"]
<1>2. Requested(v, r) = [row EXCEPT ![r] = new]
      BY <1>1 DEF Requested
<1>3. new \in Row /\ new.version = v
      BY <1>1 DEF Row, Langs
<1> HIDE DEF new
<1> QED BY <1>1, <1>2, <1>3

LEMMA QueuedTyped ==
  ASSUME NEW v \in Versions, NEW r \in Rows, NEW byRun \in BOOLEAN
  PROVE  /\ Queued(v, r, byRun) \in Hearing /\ Queued(v, r, byRun).status = "PENDING"
         /\ Queued(v, r, byRun).version = v /\ Queued(v, r, byRun).byRun = byRun
<1>1. Tries \in 0..Tries /\ 0 \in 0..Lines
      OBVIOUS
<1> QED BY <1>1 DEF Queued, Hearing

LEMMA UploadStep ==
  ASSUME IInv, NEW v \in Versions, NEW r \in Rows, UploadTranscript(v, r), UNCHANGED cutVars
  PROVE  IInv'
<1> DEFINE new == [version |-> v, lang |-> "en", status |-> "READY", segments |-> Lines]
<1>1. new \in Row /\ new.version = v
      BY DEF Row, Langs
<1>2. row' = [row EXCEPT ![r] = new] /\ UNCHANGED <<hearing, held, may>>
      BY DEF UploadTranscript
<1> HIDE DEF new
<1>3. row' \in [Rows -> Row] /\ \A s \in Rows : row'[s].version \in {row[s].version, v}
      BY <1>1, <1>2, Typed
<1>4. RowsNamed'
      BY <1>2, <1>3 DEF IInv, RowsNamed, cutVars
<1> QED BY <1>2, <1>3, <1>4, Typed, NoRunMoves DEF Waited, Carried, cutVars

LEMMA StartRowStep ==
  ASSUME IInv, NEW c \in Cuts, NEW v \in Versions, NEW r \in Rows, StartRow(c, v, r)
  PROVE  IInv'
<1> DEFINE new == [request[c] EXCEPT !.at = "upserted", !.row = r]
<1>1. /\ request \in [Cuts -> Request] /\ request[c] \in Request
      BY Typed
<1>2. new \in Request /\ new.row = r
      BY <1>1 DEF Request
<1>3. /\ request' = [request EXCEPT ![c] = new] /\ row' = Requested(v, r)
      /\ UNCHANGED <<may, hearing, held, cut, assembly, render>>
      BY <1>1 DEF StartRow
<1> HIDE DEF new
<1>4. request' \in [Cuts -> Request] /\ request'[c] = new /\ \A d \in Cuts \ {c} : request'[d] = request[d]
      BY <1>1, <1>2, <1>3
<1>5. row' \in [Rows -> Row] /\ row'[r].version = v /\ \A s \in Rows \ {r} : row'[s] = row[s]
      BY <1>3, RowUpserted
<1>6. RowsNamed'
      BY <1>2, <1>3, <1>4, <1>5 DEF IInv, RowsNamed
<1> QED BY <1>3, <1>4, <1>5, <1>6, Typed, NoRunMoves DEF Waited, Carried

LEMMA StartJobStep ==
  ASSUME IInv, NEW c \in Cuts, NEW h \in Hearings, StartJob(c, h)
  PROVE  IInv'
<1> DEFINE v == row[request[c].row].version
           new == [at |-> "admitted", row |-> None, need |-> request[c].need \ {v}]
           job == Queued(v, request[c].row, FALSE)
<1>1. /\ request \in [Cuts -> Request] /\ request[c] \in Request
      /\ hearing \in [Hearings -> Hearing \cup {None}]
      BY Typed
<1>2. /\ request[c].row \in Rows /\ v \in Versions
      BY DEF StartJob, IInv, RowsNamed
<1>3. new \in Request /\ new.at = "admitted"
      BY <1>1 DEF Request
<1>4. /\ job \in Hearing /\ job.status = "PENDING" /\ ~job.byRun
      BY <1>2, QueuedTyped
<1>5. /\ request' = [request EXCEPT ![c] = new] /\ hearing' = [hearing EXCEPT ![h] = job]
      /\ UNCHANGED <<may, row, held, cut, assembly, render>>
      BY <1>1 DEF StartJob
<1> HIDE DEF new, job, v
<1>6. /\ request' \in [Cuts -> Request] /\ request'[c] = new
      /\ \A d \in Cuts \ {c} : request'[d] = request[d]
      BY <1>1, <1>3, <1>5
<1>7. /\ hearing' \in [Hearings -> Hearing \cup {None}] /\ hearing'[h] = job
      /\ \A g \in Hearings \ {h} : hearing'[g] = hearing[g]
      BY <1>1, <1>4, <1>5
<1>8. RowsNamed'
      BY <1>3, <1>4, <1>5, <1>6, <1>7 DEF IInv, RowsNamed
<1>9. \A g \in Hearings, w \in Versions : Waited(g, w)' => Waited(g, w)
      BY <1>4, <1>7 DEF Waited
<1> QED BY <1>5, <1>6, <1>7, <1>8, <1>9, Typed, NoRunMoves DEF Carried

\* What a request, a deletion or the time writes besides.
LEMMA RequestMoves ==
  ASSUME IInv, NEW c \in Cuts, NEW asked \in Request, NEW new \in CutType,
         asked.at = "upserted" => asked = request[c],
         new.status = "RUNNING" => cut[c].status = "RUNNING" /\ new.stranded = cut[c].stranded,
         request' = [request EXCEPT ![c] = asked], cut' = [cut EXCEPT ![c] = new],
         UNCHANGED <<transcriptVars, assembly, render>>
  PROVE  IInv'
<1>1. /\ request' \in [Cuts -> Request] /\ request'[c] = asked
      /\ \A d \in Cuts \ {c} : request'[d] = request[d]
      BY Typed
<1>2. /\ cut' \in [Cuts -> CutType] /\ cut'[c] = new /\ \A d \in Cuts \ {c} : cut'[d] = cut[d]
      BY Typed
<1>3. UNCHANGED <<row, hearing, held, may, assembly, render>>
      BY DEF transcriptVars
<1>4. RowsNamed'
      BY <1>1, <1>3 DEF IInv, RowsNamed
<1>5. \A g \in Hearings, w \in Versions : Waited(g, w)' => Waited(g, w)
      BY <1>3 DEF Waited
<1>6. \A d \in Cuts : Carried(d)' => Carried(d)
      BY <1>2 DEF Carried
<1> QED BY <1>1, <1>2, <1>3, <1>4, <1>5, <1>6, Typed, NoRunMoves

LEMMA RequestSteps ==
  ASSUME IInv, NEW c \in Cuts,
         RequestCut(c) \/ CreateCut(c) \/ AbandonRequest(c) \/ DeleteCut(c) \/ GrowOld(c)
  PROVE  IInv'
<1>0. /\ request \in [Cuts -> Request] /\ request[c] \in Request
      /\ cut \in [Cuts -> CutType] /\ cut[c] \in CutType
      /\ request = [request EXCEPT ![c] = request[c]] /\ cut = [cut EXCEPT ![c] = cut[c]]
      BY Typed
<1>1. CASE RequestCut(c)
  <2> DEFINE need == {v \in {Slots[i][1] : i \in DOMAIN Slots} : "route" \in may /\ NeedsTranscript(v)}
             asked == [at |-> "admitted", row |-> None, need |-> need]
  <2>1. need \subseteq Versions
    <3>1. \A i \in DOMAIN Slots : Slots[i] \in Seq(Versions) \ {<<>>}
          BY SlotsAssumption
    <3>2. \A s \in Seq(Versions) \ {<<>>} : s[1] \in Versions
          OBVIOUS
    <3> QED BY <3>1, <3>2
  <2>2. request' = [request EXCEPT ![c] = asked] /\ UNCHANGED <<transcriptVars, cut, assembly, render>>
        BY <1>1 DEF RequestCut
  <2> HIDE DEF need
  <2>3. asked \in Request /\ asked.at = "admitted"
        BY <2>1 DEF Request
  <2> HIDE DEF asked
  <2> QED BY <1>0, <2>2, <2>3, RequestMoves
<1>2. CASE CreateCut(c)
  <2> DEFINE asked == [request[c] EXCEPT !.at = "created"]
             new == [cut[c] EXCEPT !.status = "PENDING"]
  <2>1. /\ request' = [request EXCEPT ![c] = asked] /\ cut' = [cut EXCEPT ![c] = new]
        /\ UNCHANGED <<transcriptVars, assembly, render>>
        BY <1>0, <1>2 DEF CreateCut
  <2>2. asked \in Request /\ asked.at = "created" /\ new \in CutType /\ new.status = "PENDING"
        BY <1>0 DEF Request, CutType
  <2> HIDE DEF asked, new
  <2> QED BY <1>0, <2>1, <2>2, RequestMoves
<1>3. CASE AbandonRequest(c)
  <2>1. NoRequest \in Request /\ NoRequest.at = "idle"
        BY DEF NoRequest, Request
  <2> QED BY <1>0, <1>3, <2>1, RequestMoves DEF AbandonRequest
<1>4. CASE DeleteCut(c)
  <2> DEFINE new == [cut[c] EXCEPT !.status = "gone"]
  <2>1. /\ cut' = [cut EXCEPT ![c] = new] /\ UNCHANGED <<transcriptVars, request, assembly, render>>
        BY <1>0, <1>4 DEF DeleteCut
  <2>2. new \in CutType /\ new.status = "gone"
        BY <1>0 DEF CutType
  <2> HIDE DEF new
  <2> QED BY <1>0, <2>1, <2>2, RequestMoves
<1>5. CASE GrowOld(c)
  <2> DEFINE new == [cut[c] EXCEPT !.old = TRUE]
  <2>1. /\ cut' = [cut EXCEPT ![c] = new] /\ UNCHANGED <<transcriptVars, request, assembly, render>>
        BY <1>0, <1>5 DEF GrowOld
  <2>2. new \in CutType /\ new.status = cut[c].status /\ new.stranded = cut[c].stranded
        BY <1>0 DEF CutType
  <2> HIDE DEF new
  <2> QED BY <1>0, <2>1, <2>2, RequestMoves
<1> QED BY <1>1, <1>2, <1>3, <1>4, <1>5

-----------------------------------------------------------------------------
(* The assemblies.                                                         *)

LEMMA RunsTyped ==
  ASSUME NEW c \in Cuts
  PROVE  /\ QueuedAssembly(c) \in Assembly /\ QueuedAssembly(c).cut = c
         /\ QueuedAssembly(c).status = "PENDING" /\ QueuedAssembly(c).at = "lost"
<1>1. Tries \in 0..Tries /\ <<>> \in Seq(Decisions)
      OBVIOUS
<1> QED BY <1>1 DEF QueuedAssembly, Assembly

\* A run that begins, starts afresh or has nothing left to do.
Afresh(c, status, at, left) ==
  [QueuedAssembly(c) EXCEPT !.status = status, !.at = at, !.left = left]

LEMMA AfreshTyped ==
  ASSUME NEW c \in Cuts, NEW status \in {"PENDING", "RUNNING", "FAILED"},
         NEW at \in {"lost", "start", "done"}, NEW left \in 0..Tries
  PROVE  /\ Afresh(c, status, at, left) \in Assembly /\ Afresh(c, status, at, left).cut = c
         /\ Afresh(c, status, at, left).status = status /\ Afresh(c, status, at, left).at = at
         /\ Afresh(c, status, at, left).left = left
<1> QueuedAssembly(c) \in Assembly /\ QueuedAssembly(c).cut = c
    BY RunsTyped
<1> QED BY DEF Afresh, Assembly

\* What a step shows of one run; it may end a transaction, but opens none.
LEMMA RunMoves ==
  ASSUME IInv, NEW a \in Assemblies, NEW new \in Assembly \cup {None},
         assembly' = [assembly EXCEPT ![a] = new],
         new # None => new.at \notin {"upserted", "checked"},
         held' = IF InTransaction(a) THEN held \ {Missing(a)} ELSE held,
         UNCHANGED <<row, hearing, may>>,
         request' \in [Cuts -> Request],
         \A c \in Cuts : request'[c].at = "upserted" => request'[c] = request[c],
         render' \in [Renders -> Render \cup {None}], cut' \in [Cuts -> CutType],
         \A c \in Cuts : Carried(c)' => WillDo(a, c)' \/ (Carried(c) /\ ~WillDo(a, c))
  PROVE  IInv'
<1>1. /\ assembly' \in [Assemblies -> Assembly \cup {None}] /\ assembly'[a] = new
      /\ \A b \in Assemblies \ {a} : assembly'[b] = assembly[b]
      BY Typed
<1>2. RoughCutsTypeOK'
      BY <1>1, Typed DEF RoughCutsTypeOK, TranscriptionTypeOK, CutType
<1>3. RowsNamed'
      BY DEF IInv, RowsNamed
<1>4. Transactions'
  <2> DEFINE Left == IF InTransaction(a) THEN {a} ELSE {}
  <2>1. Left \in SUBSET Assemblies
        OBVIOUS
  <2>2. \A b \in Assemblies : InTransaction(b)' =>
          b \notin Left /\ InTransaction(b) /\ assembly'[b] = assembly[b]
        BY <1>1 DEF InTransaction
  <2>3. \A v \in held \ held' : \E b \in Left : InTransaction(b) /\ v = Missing(b)
        OBVIOUS
  <2>4. \A g \in Hearings, v \in Versions : Waited(g, v)' =>
          Waited(g, v) \/ \E b \in Left : InTransaction(b) /\ v = Missing(b)
        BY DEF Waited
  <2> HIDE DEF Left
  <2> QED BY <2>1, <2>2, <2>3, <2>4, TransactionsStay
<1>5. CarriedHasRun'
  <2> SUFFICES ASSUME NEW c \in Cuts, Carried(c)' PROVE \E b \in Assemblies : WillDo(b, c)'
      BY DEF CarriedHasRun
  <2>1. CASE Carried(c) /\ ~WillDo(a, c)
    <3>1. PICK b \in Assemblies : WillDo(b, c)
          BY <2>1 DEF IInv, CarriedHasRun
    <3>2. b # a /\ assembly'[b] = assembly[b]
          BY <1>1, <2>1, <3>1
    <3> QED BY <3>1, <3>2 DEF WillDo
  <2> QED BY <2>1
<1> QED BY <1>2, <1>3, <1>4, <1>5 DEF IInv

\* A run stays with its cut, and leaves everything else alone.
LEMMA RunGoesOn ==
  ASSUME IInv, NEW a \in Assemblies, NEW new \in Assembly, NEW at, Running(a, at),
         at \notin {"upserted", "checked", "ready", "done"},
         assembly' = [assembly EXCEPT ![a] = new],
         new.at \notin {"upserted", "checked", "ready", "done"},
         new.cut = assembly[a].cut, new.status = "RUNNING",
         UNCHANGED <<transcriptVars, cut, request, render>>
  PROVE  IInv'
<1>1. ~InTransaction(a) /\ UNCHANGED <<row, hearing, may, held>>
      BY DEF InTransaction, Running, transcriptVars
<1>2. assembly'[a] = new /\ new # None
      BY Typed
<1>3. \A c \in Cuts : (WillDo(a, c) => WillDo(a, c)') /\ (Carried(c)' => Carried(c))
      BY <1>2 DEF WillDo, Running, Carried
<1> QED BY <1>1, <1>2, <1>3, Typed, RunMoves

LEMMA SetCutTyped ==
  ASSUME IInv, NEW c \in Cuts, NEW status \in {"PENDING", "RUNNING", "READY", "FAILED"}, SetCut(c, status)
  PROVE  /\ cut' \in [Cuts -> CutType] /\ \A d \in Cuts \ {c} : cut'[d] = cut[d]
         /\ cut'[c].status \in {status, "gone"}
<1>1. cut \in [Cuts -> CutType] /\ cut[c] \in CutType
      BY Typed
<1> DEFINE new == [cut[c] EXCEPT !.status = status, !.stranded = FALSE]
<1>2. new \in CutType /\ new.status = status
      BY <1>1 DEF CutType
<1>3. (cut' = cut /\ cut[c].status = "gone") \/ cut' = [cut EXCEPT ![c] = new]
      BY <1>1 DEF SetCut
<1> HIDE DEF new
<1> QED BY <1>1, <1>2, <1>3

LEMMA EnqueueStep ==
  ASSUME IInv, NEW c \in Cuts, NEW a \in Assemblies, EnqueueAssembly(c, a)
  PROVE  IInv'
<1>1. /\ assembly[a] = None /\ assembly' = [assembly EXCEPT ![a] = QueuedAssembly(c)]
      /\ request' = [request EXCEPT ![c] = NoRequest]
      /\ UNCHANGED <<row, hearing, held, may, cut, render>>
      BY DEF EnqueueAssembly, NewAssembly, Oldest, transcriptVars
<1>2. NoRequest \in Request /\ NoRequest.at = "idle"
      BY DEF NoRequest, Request
<1>3. /\ request' \in [Cuts -> Request]
      /\ \A d \in Cuts : request'[d].at = "upserted" => request'[d] = request[d]
      BY <1>1, <1>2, Typed
<1>4. ~InTransaction(a) /\ \A d \in Cuts : ~WillDo(a, d)
      BY <1>1 DEF InTransaction, WillDo
<1>5. QueuedAssembly(c) \in Assembly /\ QueuedAssembly(c).at = "lost"
      BY RunsTyped
<1> QED BY <1>1, <1>3, <1>4, <1>5, Typed, RunMoves DEF Carried

LEMMA BeginStep ==
  ASSUME IInv, NEW a \in Assemblies, BeginAssembly(a)
  PROVE  IInv'
<1> DEFINE c == assembly[a].cut
           new == Afresh(c, "RUNNING", "start", assembly[a].left - 1)
<1>1. /\ assembly[a] # None /\ assembly[a] \in Assembly /\ c \in Cuts /\ assembly[a].left \in 0..Tries
      /\ assembly[a].left > 0
      BY Typed DEF BeginAssembly, Deliverable, Assembly
<1>2. assembly[a].left - 1 \in 0..Tries
      BY <1>1
<1>3. new \in Assembly /\ new.cut = c /\ new.status = "RUNNING" /\ new.at = "start"
      BY <1>1, <1>2, AfreshTyped
<1>4. /\ SetCut(c, "RUNNING") /\ assembly' = [assembly EXCEPT ![a] = new]
      /\ UNCHANGED <<row, hearing, held, may, request, render>>
      BY DEF BeginAssembly, transcriptVars, Afresh
<1>5. /\ cut' \in [Cuts -> CutType] /\ \A d \in Cuts \ {c} : cut'[d] = cut[d]
      BY <1>1, <1>4, SetCutTyped
<1>6. ~InTransaction(a)
  <2>1. assembly[a].status \in {"PENDING", "FAILED"} \/ assembly[a].at = "lost"
        BY DEF BeginAssembly, Deliverable
  <2> QED BY <1>1, <2>1 DEF IInv, Transactions, InTransaction
<1> HIDE DEF new
<1>7. assembly'[a] = new /\ new # None
      BY <1>3, <1>4, Typed
<1>8. WillDo(a, c)' /\ \A d \in Cuts \ {c} : ~WillDo(a, d)
      BY <1>3, <1>7 DEF WillDo
<1> QED BY <1>3, <1>4, <1>5, <1>6, <1>7, <1>8, Typed, RunMoves DEF Carried

LEMMA PlanTyped ==
  ASSUME NEW old \in BOOLEAN
  PROVE  [i \in DOMAIN Slots |-> Decide(Slots[i], old)] \in Seq(Decisions)
<1>1. \A slot : Decide(slot, old) \in Decisions
  <2> TAKE slot
  <2>1. CASE \E r \in Rows : ReadySource(slot, r)
    <3>1. (CHOOSE r \in Rows : ReadySource(slot, r)) \in Rows
          BY <2>1
    <3>2. Decide(slot, old) = Use(CHOOSE r \in Rows : ReadySource(slot, r))
          BY <2>1 DEF Decide
    <3> QED BY <3>1, <3>2 DEF Decisions
  <2>2. CASE ~\E r \in Rows : ReadySource(slot, r)
        BY <2>2 DEF Decide, Decisions
  <2> QED BY <2>1, <2>2
<1> DEFINE plan == [i \in DOMAIN Slots |-> Decide(Slots[i], old)]
<1>2. Slots \in Seq(Seq(Versions) \ {<<>>})
      BY SlotsAssumption
<1>3. DOMAIN Slots = 1..Len(Slots) /\ Len(Slots) \in Nat
      BY <1>2
<1> QED BY <1>1, <1>3

LEMMA LoadStep ==
  ASSUME IInv, NEW a \in Assemblies, LoadRows(a)
  PROVE  IInv'
<1> DEFINE plan == [i \in DOMAIN Slots |-> Decide(Slots[i], cut[assembly[a].cut].old)]
           new == [assembly[a] EXCEPT !.at = "deciding", !.plan = plan]
<1>1. /\ Running(a, "start") /\ assembly[a] \in Assembly
      BY Typed DEF LoadRows, Running
<1>2. plan \in Seq(Decisions)
  <2>1. cut[assembly[a].cut].old \in BOOLEAN
        BY <1>1, Typed DEF Assembly, CutType
  <2> QED BY <2>1, PlanTyped
<1>3. /\ assembly' = [assembly EXCEPT ![a] = new] /\ UNCHANGED <<transcriptVars, cut, request, render>>
      BY Typed DEF LoadRows
<1> HIDE DEF plan
<1>4. new \in Assembly /\ new.at = "deciding" /\ new.cut = assembly[a].cut /\ new.status = "RUNNING"
      BY <1>1, <1>2 DEF Assembly, Running
<1> HIDE DEF new
<1> QED BY <1>1, <1>3, <1>4, RunGoesOn

\* A run looks at its next slot, or begins to read.
LEMMA SlotSteps ==
  ASSUME IInv, NEW a \in Assemblies, PassSlot(a) \/ StartReading(a) \/ ReadSlot(a) \/ Build(a)
  PROVE  IInv'
<1> DEFINE j == assembly[a]
<1>1. /\ j # None /\ j \in Assembly /\ j.status = "RUNNING" /\ j.next \in Nat /\ j.waits \in BOOLEAN
      /\ UNCHANGED <<transcriptVars, cut, request, render>>
      BY Typed DEF PassSlot, StartReading, ReadSlot, Build, Running, Assembly
<1>2. PICK at \in {"deciding", "reading"} : Running(a, at)
      BY DEF PassSlot, StartReading, ReadSlot, Build
<1>3. CASE PassSlot(a)
  <2> DEFINE new == [j EXCEPT !.next = j.next + 1, !.waits = j.waits \/ Decision(a).kind = "wait"]
  <2>1. assembly' = [assembly EXCEPT ![a] = new]
        BY <1>3, Typed DEF PassSlot
  <2>2. (j.waits \/ Decision(a).kind = "wait") \in BOOLEAN /\ j.next + 1 \in Nat
        BY <1>1
  <2>3. new \in Assembly /\ new.at = j.at /\ new.cut = j.cut /\ new.status = "RUNNING"
        BY <1>1, <2>2 DEF Assembly
  <2> HIDE DEF new
  <2> QED BY <1>1, <1>2, <2>1, <2>3, RunGoesOn DEF Running
<1>4. CASE StartReading(a)
  <2> DEFINE new == [j EXCEPT !.at = "reading", !.next = 1]
  <2>1. assembly' = [assembly EXCEPT ![a] = new]
        BY <1>4, Typed DEF StartReading
  <2>2. new \in Assembly /\ new.at = "reading" /\ new.cut = j.cut /\ new.status = "RUNNING"
        BY <1>1 DEF Assembly
  <2> HIDE DEF new
  <2> QED BY <1>1, <1>2, <2>1, <2>2, RunGoesOn
<1>5. CASE ReadSlot(a)
  <2> DEFINE new == [j EXCEPT !.next = j.next + 1]
  <2>1. assembly' = [assembly EXCEPT ![a] = new]
        BY <1>5, Typed DEF ReadSlot
  <2>2. new \in Assembly /\ new.at = j.at /\ new.cut = j.cut /\ new.status = "RUNNING"
        BY <1>1 DEF Assembly
  <2> HIDE DEF new
  <2> QED BY <1>1, <1>2, <2>1, <2>2, RunGoesOn DEF Running
<1>6. CASE Build(a)
  <2> DEFINE new == [j EXCEPT !.at = "building", !.plan = <<>>, !.next = 1]
  <2>1. assembly' = [assembly EXCEPT ![a] = new]
        BY <1>6, Typed DEF Build
  <2>2. <<>> \in Seq(Decisions)
        OBVIOUS
  <2>3. new \in Assembly /\ new.at = "building" /\ new.cut = j.cut /\ new.status = "RUNNING"
        BY <1>1, <2>2 DEF Assembly
  <2> HIDE DEF new
  <2> QED BY <1>1, <1>2, <2>1, <2>3, RunGoesOn
<1> QED BY <1>3, <1>4, <1>5, <1>6

\* The cut is READY; the render job, and the end of the run.
LEMMA EndSteps ==
  ASSUME IInv, NEW a \in Assemblies,
         SaveReady(a) \/ (\E m \in Renders : QueueRender(a, m)) \/ FinishAssembly(a)
  PROVE  IInv'
<1> DEFINE j == assembly[a]
           c == assembly[a].cut
<1>1. /\ j # None /\ j \in Assembly /\ j.status = "RUNNING" /\ c \in Cuts /\ j.left \in 0..Tries
      /\ ~InTransaction(a) /\ UNCHANGED <<row, hearing, held, may, request>>
      BY Typed DEF SaveReady, QueueRender, FinishAssembly, Running, Assembly, InTransaction,
                   transcriptVars
<1>2. CASE SaveReady(a)
  <2> DEFINE new == [j EXCEPT !.at = "ready"]
  <2>1. assembly' = [assembly EXCEPT ![a] = new] /\ SetCut(c, "READY") /\ UNCHANGED render
        BY <1>2, Typed DEF SaveReady
  <2>2. new \in Assembly /\ new.at = "ready"
        BY <1>1 DEF Assembly
  <2> HIDE DEF new
  <2>3. /\ cut' \in [Cuts -> CutType] /\ cut'[c].status # "RUNNING"
        /\ \A d \in Cuts \ {c} : cut'[d] = cut[d] /\ ~WillDo(a, d)
        BY <1>1, <2>1, SetCutTyped DEF WillDo
  <2> QED BY <1>1, <2>1, <2>2, <2>3, Typed, RunMoves DEF Carried
<1>3. ASSUME NEW m \in Renders, QueueRender(a, m)
      PROVE  IInv'
  <2>1. /\ assembly' = [assembly EXCEPT ![a] = Over(a)] /\ render' = [render EXCEPT ![m] = QueuedRender(c)]
        /\ UNCHANGED cut /\ \A d \in Cuts : ~WillDo(a, d)
        BY <1>3 DEF QueueRender, Running, WillDo
  <2>2. Over(a) = Afresh(c, "RUNNING", "done", j.left)
        BY DEF Over, Afresh
  <2>3. Over(a) \in Assembly /\ Over(a).at = "done"
        BY <1>1, <2>2, AfreshTyped
  <2>4. QueuedRender(c) \in Render
    <3>1. Tries \in 0..Tries
          OBVIOUS
    <3> QED BY <1>1, <3>1 DEF QueuedRender, Render
  <2>5. render' \in [Renders -> Render \cup {None}]
        BY <2>1, <2>4, Typed
  <2> QED BY <1>1, <2>1, <2>3, <2>5, Typed, RunMoves DEF Carried
<1>4. CASE FinishAssembly(a)
  <2>1. /\ assembly' = [assembly EXCEPT ![a] = None] /\ UNCHANGED <<cut, render>>
        /\ \A d \in Cuts : ~WillDo(a, d)
        BY <1>4 DEF FinishAssembly, Running, WillDo
  <2> QED BY <1>1, <2>1, Typed, RunMoves DEF Carried
<1> QED BY <1>2, <1>3, <1>4

LEMMA ReleasedIs ==
  ASSUME NEW a \in Assemblies, assembly[a] # None
  PROVE  Released(a) = IF InTransaction(a) THEN held \ {Missing(a)} ELSE held
  BY DEF Released, InTransaction, Missing

LEMMA UnfinishedTyped ==
  ASSUME NEW a \in Assemblies, assembly[a].cut \in Cuts,
         NEW status \in {"PENDING", "RUNNING", "FAILED"}, NEW left \in 0..Tries
  PROVE  /\ Unfinished(a, status, left) \in Assembly \cup {None}
         /\ Unfinished(a, status, left) # None =>
              Unfinished(a, status, left).at = "lost" /\ Unfinished(a, status, left).cut = assembly[a].cut
         /\ left # 0 => /\ Unfinished(a, status, left) # None
                        /\ Unfinished(a, status, left).status = status
                        /\ Unfinished(a, status, left).left = left
<1> DEFINE new == [QueuedAssembly(assembly[a].cut) EXCEPT !.status = status, !.left = left]
<1>1. /\ QueuedAssembly(assembly[a].cut) \in Assembly
      /\ QueuedAssembly(assembly[a].cut).at = "lost"
      /\ QueuedAssembly(assembly[a].cut).cut = assembly[a].cut
      BY RunsTyped
<1>2. /\ new \in Assembly /\ new.at = "lost" /\ new.cut = assembly[a].cut
      /\ new.status = status /\ new.left = left
      BY <1>1 DEF Assembly
<1>3. Unfinished(a, status, left) = IF left = 0 THEN None ELSE new
      BY DEF Unfinished
<1> HIDE DEF new
<1>4. new # None
      BY <1>2
<1> QED BY <1>2, <1>3, <1>4

\* A run ends badly, and its cut is FAILED.
LEMMA FailedMoves ==
  ASSUME IInv, NEW a \in Assemblies, assembly[a] # None, SetCut(assembly[a].cut, "FAILED"),
         NEW status \in {"PENDING", "RUNNING", "FAILED"}, NEW left \in 0..Tries,
         assembly' = [assembly EXCEPT ![a] = Unfinished(a, status, left)],
         held' = IF InTransaction(a) THEN held \ {Missing(a)} ELSE held,
         UNCHANGED <<row, hearing, may, request, render>>
  PROVE  IInv'
<1> DEFINE c == assembly[a].cut
           new == Unfinished(a, status, left)
<1>1. c \in Cuts
      BY Typed DEF Assembly
<1>2. new \in Assembly \cup {None} /\ (new # None => new.at = "lost")
      BY <1>1, UnfinishedTyped
<1> HIDE DEF new
<1>3. assembly' = [assembly EXCEPT ![a] = new]
      BY DEF new
<1>4. /\ cut' \in [Cuts -> CutType] /\ cut'[c].status # "RUNNING"
      /\ \A d \in Cuts \ {c} : cut'[d] = cut[d] /\ ~WillDo(a, d)
      BY <1>1, SetCutTyped DEF WillDo
<1> QED BY <1>1, <1>2, <1>3, <1>4, Typed, RunMoves DEF Carried

\* A run ends badly, and its cut stays as it was: it will be taken up again, or the cut is
\* stranded.
LEMMA LeftMoves ==
  ASSUME IInv, NEW a \in Assemblies, assembly[a] # None,
         NEW status \in {"PENDING", "RUNNING", "FAILED"}, NEW left \in 0..Tries, LeaveCut(a, left),
         assembly' = [assembly EXCEPT ![a] = Unfinished(a, status, left)],
         held' = IF InTransaction(a) THEN held \ {Missing(a)} ELSE held,
         UNCHANGED <<row, hearing, may, request, render>>
  PROVE  IInv'
<1> DEFINE c == assembly[a].cut
           given == left = 0 /\ assembly[a].at \notin {"ready", "done"}
           kept == [cut[c] EXCEPT !.stranded = cut[c].stranded \/ given]
           new == Unfinished(a, status, left)
<1>1. c \in Cuts
      BY Typed DEF Assembly
<1>2. /\ new \in Assembly \cup {None} /\ (new # None => new.at = "lost" /\ new.cut = c)
      /\ left # 0 => new # None /\ new.status = status /\ new.left = left
      BY <1>1, UnfinishedTyped
<1>3. /\ kept \in CutType /\ kept.status = cut[c].status
      /\ kept.stranded = (cut[c].stranded \/ given)
  <2>1. cut[c] \in CutType /\ given \in BOOLEAN
        BY <1>1, Typed
  <2> HIDE DEF given
  <2> QED BY <2>1 DEF CutType
<1>4. cut' = [cut EXCEPT ![c] = kept]
      BY <1>1, Typed DEF LeaveCut
<1> HIDE DEF new, kept
<1>5. assembly' = [assembly EXCEPT ![a] = new] /\ assembly'[a] = new
      BY Typed DEF new
<1>6. /\ cut' \in [Cuts -> CutType] /\ cut'[c] = kept /\ \A d \in Cuts \ {c} : cut'[d] = cut[d]
      BY <1>1, <1>3, <1>4, Typed
<1>7. ASSUME NEW d \in Cuts, Carried(d)'
      PROVE  WillDo(a, d)' \/ (Carried(d) /\ ~WillDo(a, d))
  <2>1. CASE d # c
        BY <1>6, <1>7, <2>1 DEF WillDo, Carried
  <2>2. CASE d = c /\ left = 0
        BY <1>3, <1>6, <1>7, <2>2 DEF WillDo, Carried
  <2>3. CASE d = c /\ left # 0
    <3>1. left > 0
          BY <2>3
    <3> QED BY <1>2, <1>5, <2>3, <3>1 DEF WillDo
  <2> QED BY <2>1, <2>2, <2>3
<1> QED BY <1>2, <1>5, <1>6, <1>7, Typed, RunMoves

LEMMA BreakSteps ==
  ASSUME IInv, NEW a \in Assemblies, FailAssembly(a) \/ LoseAssembly(a)
  PROVE  IInv'
<1> DEFINE j == assembly[a]
<1>1. /\ j # None /\ j.left \in 0..Tries
      /\ held' = Released(a) /\ UNCHANGED <<row, hearing, may, request, render>>
      BY Typed DEF FailAssembly, LoseAssembly, Assembly
<1>2. held' = IF InTransaction(a) THEN held \ {Missing(a)} ELSE held
      BY <1>1, ReleasedIs
<1>3. CASE FailAssembly(a)
  <2>1. PICK status \in {"FAILED", "RUNNING"} :
          assembly' = [assembly EXCEPT ![a] = Unfinished(a, status, j.left)]
        BY <1>3 DEF FailAssembly, Fails
  <2>2. SetCut(j.cut, "FAILED") \/ LeaveCut(a, j.left)
        BY <1>3 DEF FailAssembly
  <2> QED BY <1>1, <1>2, <2>1, <2>2, FailedMoves, LeftMoves
<1>4. CASE LoseAssembly(a)
  <2>1. /\ assembly' = [assembly EXCEPT ![a] = Unfinished(a, "RUNNING", j.left)]
        /\ LeaveCut(a, j.left)
        BY <1>4 DEF LoseAssembly
  <2> QED BY <1>1, <1>2, <2>1, LeftMoves
<1> QED BY <1>3, <1>4

\* A delivery that comes to nothing before the run's try, and a report that fails.
LEMMA OutageSteps ==
  ASSUME IInv, NEW a \in Assemblies, FailToBegin(a) \/ FailToReport(a)
  PROVE  IInv'
<1> DEFINE j == assembly[a]
<1>1. /\ j # None /\ j \in Assembly /\ j.left \in 0..Tries /\ j.cut \in Cuts
      /\ j.status \in {"PENDING", "RUNNING", "FAILED"}
      /\ UNCHANGED <<row, hearing, held, may, request, render>>
      BY Typed DEF FailToBegin, FailToReport, Running, Assembly, transcriptVars
<1>2. CASE FailToBegin(a)
  <2>1. /\ Deliverable(j) /\ LeaveCut(a, j.left - 1)
        BY <1>2 DEF FailToBegin
  <2>2. j.left - 1 \in 0..Tries
        BY <1>1, <2>1 DEF Deliverable
  <2>3. ~InTransaction(a)
        BY <1>1, <2>1 DEF IInv, Transactions, InTransaction, Deliverable
  <2>4. PICK status \in {"PENDING", "RUNNING", "FAILED"} :
          assembly' = [assembly EXCEPT ![a] = Unfinished(a, status, j.left - 1)]
        BY <1>1, <1>2 DEF FailToBegin, Fails
  <2> QED BY <1>1, <2>1, <2>2, <2>3, <2>4, LeftMoves
<1>3. CASE FailToReport(a)
  <2>1. PICK status \in {"FAILED", "RUNNING"} :
          assembly' = [assembly EXCEPT ![a] = Unfinished(a, status, j.left)]
        BY <1>3 DEF FailToReport, Fails
  <2>2. ~InTransaction(a) /\ UNCHANGED cut /\ \A c \in Cuts : ~WillDo(a, c)
        BY <1>3 DEF FailToReport, Running, InTransaction, WillDo
  <2> DEFINE new == Unfinished(a, status, j.left)
  <2>3. new \in Assembly \cup {None} /\ (new # None => new.at = "lost")
        BY <1>1, UnfinishedTyped
  <2> HIDE DEF new
  <2>4. assembly' = [assembly EXCEPT ![a] = new]
        BY <2>1 DEF new
  <2> QED BY <1>1, <2>2, <2>3, <2>4, Typed, RunMoves DEF Carried
<1> QED BY <1>2, <1>3

\* A waiting run is over, and a copy of it is queued.
LEMMA ParkStep ==
  ASSUME IInv, NEW a \in Assemblies, NEW b \in Assemblies, Park(a, b)
  PROVE  IInv'
<1> DEFINE j == assembly[a]
           c == assembly[a].cut
<1>1. /\ j # None /\ j \in Assembly /\ c \in Cuts /\ j.left \in 0..Tries /\ ~InTransaction(a)
      /\ assembly[b] = None /\ a # b /\ UNCHANGED <<row, hearing, held, may, cut, request, render>>
      BY Typed DEF Park, Running, NewAssembly, Oldest, Assembly, InTransaction, transcriptVars
<1>2. Over(a) \in Assembly /\ Over(a).at = "done"
  <2>1. Over(a) = Afresh(c, "RUNNING", "done", j.left)
        BY DEF Over, Afresh
  <2> QED BY <1>1, <2>1, AfreshTyped
<1>3. /\ QueuedAssembly(c) \in Assembly /\ QueuedAssembly(c).cut = c
      /\ QueuedAssembly(c).status = "PENDING" /\ QueuedAssembly(c).at = "lost"
      BY <1>1, RunsTyped
<1>4. /\ assembly' \in [Assemblies -> Assembly \cup {None}] /\ assembly'[b] = QueuedAssembly(c)
      /\ assembly'[a] = Over(a) /\ \A d \in Assemblies \ {a, b} : assembly'[d] = assembly[d]
      BY <1>1, <1>2, <1>3, Typed DEF Park
<1>5. RoughCutsTypeOK' /\ RowsNamed'
      BY <1>1, <1>4, Typed DEF IInv, RoughCutsTypeOK, TranscriptionTypeOK, CutType, RowsNamed
<1>6. Transactions'
  <2> DEFINE Left == {}
  <2>1. /\ Left \in SUBSET Assemblies /\ \A d : d \notin Left /\ \A v : v \notin held \ held'
        BY <1>1
  <2>2. \A d \in Assemblies : InTransaction(d)' => InTransaction(d) /\ assembly'[d] = assembly[d]
        BY <1>2, <1>3, <1>4 DEF InTransaction
  <2>3. \A g \in Hearings, v \in Versions : Waited(g, v)' => Waited(g, v)
        BY <1>1 DEF Waited
  <2> HIDE DEF Left
  <2> QED BY <2>1, <2>2, <2>3, TransactionsStay
<1>7. CarriedHasRun'
  <2> SUFFICES ASSUME NEW k \in Cuts, Carried(k)' PROVE \E d \in Assemblies : WillDo(d, k)'
      BY DEF CarriedHasRun
  <2>1. CASE k = c
    <3>1. QueuedAssembly(c) # None
          BY <1>3
    <3> QED BY <1>3, <1>4, <2>1, <3>1 DEF WillDo
  <2>2. CASE k # c
    <3>1. PICK d \in Assemblies : WillDo(d, k)
          BY <1>1 DEF IInv, CarriedHasRun, Carried
    <3>2. d # a /\ d # b
          BY <1>1, <2>2, <3>1 DEF WillDo
    <3> QED BY <1>4, <3>1, <3>2 DEF WillDo
  <2> QED BY <2>1, <2>2
<1> QED BY <1>5, <1>6, <1>7 DEF IInv

\* BEGIN and the upsert: the version was in no other transaction.
LEMMA UpsertStep ==
  ASSUME IInv, NEW a \in Assemblies, NEW r \in Rows, UpsertMissing(a, r)
  PROVE  IInv'
<1> DEFINE j == assembly[a]
           new == [j EXCEPT !.at = "upserted", !.row = r]
<1>1. /\ j # None /\ j \in Assembly /\ j.status = "RUNNING" /\ j.at = "deciding" /\ j.next \in DOMAIN Slots
      /\ Missing(a) \notin held /\ held' = held \cup {Missing(a)}
      /\ UNCHANGED <<may, row, hearing, cut, request, render>>
      BY Typed DEF UpsertMissing, Running, Looking, Missing
<1>2. assembly' = [assembly EXCEPT ![a] = new]
      BY Typed DEF UpsertMissing
<1>3. new \in Assembly /\ new.at = "upserted" /\ new.row = r /\ new.status = "RUNNING" /\ new.cut = j.cut
      /\ new.next = j.next
      BY <1>1 DEF Assembly
<1> HIDE DEF new
<1>4. /\ assembly' \in [Assemblies -> Assembly \cup {None}] /\ assembly'[a] = new
      /\ \A b \in Assemblies \ {a} : assembly'[b] = assembly[b]
      BY <1>2, <1>3, Typed
<1>5. Missing(a) \in Versions
  <2>1. Slots[j.next] \in Seq(Versions) \ {<<>>}
        BY <1>1, SlotsAssumption
  <2> QED BY <2>1 DEF Missing
<1>6. RoughCutsTypeOK' /\ RowsNamed'
      BY <1>1, <1>4, <1>5, Typed DEF IInv, RoughCutsTypeOK, TranscriptionTypeOK, CutType, RowsNamed
<1>7. Transactions'
  <2>1. Missing(a)' = Missing(a) /\ \A b \in Assemblies \ {a} :
          (InTransaction(b)' <=> InTransaction(b)) /\ Missing(b)' = Missing(b)
        BY <1>3, <1>4 DEF Missing, InTransaction
  <2>2. \A b \in Assemblies \ {a} : InTransaction(b)' => Missing(b)' \in held /\ Missing(b)' # Missing(a)'
        BY <1>1, <2>1 DEF IInv, Transactions
  <2> SUFFICES ASSUME NEW b \in Assemblies, InTransaction(b)'
               PROVE  /\ assembly'[b].status = "RUNNING"
                      /\ assembly'[b].row \in Rows /\ assembly'[b].next \in DOMAIN Slots
                      /\ Missing(b)' \in held'
                      /\ \A d \in Assemblies \ {b} : InTransaction(d)' => Missing(d)' # Missing(b)'
                      /\ assembly'[b].at = "checked" /\ ~assembly'[b].busy =>
                           \A g \in Hearings, v \in Versions : v = Missing(b)' => ~Waited(g, v)'
      BY DEF Transactions
  <2>3. CASE b = a
        BY <1>1, <1>3, <1>4, <2>1, <2>2, <2>3
  <2>4. CASE b # a
    <3>1. /\ assembly[b].status = "RUNNING"
          /\ assembly[b].row \in Rows /\ assembly[b].next \in DOMAIN Slots /\ Missing(b) \in held
          /\ \A d \in Assemblies \ {b} : InTransaction(d) => Missing(d) # Missing(b)
          /\ assembly[b].at = "checked" /\ ~assembly[b].busy =>
               \A g \in Hearings, v \in Versions : v = Missing(b) => ~Waited(g, v)
          BY <2>1, <2>4 DEF IInv, Transactions
    <3>2. \A g \in Hearings, v \in Versions : Waited(g, v)' => Waited(g, v)
          BY <1>1 DEF Waited
    <3>3. \A d \in Assemblies \ {b} : InTransaction(d)' => Missing(d)' # Missing(b)'
          BY <2>1, <2>2, <2>4, <3>1
    <3> QED BY <1>1, <1>4, <2>1, <2>4, <3>1, <3>2, <3>3
  <2> QED BY <2>3, <2>4
<1>8. CarriedHasRun'
  <2>1. \A b \in Assemblies, c \in Cuts : WillDo(b, c) => WillDo(b, c)'
    <3> SUFFICES ASSUME NEW b \in Assemblies, NEW c \in Cuts, WillDo(b, c) PROVE WillDo(b, c)'
        OBVIOUS
    <3>1. CASE b = a
          BY <1>1, <1>3, <1>4, <3>1 DEF WillDo
    <3>2. CASE b # a
          BY <1>4, <3>2 DEF WillDo
    <3> QED BY <3>1, <3>2
  <2> QED BY <1>1, <2>1 DEF IInv, CarriedHasRun, Carried
<1> QED BY <1>6, <1>7, <1>8 DEF IInv

\* SELECT: a run that goes on alone has seen no transcription on its way.
LEMMA SelectStep ==
  ASSUME IInv, NEW a \in Assemblies, SelectActive(a)
  PROVE  IInv'
<1> DEFINE j == assembly[a]
           new == [j EXCEPT !.at = "checked", !.busy = OnItsWay(Missing(a))]
<1>1. /\ j # None /\ j \in Assembly /\ j.status = "RUNNING" /\ j.at = "upserted" /\ InTransaction(a)
      /\ UNCHANGED <<may, row, hearing, held, cut, request, render>>
      BY Typed DEF SelectActive, Running, InTransaction, transcriptVars
<1>2. assembly' = [assembly EXCEPT ![a] = new]
      BY Typed DEF SelectActive, Missing
<1>3. /\ new \in Assembly /\ new.at = "checked" /\ new.status = "RUNNING" /\ new.cut = j.cut
      /\ new.row = j.row /\ new.next = j.next /\ new.busy = OnItsWay(Missing(a))
  <2>1. OnItsWay(Missing(a)) \in BOOLEAN
        BY DEF OnItsWay
  <2> QED BY <1>1, <2>1 DEF Assembly
<1> HIDE DEF new
<1>4. /\ assembly' \in [Assemblies -> Assembly \cup {None}] /\ assembly'[a] = new /\ new # None
      /\ \A b \in Assemblies \ {a} : assembly'[b] = assembly[b]
      BY <1>2, <1>3, Typed
<1>5. RoughCutsTypeOK' /\ RowsNamed'
      BY <1>1, <1>4, Typed DEF IInv, RoughCutsTypeOK, TranscriptionTypeOK, CutType, RowsNamed
<1>6. Transactions'
  <2>1. \A b \in Assemblies : (InTransaction(b)' <=> InTransaction(b)) /\ Missing(b)' = Missing(b)
    <3> TAKE b \in Assemblies
    <3>1. CASE b = a
          BY <1>1, <1>3, <1>4, <3>1 DEF Missing, InTransaction
    <3>2. CASE b # a
          BY <1>4, <3>2 DEF Missing, InTransaction
    <3> QED BY <3>1, <3>2
  <2>2. \A g \in Hearings, v \in Versions : Waited(g, v)' => Waited(g, v)
        BY <1>1 DEF Waited
  <2> SUFFICES ASSUME NEW b \in Assemblies, InTransaction(b)'
               PROVE  /\ assembly'[b].status = "RUNNING"
                      /\ assembly'[b].row \in Rows /\ assembly'[b].next \in DOMAIN Slots
                      /\ Missing(b)' \in held'
                      /\ \A d \in Assemblies \ {b} : InTransaction(d)' => Missing(d)' # Missing(b)'
                      /\ assembly'[b].at = "checked" /\ ~assembly'[b].busy =>
                           \A g \in Hearings, v \in Versions : v = Missing(b)' => ~Waited(g, v)'
      BY DEF Transactions
  <2>3. /\ assembly[b].status = "RUNNING"
        /\ assembly[b].row \in Rows /\ assembly[b].next \in DOMAIN Slots /\ Missing(b) \in held
        /\ \A d \in Assemblies \ {b} : InTransaction(d) => Missing(d) # Missing(b)
        /\ assembly[b].at = "checked" /\ ~assembly[b].busy =>
             \A g \in Hearings, v \in Versions : v = Missing(b) => ~Waited(g, v)
        BY <2>1 DEF IInv, Transactions
  <2>4. CASE b = a
    <3>1. ~OnItsWay(Missing(a)) => \A g \in Hearings : ~Waited(g, Missing(a))
          BY DEF OnItsWay, Waited
    <3> QED BY <1>1, <1>3, <1>4, <2>1, <2>2, <2>3, <2>4, <3>1
  <2>5. CASE b # a
        BY <1>1, <1>4, <2>1, <2>2, <2>3, <2>5
  <2> QED BY <2>4, <2>5
<1>7. CarriedHasRun'
  <2>1. \A b \in Assemblies, c \in Cuts : WillDo(b, c) => WillDo(b, c)'
    <3> SUFFICES ASSUME NEW b \in Assemblies, NEW c \in Cuts, WillDo(b, c) PROVE WillDo(b, c)'
        OBVIOUS
    <3>1. CASE b = a
          BY <1>1, <1>3, <1>4, <3>1 DEF WillDo
    <3>2. CASE b # a
          BY <1>4, <3>2 DEF WillDo
    <3> QED BY <3>1, <3>2
  <2> QED BY <1>1, <2>1 DEF IInv, CarriedHasRun, Carried
<1> QED BY <1>5, <1>6, <1>7 DEF IInv

\* The jobs and COMMIT: the row is unlocked again.
LEMMA CommitStep ==
  ASSUME IInv, NEW a \in Assemblies, NEW h \in Hearings, CommitMissing(a, h)
  PROVE  IInv'
<1> DEFINE j == assembly[a]
           v == Slots[assembly[a].next][1]
           new == [j EXCEPT !.at = "deciding", !.row = None, !.next = j.next + 1, !.waits = TRUE]
           job == Queued(v, j.row, TRUE)
<1>1. /\ j # None /\ j \in Assembly /\ j.status = "RUNNING" /\ j.at = "checked" /\ InTransaction(a)
      /\ hearing[h] = None /\ row' = Requested(v, j.row) /\ held' = held \ {v}
      /\ hearing' = hearing \/ hearing' = [hearing EXCEPT ![h] = job]
      /\ UNCHANGED <<may, cut, request, render>>
      BY Typed DEF CommitMissing, Running, InTransaction, NewHearing, Oldest
<1>2. /\ j.row \in Rows /\ v \in Versions /\ v = Missing(a)
      BY <1>1, Typed DEF IInv, Transactions, Missing
<1>3. assembly' = [assembly EXCEPT ![a] = new]
      BY Typed DEF CommitMissing
<1>4. new \in Assembly /\ new.at = "deciding" /\ new.status = "RUNNING" /\ new.cut = j.cut
  <2>1. j.next + 1 \in Nat
        BY <1>1 DEF Assembly
  <2> QED BY <1>1, <2>1 DEF Assembly
<1> HIDE DEF new
<1>5. /\ assembly' \in [Assemblies -> Assembly \cup {None}] /\ assembly'[a] = new /\ new # None
      /\ \A b \in Assemblies \ {a} : assembly'[b] = assembly[b]
      BY <1>3, <1>4, Typed
<1>6. job \in Hearing /\ job.status = "PENDING" /\ job.version = v
      BY <1>2, QueuedTyped
<1> HIDE DEF job, v
<1>7. /\ hearing' \in [Hearings -> Hearing \cup {None}]
      /\ \A g \in Hearings : hearing'[g] = hearing[g] \/ hearing'[g] = job
      BY <1>1, <1>6, Typed
<1>8. row' \in [Rows -> Row] /\ \A s \in Rows : row'[s].version \in {row[s].version, v}
  <2>1. PICK r \in Rows : r = j.row
        BY <1>2
  <2>2. /\ row' \in [Rows -> Row] /\ row'[r].version = v /\ \A s \in Rows \ {r} : row'[s] = row[s]
        BY <1>1, <1>2, <2>1, RowUpserted
  <2> QED BY <2>2
<1>9. RoughCutsTypeOK' /\ RowsNamed'
  <2>1. RoughCutsTypeOK'
        BY <1>1, <1>5, <1>7, <1>8, Typed DEF IInv, RoughCutsTypeOK, TranscriptionTypeOK, CutType
  <2>2. RowsNamed'
        BY <1>1, <1>2, <1>6, <1>7, <1>8 DEF IInv, RowsNamed
  <2> QED BY <2>1, <2>2
<1>10. Transactions'
  <2> DEFINE Left == {a}
  <2>1. \A b \in Assemblies : InTransaction(b)' =>
          b \notin Left /\ InTransaction(b) /\ assembly'[b] = assembly[b]
        BY <1>4, <1>5 DEF InTransaction
  <2>2. \A w \in held \ held' : \E b \in Left : InTransaction(b) /\ w = Missing(b)
        BY <1>1, <1>2
  <2>3. \A g \in Hearings, w \in Versions : Waited(g, w)' =>
          Waited(g, w) \/ \E b \in Left : InTransaction(b) /\ w = Missing(b)
    <3> SUFFICES ASSUME NEW g \in Hearings, NEW w \in Versions, Waited(g, w)', w # v PROVE Waited(g, w)
        BY <1>1, <1>2
    <3>1. hearing'[g] = hearing[g]
          BY <1>6, <1>7 DEF Waited
    <3> QED BY <3>1 DEF Waited
  <2> QED BY <2>1, <2>2, <2>3, TransactionsStay
<1>11. CarriedHasRun'
  <2>1. \A b \in Assemblies, c \in Cuts : WillDo(b, c) => WillDo(b, c)'
    <3> SUFFICES ASSUME NEW b \in Assemblies, NEW c \in Cuts, WillDo(b, c) PROVE WillDo(b, c)'
        OBVIOUS
    <3>1. CASE b = a
          BY <1>1, <1>4, <1>5, <3>1 DEF WillDo
    <3>2. CASE b # a
          BY <1>5, <3>2 DEF WillDo
    <3> QED BY <3>1, <3>2
  <2> QED BY <1>1, <2>1 DEF IInv, CarriedHasRun, Carried
<1> QED BY <1>9, <1>10, <1>11 DEF IInv

-----------------------------------------------------------------------------
(* The renders, and every step.                                            *)

LEMMA RenderMoves ==
  ASSUME IInv, render' \in [Renders -> Render \cup {None}],
         UNCHANGED <<transcriptVars, cut, request, assembly>>
  PROVE  IInv'
<1>1. UNCHANGED <<row, hearing, held, may, cut, request, assembly>>
      BY DEF transcriptVars
<1>2. RowsNamed' /\ \A g \in Hearings, v \in Versions : Waited(g, v)' => Waited(g, v)
      BY <1>1 DEF IInv, RowsNamed, Waited
<1>3. Transactions' /\ \A a \in Assemblies, c \in Cuts : WillDo(a, c)' <=> WillDo(a, c)
      BY <1>1, <1>2, NoRunTouched
<1>4. RoughCutsTypeOK'
      BY <1>1 DEF IInv, RoughCutsTypeOK, TranscriptionTypeOK
<1>5. CarriedHasRun'
      BY <1>1, <1>3 DEF IInv, CarriedHasRun, Carried
<1> QED BY <1>2, <1>3, <1>4, <1>5 DEF IInv

LEMMA RenderSteps ==
  ASSUME IInv, NEW m \in Renders, RenderStep(m) \/ \E c \in Cuts : RequestRender(c, m)
  PROVE  IInv'
<1>0. render \in [Renders -> Render \cup {None}]
      BY Typed
<1>1. CASE RunRender(m)
  <2> DEFINE new == [render[m] EXCEPT !.status = "RUNNING", !.left = render[m].left - 1]
  <2>1. render[m] \in Render /\ render[m].left > 0
        BY <1>1, Typed DEF RunRender
  <2>2. render[m].left - 1 \in 0..Tries
    <3>1. render[m].left \in 0..Tries
          BY <2>1 DEF Render
    <3> QED BY <2>1, <3>1
  <2>3. new \in Render
        BY <2>1, <2>2 DEF Render
  <2>4. render' = [render EXCEPT ![m] = new] /\ UNCHANGED <<transcriptVars, cut, request, assembly>>
        BY <1>0, <1>1 DEF RunRender
  <2> HIDE DEF new
  <2> QED BY <1>0, <2>3, <2>4, RenderMoves
<1>2. ASSUME NEW s \in {"SUCCEEDED", "FAILED"}, EndRender(m, s)
      PROVE  IInv'
  <2>1. render[m] \in Render
        BY <1>2, Typed DEF EndRender
  <2>2. s = "FAILED" => [render[m] EXCEPT !.status = s] \in Render
        BY <2>1 DEF Render
  <2> QED BY <1>0, <1>2, <2>2, RenderMoves DEF EndRender
<1>3. ASSUME NEW c \in Cuts, RequestRender(c, m)
      PROVE  IInv'
  <2>1. QueuedRender(c) \in Render
    <3>1. Tries \in 0..Tries
          OBVIOUS
    <3> QED BY <3>1 DEF QueuedRender, Render
  <2> QED BY <1>0, <1>3, <2>1, RenderMoves DEF RequestRender
<1> QED BY <1>1, <1>2, <1>3 DEF RenderStep

LEMMA StepInv == IInv /\ [Next]_vars => IInv'
<1> SUFFICES ASSUME IInv, [Next]_vars PROVE IInv'
    OBVIOUS
<1>1. CASE UNCHANGED vars
  <2>1. UNCHANGED <<row, hearing, held, may, cut, request, assembly, render>>
        BY <1>1 DEF vars, transcriptVars, cutVars
  <2> QED BY <2>1, Typed, RenderMoves DEF transcriptVars
<1>2. CASE TranscriptionStep /\ UNCHANGED cutVars
      BY <1>2, HearingSteps, UploadStep DEF TranscriptionStep
<1>3. ASSUME NEW c \in Cuts, RequestStep(c) \/ AbandonRequest(c) \/ DeleteCut(c) \/ GrowOld(c)
      PROVE  IInv'
      BY <1>3, RequestSteps, StartRowStep, StartJobStep, EnqueueStep DEF RequestStep
<1>4. ASSUME NEW a \in Assemblies, AssemblyStep(a) \/ LoseAssembly(a)
      PROVE  IInv'
      BY <1>4, BeginStep, LoadStep, SlotSteps, SelectStep, EndSteps, BreakSteps, OutageSteps, UpsertStep,
         CommitStep, ParkStep DEF AssemblyStep
<1>5. ASSUME NEW m \in Renders, RenderStep(m) \/ \E c \in Cuts : RequestRender(c, m)
      PROVE  IInv'
      BY <1>5, RenderSteps
<1> QED BY <1>1, <1>2, <1>3, <1>4, <1>5 DEF Next

-----------------------------------------------------------------------------
(* Theorems.                                                               *)

LEMMA AlwaysInv == Spec => []IInv
<1> QED BY InitInv, StepInv, PTL DEF Spec

\* Transcripts, cuts, requests and jobs keep their types.
THEOREM RoughCutsTypeCorrect == Spec => []RoughCutsTypeOK
<1>1. IInv => RoughCutsTypeOK
      BY DEF IInv
<1> QED BY <1>1, AlwaysInv, PTL

\* A cut that shows RUNNING has a job that will come back to it, through parked runs,
\* failures, deletions and workers that die, unless it was stranded: its last delivery was
\* used up, and neither the run nor its catch could write what became of it.
THEOREM RunningCutHasJobHolds == Spec => []RunningCutHasJob
<1>1. IInv => RunningCutHasJob
      BY Typed DEF IInv, CarriedHasRun, Carried, RunningCutHasJob, WillDo, Live, Active, Assembly
<1> QED BY <1>1, AlwaysInv, PTL

\* Runs that wait for one clip queue one transcription of it between them, whatever
\* requests, uploads and workers do meanwhile.
THEOREM OneTranscriptionQueuedHolds == Spec => OneTranscriptionQueued
<1> DEFINE Queues ==
      \A h \in Hearings : hearing[h] = None /\ hearing'[h] # None /\ hearing'[h].byRun =>
        ~\E g \in Hearings :
           /\ hearing[g] # None /\ hearing[g].byRun /\ Active(hearing[g].status)
           /\ hearing[g].left + 1 >= Tries
           /\ hearing[g].version = hearing'[h].version
<1>1. IInv /\ [Next]_vars => [Queues]_vars
  <2> SUFFICES ASSUME IInv, Next, NEW h \in Hearings,
                      hearing[h] = None, hearing'[h] # None, hearing'[h].byRun,
                      NEW g \in Hearings, Waited(g, hearing'[h].version)
               PROVE  FALSE
      BY DEF Waited
  <2>1. CASE TranscriptionStep /\ UNCHANGED cutVars
        BY <2>1, Typed DEF TranscriptionStep, HearingStep, BeginHearing, StoreHeard, ClearSegments,
           InsertSegment, FinishHearing, FailHearing, LoseHearing, UploadTranscript, Hears
  <2>2. ASSUME NEW c \in Cuts, NEW k \in Hearings, StartJob(c, k)
        PROVE  FALSE
        BY <2>2, Typed DEF StartJob, Queued
  <2>3. ASSUME NEW a \in Assemblies, NEW k \in Hearings, CommitMissing(a, k)
        PROVE  FALSE
    <3>1. /\ ~assembly[a].busy /\ hearing'[h].version = Missing(a)
          BY <2>3, Typed DEF CommitMissing, Queued, Missing
    <3>2. /\ InTransaction(a) /\ assembly[a].at = "checked" /\ Missing(a) \in Versions
          BY <2>3, Typed DEF CommitMissing, Running, InTransaction, IInv, Transactions
    <3> QED BY <3>1, <3>2 DEF IInv, Transactions
  <2>4. CASE UNCHANGED hearing
        BY <2>4
  <2> QED BY <2>1, <2>2, <2>3, <2>4
      DEF Next, RequestStep, AssemblyStep, RenderStep, RequestCut, StartRow, CreateCut, EnqueueAssembly,
          AbandonRequest, DeleteCut, GrowOld, BeginAssembly, LoadRows, PassSlot, SelectActive, StartReading,
          ReadSlot, Build, SaveReady, FinishAssembly, FailAssembly, FailToBegin, FailToReport, UpsertMissing, Park,
          QueueRender, LoseAssembly, RunRender, EndRender, RequestRender, transcriptVars
<1> QED BY <1>1, AlwaysInv, PTL DEF Spec, OneTranscriptionQueued
=============================================================================

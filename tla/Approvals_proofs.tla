-------------------------- MODULE Approvals_proofs --------------------------
(***************************************************************************)
(* Proofs about Approvals for every set of users, requests and calls.      *)
(* What makes them go through is the snapshot: a request a transaction saw *)
(* closed is closed for good, and one that certifies has seen the truth.   *)
(***************************************************************************)
EXTENDS Approvals, TLAPS

USE RolesAssumption, NoVersionAssumption, NonEmptyAssumption

LEMMA IdleType == Idle \in Call /\ Idle.at = "idle"
<1>1. /\ (CHOOSE u \in Users : TRUE) \in Users
      /\ (CHOOSE v \in Versions : TRUE) \in Versions
      /\ (CHOOSE r \in Requests : TRUE) \in Requests
  OBVIOUS
<1> QED
  BY <1>1 DEF Idle, Call, Verdicts

LEMMA NoRowsType == NoRows \in [Requests -> Row]
<1>1. (CHOOSE u \in Users : TRUE) \in Users
  OBVIOUS
<1> QED
  BY <1>1 DEF NoRows, Row

(* What a call looks like once it has started, and once it has left.        *)
LEMMA LeaveFacts ==
  ASSUME TypeOK, NEW c \in Calls, NEW k \in Call, Leave(c, k)
  PROVE  /\ call' \in [Calls -> Call] /\ seen' \in [Calls -> [Requests -> Row]]
         /\ call'[c] = k /\ seen'[c] = NoRows
         /\ \A d \in Calls : d # c => call'[d] = call[d] /\ seen'[d] = seen[d]
  BY NoRowsType DEF Leave, TypeOK

LEMMA NotifyingType ==
  ASSUME NEW r \in Requests, NEW s \in {"none", "PENDING"} \cup Closed
  PROVE  LET k == [Idle EXCEPT !.at = "notify", !.request = r, !.outcome = s]
         IN  k \in Call /\ k.at = "notify" /\ k.request = r /\ k.outcome = s
  BY IdleType DEF Call

LEMMA ResolutionType ==
  ASSUME NEW row \in Row, NEW u \in Users, NEW verdict \in Verdicts
  PROVE  Resolution(row, u, verdict) \in {"none", "PENDING"} \cup Closed
  BY DEF Resolution, Row, Verdicts, Closed

-----------------------------------------------------------------------------
LEMMA TypeInit == Init => TypeOK
  BY IdleType, NoRowsType DEF Init, TypeOK

LEMMA TypeStep == TypeOK /\ [Next]_vars => TypeOK'
<1> SUFFICES ASSUME TypeOK, [Next]_vars PROVE TypeOK'
  OBVIOUS
<1>0. /\ db \in [Requests -> Row] /\ call \in [Calls -> Call]
      /\ seen \in [Calls -> [Requests -> Row]]
      /\ notices \in [Requests -> [Verdicts -> Nat]]
  BY DEF TypeOK
<1>1. ASSUME NEW c \in Calls, NEW u \in Users, NEW v \in Versions,
             NEW approvers \in SUBSET Users, StartCreate(c, u, v, approvers)
      PROVE  TypeOK'
  <2>1. [Idle EXCEPT !.op = "create", !.at = "checked", !.user = u, !.version = v,
                     !.approvers = approvers] \in Call
    BY IdleType DEF Call
  <2> QED
    BY <1>0, <1>1, <2>1 DEF StartCreate, TypeOK
<1>2. ASSUME NEW c \in Calls, NEW u \in Users, NEW r \in Requests, NEW verdict \in Bodies,
             StartDecide(c, u, r, verdict)
      PROVE  TypeOK'
  <2>1. verdict \in Verdicts
    BY <1>2 DEF StartDecide, ValidDecision
  <2>2. [Idle EXCEPT !.op = "decide", !.at = "checked", !.user = u, !.request = r,
                     !.verdict = verdict] \in Call
    BY <2>1, IdleType DEF Call
  <2> QED
    BY <1>0, <1>2, <2>2 DEF StartDecide, TypeOK
<1>3. ASSUME NEW c \in Calls, NEW u \in Users, NEW r \in Requests, StartCancel(c, u, r)
      PROVE  TypeOK'
  <2>1. [Idle EXCEPT !.op = "cancel", !.at = "checked", !.user = u, !.request = r] \in Call
    BY IdleType DEF Call
  <2> QED
    BY <1>0, <1>3, <2>1 DEF StartCancel, TypeOK
<1>4. ASSUME NEW c \in Calls, Begin(c) PROVE TypeOK'
  <2>1. [call[c] EXCEPT !.at = "tx"] \in Call
    BY <1>0 DEF Call
  <2> QED
    BY <1>0, <1>4, <2>1 DEF Begin, TypeOK
<1>5. ASSUME NEW c \in Calls, Refuse(c) \/ Abort(c) PROVE TypeOK'
  BY <1>0, <1>5, IdleType, LeaveFacts DEF Refuse, Abort, TypeOK
<1>6. ASSUME NEW c \in Calls, NEW r \in Requests, CommitCreate(c, r) PROVE TypeOK'
  <2>1. [status |-> "PENDING", version |-> call[c].version, by |-> call[c].user,
         decision |-> [u \in Users |-> IF u \in call[c].approvers
                                         THEN "PENDING" ELSE "none"]] \in Row
    BY <1>0 DEF Row, Call
  <2> QED
    BY <1>0, <1>6, <2>1, IdleType, LeaveFacts DEF CommitCreate, TypeOK
<1>7. ASSUME NEW c \in Calls, CommitDecide(c) PROVE TypeOK'
  <2> DEFINE k == call[c]
             status == Resolution(seen[c][k.request], k.user, k.verdict)
  <2>1. /\ k \in Call /\ k.request \in Requests /\ k.user \in Users
        /\ k.verdict \in Verdicts /\ seen[c][k.request] \in Row
    BY <1>0 DEF Call
  <2>2. status \in {"none", "PENDING"} \cup Closed
    BY <2>1, ResolutionType
  <2> DEFINE row == [db[k.request] EXCEPT
                       !.decision = [@ EXCEPT ![k.user] = k.verdict],
                       !.status = IF status = "PENDING" THEN @ ELSE status]
  <2>3. row \in Row
    BY <1>0, <2>1, <2>2 DEF Row, Verdicts
  <2>4. db' = [db EXCEPT ![k.request] = row]
    BY <1>0, <1>7, <2>1 DEF CommitDecide, Row
  <2> DEFINE gone == [Idle EXCEPT !.at = "notify", !.request = k.request,
                                  !.outcome = status]
  <2>5. gone \in Call
    BY <2>1, <2>2, NotifyingType
  <2>6. Leave(c, gone) /\ notices' = notices
    BY <1>7 DEF CommitDecide
  <2>7. call' \in [Calls -> Call] /\ seen' \in [Calls -> [Requests -> Row]]
    BY <2>5, <2>6, LeaveFacts
  <2>8. db' \in [Requests -> Row]
    BY <1>0, <2>3, <2>4
  <2> QED
    BY <1>0, <2>6, <2>7, <2>8 DEF TypeOK
<1>8. ASSUME NEW c \in Calls, CommitCancel(c) PROVE TypeOK'
  <2>1. call[c].request \in Requests
    BY <1>0 DEF Call
  <2>2. [db[call[c].request] EXCEPT !.status = "CANCELED"] \in Row
    <3>1. db[call[c].request] \in Row
      BY <1>0, <2>1
    <3> QED
      BY <3>1 DEF Row, Closed
  <2> QED
    BY <1>0, <1>8, <2>1, <2>2, IdleType, LeaveFacts DEF CommitCancel, TypeOK
<1>9. ASSUME NEW c \in Calls, Notify(c) PROVE TypeOK'
  BY <1>0, <1>9, IdleType, LeaveFacts DEF Notify, TypeOK, Call
<1>10. CASE UNCHANGED vars
  BY <1>10 DEF vars, TypeOK
<1> QED
  BY <1>1, <1>2, <1>3, <1>4, <1>5, <1>6, <1>7, <1>8, <1>9, <1>10 DEF Next

(* Rows, calls, snapshots and notices keep their types.                     *)
THEOREM TypeCorrect == Spec => []TypeOK
  BY TypeInit, TypeStep, PTL DEF Spec

-----------------------------------------------------------------------------
(* What each step does, in the terms the invariants below are stated in.    *)

OthersKeep(c) == \A d \in Calls : d # c => call'[d] = call[d] /\ seen'[d] = seen[d]
RowsKeep(r) == \A q \in Requests : q # r => db'[q] = db[q]

Start(c) == \/ \E u \in Users, v \in Versions, approvers \in SUBSET Users :
                 StartCreate(c, u, v, approvers)
            \/ \E u \in Users, r \in Requests, verdict \in Bodies :
                 StartDecide(c, u, r, verdict)
            \/ \E u \in Users, r \in Requests : StartCancel(c, u, r)

LEMMA StartFacts ==
  ASSUME TypeOK, NEW c \in Calls, Start(c)
  PROVE  /\ db' = db /\ notices' = notices /\ OthersKeep(c)
         /\ call'[c].at = "checked"
         /\ call'[c].op = "create" => call'[c].approvers # {}
<1>1. CASE \E u \in Users, v \in Versions, approvers \in SUBSET Users :
             StartCreate(c, u, v, approvers)
  BY <1>1, IdleType DEF StartCreate, TypeOK, OthersKeep, Call
<1>2. CASE \E u \in Users, r \in Requests, verdict \in Bodies :
             StartDecide(c, u, r, verdict)
  BY <1>2, IdleType DEF StartDecide, TypeOK, OthersKeep, Call
<1>3. CASE \E u \in Users, r \in Requests : StartCancel(c, u, r)
  BY <1>3, IdleType DEF StartCancel, TypeOK, OthersKeep, Call
<1> QED
  BY <1>1, <1>2, <1>3 DEF Start

LEMMA BeginFacts ==
  ASSUME TypeOK, NEW c \in Calls, Begin(c)
  PROVE  /\ db' = db /\ notices' = notices
         /\ call[c].at = "checked" /\ call'[c].at = "tx"
         /\ call'[c].op = call[c].op /\ call'[c].approvers = call[c].approvers
         /\ \A d \in Calls : d # c => call'[d] = call[d] /\ seen'[d] = seen[d]
         /\ seen'[c] = db
  BY DEF Begin, TypeOK, Call

LEMMA QuitFacts ==
  ASSUME TypeOK, NEW c \in Calls, Refuse(c) \/ Abort(c)
  PROVE  db' = db /\ notices' = notices /\ OthersKeep(c) /\ call'[c].at = "idle"
  BY IdleType, LeaveFacts DEF Refuse, Abort, OthersKeep

LEMMA CreateFacts ==
  ASSUME TypeOK, NEW c \in Calls, NEW r \in Requests, CommitCreate(c, r)
  PROVE  /\ call[c].at = "tx" /\ call[c].op = "create" /\ call'[c].at = "idle"
         /\ OthersKeep(c) /\ RowsKeep(r) /\ notices' = notices
         /\ db[r].status = "none" /\ db'[r].status = "PENDING"
         /\ db'[r].version = call[c].version /\ call[c].version \in Versions
         /\ db'[r].decision = [u \in Users |-> IF u \in call[c].approvers
                                                  THEN "PENDING" ELSE "none"]
<1>1. /\ Leave(c, Idle) /\ notices' = notices /\ db[r].status = "none"
      /\ call[c].at = "tx" /\ call[c].op = "create"
  BY DEF CommitCreate
<1>2. OthersKeep(c) /\ call'[c].at = "idle"
  BY <1>1, IdleType, LeaveFacts DEF OthersKeep
<1>3. call[c].version \in Versions
  BY DEF TypeOK, Call
<1> QED
  BY <1>1, <1>2, <1>3 DEF CommitCreate, RowsKeep, TypeOK

(* A decision that commits has seen the request as it is, pending.          *)
LEMMA DecideFacts ==
  ASSUME TypeOK, NEW c \in Calls, CommitDecide(c)
  PROVE  LET r == call[c].request
             u == call[c].user
             verdict == call[c].verdict
             status == Resolution(db[r], u, verdict)
         IN  /\ r \in Requests /\ u \in Users /\ verdict \in Verdicts
             /\ status \in {"PENDING", "APPROVED", "REJECTED"}
             /\ OthersKeep(c) /\ RowsKeep(r) /\ notices' = notices
             /\ call'[c].at = "notify" /\ call'[c].request = r /\ call'[c].outcome = status
             /\ db[r].status = "PENDING" /\ db[r].decision[u] = "PENDING"
             /\ db'[r].status = status /\ db'[r].version = db[r].version
             /\ db'[r].decision = [db[r].decision EXCEPT ![u] = verdict]
<1> DEFINE r == call[c].request
           u == call[c].user
           verdict == call[c].verdict
           status == Resolution(db[r], u, verdict)
           gone == [Idle EXCEPT !.at = "notify", !.request = r, !.outcome = status]
<1>1. r \in Requests /\ u \in Users /\ verdict \in Verdicts /\ db[r] \in Row
  BY DEF TypeOK, Call
<1>2. db[r] = seen[c][r]
  BY DEF CommitDecide, Certified
<1>3. db[r].status = "PENDING" /\ db[r].decision[u] = "PENDING"
  BY <1>2 DEF CommitDecide, Allowed
<1>4. status \in {"PENDING", "APPROVED", "REJECTED"}
  BY <1>3 DEF Resolution
<1>5. Leave(c, gone) /\ notices' = notices
  BY <1>2 DEF CommitDecide
<1>6. gone \in Call /\ gone.at = "notify" /\ gone.request = r /\ gone.outcome = status
  BY <1>1, <1>4, NotifyingType DEF Closed
<1>7. /\ OthersKeep(c)
      /\ call'[c].at = "notify" /\ call'[c].request = r /\ call'[c].outcome = status
  BY <1>5, <1>6, LeaveFacts DEF OthersKeep
<1>8. db' = [db EXCEPT ![r].decision[u] = verdict,
                       ![r].status = IF status = "PENDING" THEN @ ELSE status]
  BY <1>2 DEF CommitDecide
<1>9. /\ RowsKeep(r) /\ db'[r].status = status /\ db'[r].version = db[r].version
      /\ db'[r].decision = [db[r].decision EXCEPT ![u] = verdict]
  BY <1>1, <1>3, <1>8 DEF RowsKeep, TypeOK, Row
<1> QED
  BY <1>1, <1>3, <1>4, <1>5, <1>7, <1>9

LEMMA CancelFacts ==
  ASSUME TypeOK, NEW c \in Calls, CommitCancel(c)
  PROVE  LET r == call[c].request
         IN  /\ r \in Requests
             /\ OthersKeep(c) /\ RowsKeep(r) /\ notices' = notices /\ call'[c].at = "idle"
             /\ db[r].status = "PENDING" /\ db'[r].status = "CANCELED"
             /\ db'[r].version = db[r].version /\ db'[r].decision = db[r].decision
<1> DEFINE r == call[c].request
<1>1. r \in Requests
  BY DEF TypeOK, Call
<1>2. db[r].status = "PENDING"
  BY DEF CommitCancel, Allowed, Certified
<1>3. Leave(c, Idle) /\ notices' = notices
  BY DEF CommitCancel
<1>4. OthersKeep(c) /\ call'[c].at = "idle"
  BY <1>3, IdleType, LeaveFacts DEF OthersKeep
<1>5. /\ RowsKeep(r) /\ db'[r].status = "CANCELED"
      /\ db'[r].version = db[r].version /\ db'[r].decision = db[r].decision
  BY <1>1 DEF CommitCancel, RowsKeep, TypeOK, Row
<1> QED
  BY <1>1, <1>2, <1>3, <1>4, <1>5

LEMMA NotifyFacts ==
  ASSUME TypeOK, NEW c \in Calls, Notify(c)
  PROVE  /\ db' = db /\ OthersKeep(c) /\ call[c].at = "notify" /\ call'[c].at = "idle"
         /\ notices' = IF call[c].outcome \in Verdicts
                         THEN [notices EXCEPT ![call[c].request][call[c].outcome] = @ + 1]
                         ELSE notices
  BY IdleType, LeaveFacts DEF Notify, OthersKeep

(* The actions of Next again, grouped as the facts above are.               *)
LEMMA NextCases ==
  ASSUME [Next]_vars
  PROVE  \/ \E c \in Calls : \/ Start(c) \/ Begin(c) \/ Refuse(c) \/ Abort(c)
                           \/ \E r \in Requests : CommitCreate(c, r)
                           \/ CommitDecide(c) \/ CommitCancel(c) \/ Notify(c)
         \/ UNCHANGED vars
  BY DEF Next, Start

-----------------------------------------------------------------------------
(* A row that does not exist is blank; a create has asked somebody.         *)
RowsInv ==
  \A r \in Requests :
    /\ db[r].status = "none" <=> db[r].version = NoVersion
    /\ db[r].status = "none" => \A u \in Users : db[r].decision[u] = "none"

AskedInv ==
  \A c \in Calls :
    call[c].at \in {"checked", "tx"} /\ call[c].op = "create" => call[c].approvers # {}

(* What a transaction has seen of a request never becomes less true: the    *)
(* row stays, with its version, and if it was closed it is closed the same. *)
SnapshotInv ==
  \A c \in Calls, r \in Requests :
    call[c].at = "tx" /\ seen[c][r].status # "none" =>
      /\ db[r].status # "none" /\ db[r].version = seen[c][r].version
      /\ seen[c][r].status # "PENDING" => db[r].status = seen[c][r].status

(* Who may vote is fixed when a request is made.                            *)
RowStep(r) ==
  /\ db[r].status # "none" => db'[r].status # "none" /\ db'[r].version = db[r].version
  /\ db[r].status \notin {"none", "PENDING"} => db'[r].status = db[r].status

LEMMA RowStepHolds ==
  ASSUME TypeOK, [Next]_vars
  PROVE  \A r \in Requests : RowStep(r)
<1>1. ASSUME NEW c \in Calls, Start(c) \/ Begin(c) \/ Refuse(c) \/ Abort(c) \/ Notify(c)
      PROVE  db' = db
  BY <1>1, StartFacts, BeginFacts, QuitFacts, NotifyFacts
<1>2. ASSUME NEW c \in Calls, NEW q \in Requests, CommitCreate(c, q)
      PROVE  \A r \in Requests : RowStep(r)
  BY <1>2, CreateFacts DEF RowStep, RowsKeep
<1>3. ASSUME NEW c \in Calls, CommitDecide(c)
      PROVE  \A r \in Requests : RowStep(r)
  BY <1>3, DecideFacts DEF RowStep, RowsKeep
<1>4. ASSUME NEW c \in Calls, CommitCancel(c)
      PROVE  \A r \in Requests : RowStep(r)
  BY <1>4, CancelFacts DEF RowStep, RowsKeep
<1>5. CASE UNCHANGED vars
  BY <1>5 DEF vars, RowStep
<1> QED
  BY <1>1, <1>2, <1>3, <1>4, <1>5, NextCases DEF RowStep

LEMMA SnapshotStep ==
  ASSUME TypeOK, SnapshotInv, [Next]_vars
  PROVE  SnapshotInv'
<1> SUFFICES ASSUME NEW c \in Calls, NEW r \in Requests,
                    call'[c].at = "tx", seen'[c][r].status # "none"
             PROVE  /\ db'[r].status # "none" /\ db'[r].version = seen'[c][r].version
                    /\ seen'[c][r].status # "PENDING" => db'[r].status = seen'[c][r].status
  BY DEF SnapshotInv
<1>1. RowStep(r)
  BY RowStepHolds
<1>2. CASE call'[c] = call[c] /\ seen'[c] = seen[c]
  BY <1>1, <1>2 DEF SnapshotInv, RowStep
<1>3. CASE Begin(c)
  BY <1>3, BeginFacts
<1>4. CASE Begin(c) \/ (call'[c] = call[c] /\ seen'[c] = seen[c])
  BY <1>2, <1>3, <1>4
<1>5. ASSUME NEW d \in Calls,
             \/ Start(d) \/ Refuse(d) \/ Abort(d) \/ Notify(d)
             \/ \E q \in Requests : CommitCreate(d, q)
             \/ CommitDecide(d) \/ CommitCancel(d)
      PROVE  call'[c] = call[c] /\ seen'[c] = seen[c]
  <2>1. OthersKeep(d) /\ call'[d].at # "tx"
    BY <1>5, StartFacts, QuitFacts, NotifyFacts, CreateFacts, DecideFacts, CancelFacts
  <2> QED
    BY <2>1 DEF OthersKeep
<1>6. ASSUME NEW d \in Calls, Begin(d), d # c
      PROVE  call'[c] = call[c] /\ seen'[c] = seen[c]
  BY <1>6, BeginFacts
<1>7. CASE UNCHANGED vars
  BY <1>2, <1>7 DEF vars
<1> QED
  BY <1>4, <1>5, <1>6, <1>7, NextCases

LEMMA AskedStep ==
  ASSUME TypeOK, AskedInv, [Next]_vars
  PROVE  AskedInv'
<1>1. ASSUME NEW c \in Calls,
             \/ Refuse(c) \/ Abort(c) \/ Notify(c)
             \/ \E r \in Requests : CommitCreate(c, r)
             \/ CommitDecide(c) \/ CommitCancel(c)
      PROVE  OthersKeep(c) /\ call'[c].at \notin {"checked", "tx"}
  BY <1>1, QuitFacts, NotifyFacts, CreateFacts, DecideFacts, CancelFacts
<1>2. ASSUME NEW c \in Calls, Start(c) PROVE AskedInv'
  BY <1>2, StartFacts DEF AskedInv, OthersKeep
<1>3. ASSUME NEW c \in Calls, Begin(c) PROVE AskedInv'
  BY <1>3, BeginFacts DEF AskedInv
<1>4. ASSUME NEW c \in Calls, OthersKeep(c), call'[c].at \notin {"checked", "tx"}
      PROVE  AskedInv'
  BY <1>4 DEF AskedInv, OthersKeep
<1>5. CASE UNCHANGED vars
  BY <1>5 DEF vars, AskedInv
<1> QED
  BY <1>1, <1>2, <1>3, <1>4, <1>5, NextCases

LEMMA RowsStep ==
  ASSUME TypeOK, RowsInv, [Next]_vars
  PROVE  RowsInv'
<1>1. ASSUME NEW c \in Calls, Start(c) \/ Begin(c) \/ Refuse(c) \/ Abort(c) \/ Notify(c)
      PROVE  db' = db
  BY <1>1, StartFacts, BeginFacts, QuitFacts, NotifyFacts
<1>2. ASSUME NEW c \in Calls, NEW r \in Requests, CommitCreate(c, r) PROVE RowsInv'
  <2>1. /\ RowsKeep(r) /\ db'[r].status = "PENDING" /\ db'[r].version \in Versions
    BY <1>2, CreateFacts
  <2> QED
    BY <2>1 DEF RowsInv, RowsKeep
<1>3. ASSUME NEW c \in Calls, CommitDecide(c) PROVE RowsInv'
  <2>1. PICK r \in Requests : /\ RowsKeep(r) /\ db[r].status = "PENDING"
                              /\ db'[r].status # "none" /\ db'[r].version = db[r].version
    BY <1>3, DecideFacts
  <2> QED
    BY <2>1 DEF RowsInv, RowsKeep
<1>4. ASSUME NEW c \in Calls, CommitCancel(c) PROVE RowsInv'
  BY <1>4, CancelFacts DEF RowsInv, RowsKeep
<1>5. CASE UNCHANGED vars
  BY <1>5 DEF vars, RowsInv
<1> QED
  BY <1>1, <1>2, <1>3, <1>4, <1>5, NextCases DEF RowsInv

-----------------------------------------------------------------------------
(* The last approval approves, a rejection rejects, another leaves the      *)
(* request pending: the counts agree with what the votes amount to.         *)
LEMMA ResolutionIsOutcome ==
  ASSUME NEW row \in Row, NEW u \in Users, NEW verdict \in Verdicts,
         row.status = "PENDING", Ledger!Outcome(row.decision, FALSE) = "PENDING"
  PROVE  LET vote == [row.decision EXCEPT ![u] = verdict]
         IN  Ledger!Outcome(vote, FALSE) = Resolution(row, u, verdict)
<1> DEFINE vote == [row.decision EXCEPT ![u] = verdict]
<1>1. row.decision \in [Users -> {"none", "PENDING", "APPROVED", "REJECTED"}]
  BY DEF Row
<1>2. vote[u] = verdict /\ \A x \in Users : x # u => vote[x] = row.decision[x]
  BY <1>1
<1>3. \A x \in Users : row.decision[x] # "REJECTED"
  BY DEF Ledger!Outcome
<1>4. CASE verdict = "REJECTED"
  BY <1>2, <1>4 DEF Resolution, Ledger!Outcome
<1>5. CASE verdict = "APPROVED"
  <2>1. \A x \in Users : vote[x] # "REJECTED"
    BY <1>2, <1>3, <1>5
  <2>2. Resolution(row, u, verdict)
          = IF \E x \in Users : x # u /\ row.decision[x] \in {"PENDING", "REJECTED"}
              THEN "PENDING" ELSE "APPROVED"
    BY <1>5 DEF Resolution
  <2>3. (\E x \in Users : x # u /\ row.decision[x] \in {"PENDING", "REJECTED"})
          <=> \E x \in Users : vote[x] = "PENDING"
    BY <1>2, <1>3, <1>5
  <2> QED
    BY <2>1, <2>2, <2>3 DEF Ledger!Outcome
<1> QED
  BY <1>4, <1>5 DEF Verdicts

LEMMA OutcomeStep ==
  ASSUME TypeOK, AskedInv, StatusIsOutcome, [Next]_vars
  PROVE  StatusIsOutcome'
<1> DEFINE Fits(row) == row.status # "none" =>
             row.status = Ledger!Outcome(row.decision, row.status = "CANCELED")
<1>0. (\A r \in Requests : Fits(db[r])) /\ (StatusIsOutcome' <=> \A r \in Requests : Fits(db'[r]))
  BY DEF StatusIsOutcome, Ledger!Outcome
<1>1. ASSUME NEW c \in Calls, Start(c) \/ Begin(c) \/ Refuse(c) \/ Abort(c) \/ Notify(c)
      PROVE  db' = db
  BY <1>1, StartFacts, BeginFacts, QuitFacts, NotifyFacts
<1>2. ASSUME NEW c \in Calls, NEW r \in Requests, CommitCreate(c, r)
      PROVE  \A q \in Requests : Fits(db'[q])
  <2>1. /\ RowsKeep(r) /\ db'[r].status = "PENDING"
        /\ db'[r].decision = [u \in Users |-> IF u \in call[c].approvers
                                                 THEN "PENDING" ELSE "none"]
    BY <1>2, CreateFacts
  <2>2. call[c].approvers # {} /\ call[c].approvers \subseteq Users
    BY <1>2, CreateFacts DEF AskedInv, TypeOK, Call
  <2>3. Ledger!Outcome(db'[r].decision, FALSE) = "PENDING"
    BY <2>1, <2>2 DEF Ledger!Outcome
  <2>4. Fits(db'[r])
    BY <2>1, <2>3 DEF Ledger!Outcome
  <2> QED
    BY <1>0, <2>1, <2>4 DEF RowsKeep
<1>3. ASSUME NEW c \in Calls, CommitDecide(c)
      PROVE  \A q \in Requests : Fits(db'[q])
  <2> DEFINE r == call[c].request
             u == call[c].user
             verdict == call[c].verdict
  <2>1. /\ r \in Requests /\ u \in Users /\ verdict \in Verdicts /\ RowsKeep(r)
        /\ db[r].status = "PENDING" /\ db'[r].status = Resolution(db[r], u, verdict)
        /\ Resolution(db[r], u, verdict) # "CANCELED"
        /\ db'[r].decision = [db[r].decision EXCEPT ![u] = verdict]
    BY <1>3, DecideFacts
  <2>2. db[r] \in Row
    BY <2>1 DEF TypeOK
  <2>3. Ledger!Outcome(db[r].decision, FALSE) = "PENDING"
    BY <1>0, <2>1 DEF Ledger!Outcome
  <2> DEFINE vote == [db[r].decision EXCEPT ![u] = verdict]
  <2>4. Ledger!Outcome(vote, FALSE) = Resolution(db[r], u, verdict)
    BY <2>1, <2>2, <2>3, ResolutionIsOutcome, Zenon
  <2>5. Fits(db'[r])
    <3>1. db'[r].decision = vote /\ db'[r].status # "CANCELED"
      BY <2>1
    <3> QED
      BY <2>1, <2>4, <3>1 DEF Ledger!Outcome
  <2> QED
    BY <1>0, <2>1, <2>5 DEF RowsKeep
<1>4. ASSUME NEW c \in Calls, CommitCancel(c)
      PROVE  \A q \in Requests : Fits(db'[q])
  <2>1. PICK r \in Requests : RowsKeep(r) /\ db'[r].status = "CANCELED"
    BY <1>4, CancelFacts
  <2>2. Fits(db'[r])
    BY <2>1 DEF Ledger!Outcome
  <2> QED
    BY <1>0, <2>1, <2>2 DEF RowsKeep
<1>5. CASE UNCHANGED vars
  BY <1>0, <1>5 DEF vars
<1> QED
  BY <1>0, <1>1, <1>2, <1>3, <1>4, <1>5, NextCases

-----------------------------------------------------------------------------
(* A create that commits saw every request of its version, none pending, so *)
(* none is pending now.                                                     *)
LEMMA NonePending ==
  ASSUME TypeOK, SnapshotInv, NEW c \in Calls, NEW r \in Requests, CommitCreate(c, r)
  PROVE  \A q \in Requests : db[q].version = call[c].version => db[q].status # "PENDING"
<1> SUFFICES ASSUME NEW q \in Requests, db[q].version = call[c].version,
                    db[q].status = "PENDING"
             PROVE  FALSE
  OBVIOUS
<1>1. call[c].at = "tx" /\ call[c].op = "create"
  BY DEF CommitCreate
<1>2. seen[c][q].status # "none"
  BY <1>1 DEF CommitCreate, Certified
<1>3. seen[c][q].version = call[c].version /\ seen[c][q].status = "PENDING"
  BY <1>1, <1>2 DEF SnapshotInv
<1> QED
  BY <1>1, <1>3 DEF CommitCreate, Allowed

LEMMA OnePendingStep ==
  ASSUME TypeOK, SnapshotInv, OnePendingPerVersion, [Next]_vars
  PROVE  OnePendingPerVersion'
<1>1. ASSUME NEW c \in Calls, Start(c) \/ Begin(c) \/ Refuse(c) \/ Abort(c) \/ Notify(c)
      PROVE  db' = db
  BY <1>1, StartFacts, BeginFacts, QuitFacts, NotifyFacts
<1>2. ASSUME NEW c \in Calls, NEW r \in Requests, CommitCreate(c, r)
      PROVE  OnePendingPerVersion'
  <2>1. RowsKeep(r) /\ db'[r].version = call[c].version
    BY <1>2, CreateFacts
  <2> QED
    BY <1>2, <2>1, NonePending DEF OnePendingPerVersion, RowsKeep
<1>3. ASSUME NEW c \in Calls, CommitDecide(c) \/ CommitCancel(c)
      PROVE  OnePendingPerVersion'
  <2>1. PICK r \in Requests : /\ RowsKeep(r) /\ db[r].status = "PENDING"
                              /\ db'[r].version = db[r].version
    BY <1>3, DecideFacts, CancelFacts
  <2> QED
    BY <2>1 DEF OnePendingPerVersion, RowsKeep
<1>4. CASE UNCHANGED vars
  BY <1>4 DEF vars, OnePendingPerVersion
<1> QED
  BY <1>1, <1>2, <1>3, <1>4, NextCases DEF OnePendingPerVersion

-----------------------------------------------------------------------------
IInv == TypeOK /\ RowsInv /\ AskedInv /\ SnapshotInv /\ StatusIsOutcome /\ OnePendingPerVersion

LEMMA IInvInit == Init => IInv
<1> SUFFICES ASSUME Init PROVE IInv
  OBVIOUS
<1>1. TypeOK
  BY TypeInit
<1>2. /\ \A r \in Requests : /\ db[r].status = "none" /\ db[r].version = NoVersion
                             /\ \A u \in Users : db[r].decision[u] = "none"
      /\ \A c \in Calls : call[c].at = "idle"
  BY IdleType DEF Init, NoRows
<1> QED
  BY <1>1, <1>2 DEF IInv, RowsInv, AskedInv, SnapshotInv, StatusIsOutcome, OnePendingPerVersion

LEMMA IInvStep == IInv /\ [Next]_vars => IInv'
  BY TypeStep, RowsStep, AskedStep, SnapshotStep, OutcomeStep, OnePendingStep DEF IInv

LEMMA IInvHolds == Spec => []IInv
  BY IInvInit, IInvStep, PTL DEF Spec

(* The status column is always what the decision rows amount to.            *)
THEOREM StatusIsOutcomeHolds == Spec => []StatusIsOutcome
<1>1. IInv => StatusIsOutcome
  BY DEF IInv
<1> QED
  BY <1>1, IInvHolds, PTL

(* However many editors ask at once, one request per version is pending.    *)
THEOREM OnePendingPerVersionHolds == Spec => []OnePendingPerVersion
<1>1. IInv => OnePendingPerVersion
  BY DEF IInv
<1> QED
  BY <1>1, IInvHolds, PTL

-----------------------------------------------------------------------------
(* A call on its way to tell the requester about a request that was decided *)
(* is the only one, and nobody was told before.                             *)
Telling(c, r, s) == /\ call[c].at = "notify" /\ call[c].request = r
                    /\ call[c].outcome = s /\ s \in Verdicts

NoticeInv ==
  /\ \A c \in Calls, r \in Requests, s \in Verdicts : Telling(c, r, s) =>
       /\ db[r].status = s
       /\ \A t \in Verdicts : notices[r][t] = 0
       /\ \A d \in Calls, t \in Verdicts : Telling(d, r, t) => d = c
  /\ \A r \in Requests, s \in Verdicts :
       notices[r][s] # 0 => notices[r][s] = 1 /\ db[r].status = s

LEMMA NoticeInit == Init => NoticeInv
  BY IdleType DEF Init, NoticeInv, Telling

LEMMA NoticeStep ==
  ASSUME TypeOK, NoticeInv, [Next]_vars
  PROVE  NoticeInv'
<1>0. /\ \A r \in Requests : RowStep(r)
      /\ notices \in [Requests -> [Verdicts -> Nat]]
      /\ call \in [Calls -> Call]
  BY RowStepHolds DEF TypeOK
<1>1. ASSUME NEW c \in Calls,
             \/ Start(c) \/ Begin(c) \/ Refuse(c) \/ Abort(c)
             \/ \E r \in Requests : CommitCreate(c, r)
             \/ CommitCancel(c)
      PROVE  NoticeInv'
  <2>1. /\ call'[c].at # "notify" /\ notices' = notices
        /\ \A d \in Calls : d # c => call'[d] = call[d]
    BY <1>1, StartFacts, BeginFacts, QuitFacts, CreateFacts, CancelFacts DEF OthersKeep
  <2>2. \A d \in Calls, r \in Requests, s \in Verdicts : Telling(d, r, s)' => Telling(d, r, s)
    BY <2>1 DEF Telling
  <2> QED
    BY <1>0, <2>1, <2>2 DEF NoticeInv, RowStep, Verdicts
<1>2. ASSUME NEW c \in Calls, CommitDecide(c) PROVE NoticeInv'
  <2> DEFINE r == call[c].request
  <2>1. /\ r \in Requests /\ db[r].status = "PENDING" /\ notices' = notices
        /\ db'[r].status = call'[c].outcome /\ call'[c].request = r
        /\ \A d \in Calls : d # c => call'[d] = call[d]
    BY <1>2, DecideFacts DEF OthersKeep
  <2>2. /\ \A t \in Verdicts : notices[r][t] = 0
        /\ \A d \in Calls, t \in Verdicts : ~Telling(d, r, t)
    BY <2>1 DEF NoticeInv, Verdicts
  <2>3. \A d \in Calls, q \in Requests, s \in Verdicts :
          Telling(d, q, s)' =>
            \/ Telling(d, q, s) /\ d # c /\ q # r
            \/ d = c /\ q = r /\ s = db'[r].status
    BY <2>1, <2>2 DEF Telling
  <2> QED
    BY <1>0, <2>1, <2>2, <2>3 DEF NoticeInv, RowStep, Verdicts
<1>3. ASSUME NEW c \in Calls, Notify(c) PROVE NoticeInv'
  <2> DEFINE r == call[c].request
             s == call[c].outcome
  <2>1. /\ r \in Requests /\ db' = db /\ call[c].at = "notify" /\ call'[c].at = "idle"
        /\ \A d \in Calls : d # c => call'[d] = call[d]
        /\ notices' = IF s \in Verdicts THEN [notices EXCEPT ![r][s] = @ + 1] ELSE notices
    BY <1>0, <1>3, NotifyFacts DEF OthersKeep, Call
  <2>2. \A d \in Calls, q \in Requests, t \in Verdicts :
          Telling(d, q, t)' => Telling(d, q, t) /\ d # c
    BY <2>1 DEF Telling
  <2>3. CASE s \notin Verdicts
    BY <2>1, <2>2, <2>3 DEF NoticeInv
  <2>4. CASE s \in Verdicts
    <3>1. Telling(c, r, s)
      BY <2>1, <2>4 DEF Telling
    <3>2. /\ db[r].status = s /\ \A t \in Verdicts : notices[r][t] = 0
          /\ \A d \in Calls, t \in Verdicts : Telling(d, r, t) => d = c
      BY <2>1, <2>4, <3>1 DEF NoticeInv
    <3>3. /\ \A q \in Requests, t \in Verdicts : q # r => notices'[q][t] = notices[q][t]
          /\ \A t \in Verdicts : notices'[r][t] = IF t = s THEN 1 ELSE 0
      BY <1>0, <2>1, <2>4, <3>2
    <3> QED
      BY <2>1, <2>2, <3>2, <3>3 DEF NoticeInv
  <2> QED
    BY <2>3, <2>4
<1>4. CASE UNCHANGED vars
  BY <1>4 DEF vars, NoticeInv, Telling
<1> QED
  BY <1>1, <1>2, <1>3, <1>4, NextCases

(* The requester is told of one outcome at most, once, and the stored one.  *)
THEOREM OneOutcomeNoticeHolds == Spec => []OneOutcomeNotice
<1>1. TypeOK /\ NoticeInv => OneOutcomeNotice
  BY DEF TypeOK, NoticeInv, OneOutcomeNotice
<1> QED
  BY <1>1, TypeInit, TypeStep, NoticeInit, NoticeStep, PTL DEF Spec

-----------------------------------------------------------------------------
(* The refinement: a commit is one step of the ledger, every other step of  *)
(* a call changes nothing the ledger sees.                                  *)
about == [r \in Requests |-> db[r].version]
votes == [r \in Requests |-> db[r].decision]
withdrawn == [r \in Requests |-> db[r].status = "CANCELED"]

LEMMA OpenIsPending ==
  ASSUME RowsInv, StatusIsOutcome, NEW r \in Requests
  PROVE  Ledger!Open(r) <=> db[r].status = "PENDING"
<1>1. CASE db[r].status = "none"
  BY <1>1 DEF RowsInv, Ledger!Open
<1>2. CASE db[r].status # "none"
  <2>1. db[r].version # NoVersion
    BY <1>2 DEF RowsInv
  <2>2. db[r].status = Ledger!Outcome(db[r].decision, db[r].status = "CANCELED")
    BY <1>2 DEF StatusIsOutcome
  <2> QED
    BY <2>1, <2>2 DEF Ledger!Open
<1> QED
  BY <1>1, <1>2

LEMMA LedgerInit == Init => Ledger!Init
<1>1. ASSUME Init
      PROVE  \A r \in Requests : /\ db[r].version = NoVersion
                                 /\ db[r].decision = [u \in Users |-> "none"]
                                 /\ (db[r].status = "CANCELED") = FALSE
  BY <1>1 DEF Init, NoRows
<1> QED
  BY <1>1, Zenon DEF Ledger!Init

LEMMA LedgerAsk ==
  ASSUME IInv, NEW c \in Calls, NEW r \in Requests, CommitCreate(c, r)
  PROVE  Ledger!Next
<1>0. PICK v \in Versions, approvers \in SUBSET Users :
        v = call[c].version /\ approvers = call[c].approvers
  BY DEF IInv, TypeOK, Call
<1>1. /\ RowsKeep(r) /\ db[r].status = "none" /\ db'[r].status = "PENDING"
      /\ db'[r].version = v
      /\ db'[r].decision = [u \in Users |-> IF u \in approvers THEN "PENDING" ELSE "none"]
  BY <1>0, CreateFacts DEF IInv
<1>2. approvers # {}
  BY <1>0, CreateFacts DEF IInv, AskedInv
<1>3. about[r] = NoVersion
  BY <1>1 DEF about, IInv, RowsInv
<1>4. \A q \in Requests : about[q] = v => ~Ledger!Open(q)
  BY <1>0, NonePending, OpenIsPending DEF IInv, about
<1>5. about' = [about EXCEPT ![r] = v]
  BY <1>1 DEF about, RowsKeep
<1>6. votes' = [votes EXCEPT ![r] = [u \in Users |->
                               IF u \in approvers THEN "PENDING" ELSE "none"]]
  BY <1>1 DEF votes, RowsKeep
<1>7. withdrawn' = withdrawn
  <2>1. \A q \in Requests : db'[q].status = "CANCELED" <=> db[q].status = "CANCELED"
    BY <1>1 DEF RowsKeep
  <2> QED
    BY <2>1 DEF withdrawn
<1>8. Ledger!Ask(r, v, approvers)
  BY <1>2, <1>3, <1>4, <1>5, <1>6, <1>7 DEF Ledger!Ask, about, votes, withdrawn
<1> QED
  BY <1>8 DEF Ledger!Next

LEMMA LedgerVote ==
  ASSUME IInv, NEW c \in Calls, CommitDecide(c)
  PROVE  Ledger!Next
<1>0. PICK r \in Requests, u \in Users, verdict \in {"APPROVED", "REJECTED"} :
        r = call[c].request /\ u = call[c].user /\ verdict = call[c].verdict
  BY DEF IInv, TypeOK, Call, Verdicts
<1>1. /\ RowsKeep(r)
      /\ db[r].status = "PENDING" /\ db[r].decision[u] = "PENDING"
      /\ db'[r].status # "CANCELED" /\ db'[r].version = db[r].version
      /\ db'[r].decision = [db[r].decision EXCEPT ![u] = verdict]
  BY <1>0, DecideFacts DEF IInv
<1>2. Ledger!Open(r) /\ votes[r][u] = "PENDING"
  BY <1>1, OpenIsPending DEF IInv, votes
<1>3. about' = about
  BY <1>1 DEF about, RowsKeep
<1>4. votes' = [votes EXCEPT ![r][u] = verdict]
  BY <1>1 DEF votes, RowsKeep
<1>5. withdrawn' = withdrawn
  <2>1. \A q \in Requests : db'[q].status = "CANCELED" <=> db[q].status = "CANCELED"
    BY <1>1 DEF RowsKeep
  <2> QED
    BY <2>1 DEF withdrawn
<1>6. Ledger!Vote(r, u, verdict)
  BY <1>2, <1>3, <1>4, <1>5 DEF Ledger!Vote, about, votes, withdrawn
<1> QED
  BY <1>6 DEF Ledger!Next

LEMMA LedgerWithdraw ==
  ASSUME IInv, NEW c \in Calls, CommitCancel(c)
  PROVE  Ledger!Next
<1>1. PICK r \in Requests : /\ RowsKeep(r) /\ db[r].status = "PENDING"
                            /\ db'[r].status = "CANCELED" /\ db'[r].version = db[r].version
                            /\ db'[r].decision = db[r].decision
  BY CancelFacts DEF IInv
<1>2. Ledger!Open(r)
  BY <1>1, OpenIsPending DEF IInv
<1>3. about' = about /\ votes' = votes
  BY <1>1 DEF about, votes, RowsKeep
<1>4. withdrawn' = [withdrawn EXCEPT ![r] = TRUE]
  <2>1. \A q \in Requests : (db'[q].status = "CANCELED")
                              = IF q = r THEN TRUE ELSE db[q].status = "CANCELED"
    BY <1>1 DEF RowsKeep
  <2> QED
    BY <2>1, Zenon DEF withdrawn
<1>5. Ledger!Withdraw(r)
  BY <1>2, <1>3, <1>4 DEF Ledger!Withdraw, about, votes, withdrawn
<1> QED
  BY <1>5 DEF Ledger!Next

LEMMA LedgerStep ==
  ASSUME IInv, [Next]_vars
  PROVE  [Ledger!Next]_(Ledger!ledger)
<1>1. ASSUME NEW c \in Calls, Start(c) \/ Begin(c) \/ Refuse(c) \/ Abort(c) \/ Notify(c)
      PROVE  db' = db
  BY <1>1, StartFacts, BeginFacts, QuitFacts, NotifyFacts DEF IInv
<1>2. db' = db => UNCHANGED Ledger!ledger
  BY DEF Ledger!ledger
<1>3. CASE UNCHANGED vars
  BY <1>2, <1>3 DEF vars
<1> QED
  BY <1>1, <1>2, <1>3, LedgerAsk, LedgerVote, LedgerWithdraw, NextCases

(* Create, decide and cancel, with their snapshots, aborts and lost         *)
(* notices, implement the ledger of votes.                                  *)
THEOREM ImplementsLedgerHolds == Spec => ImplementsLedger
  BY IInvHolds, LedgerInit, LedgerStep, PTL DEF Spec, ImplementsLedger, Ledger!Spec
=============================================================================

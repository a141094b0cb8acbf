----------------------------- MODULE Approvals -----------------------------
(***************************************************************************)
(* The approval routes: create, decide and cancel.  Each call checks its   *)
(* guards, opens a Serializable transaction that reads the tables again    *)
(* (its snapshot), and commits, or is refused, or aborts with P2034.  The  *)
(* outcome notice goes out after the commit, so it can be lost.            *)
(*                                                                         *)
(* The transactions' isolation (external: PostgreSQL SSI) is modelled by   *)
(* certification: every transaction on a request reads all of its rows and *)
(* writes one of them, so of two concurrent ones only the first can        *)
(* commit.  Session, rate limit, notes and messages are abstracted;        *)
(* project roles are fixed.                                                *)
(***************************************************************************)
EXTENDS Integers, FiniteSets

CONSTANTS
  Users, Versions,
  Requests,    \* bound: the approval_requests rows a behaviour can create
  Editors,     \* users with canEdit on the project
  Candidates,  \* getApprovalCandidatesForProject
  Calls,       \* bound: route calls in flight at a time
  NoVersion

ASSUME RolesAssumption == Editors \subseteq Users /\ Candidates \subseteq Users
ASSUME NoVersionAssumption == NoVersion \notin Versions
ASSUME NonEmptyAssumption == Users # {} /\ Versions # {} /\ Requests # {}

VARIABLES
  db,       \* approval_requests with their approval_decisions rows
  call,     \* the route calls in flight
  seen,     \* the snapshot of each call's transaction
  notices   \* outcome notices sent to the requester

vars == <<db, call, seen, notices>>

Closed == {"APPROVED", "REJECTED", "CANCELED"}
Verdicts == {"APPROVED", "REJECTED"}
Bodies == Verdicts \cup {"PENDING"}   \* what a client may send as its decision

\* A request row with its decision rows; "none": the row does not exist.
Row == [status : {"none", "PENDING"} \cup Closed,
        version : Versions \cup {NoVersion},
        by : Users,
        decision : [Users -> {"none", "PENDING", "APPROVED", "REJECTED"}]]

Call == [op : {"create", "decide", "cancel"},
         at : {"idle", "checked", "tx", "notify"},
         user : Users, request : Requests, version : Versions,
         verdict : Verdicts, approvers : SUBSET Users,
         outcome : {"none", "PENDING"} \cup Closed]

TypeOK ==
  /\ db \in [Requests -> Row]
  /\ call \in [Calls -> Call]
  /\ seen \in [Calls -> [Requests -> Row]]
  /\ notices \in [Requests -> [Verdicts -> Nat]]

\* The tables before anything is asked, and a call that is not being made.
NoRows == [r \in Requests |-> [status |-> "none", version |-> NoVersion,
                               by |-> CHOOSE u \in Users : TRUE,
                               decision |-> [u \in Users |-> "none"]]]
Idle == [op |-> "create", at |-> "idle", user |-> CHOOSE u \in Users : TRUE,
         request |-> CHOOSE r \in Requests : TRUE,
         version |-> CHOOSE v \in Versions : TRUE,
         verdict |-> "APPROVED", approvers |-> {}, outcome |-> "none"]

Init ==
  /\ db = NoRows
  /\ call = [c \in Calls |-> Idle]
  /\ seen = [c \in Calls |-> NoRows]
  /\ notices = [r \in Requests |-> [s \in Verdicts |-> 0]]

\* The call moves on, and its transaction, if it had one, is over.
Leave(c, k) ==
  /\ call' = [call EXCEPT ![c] = k]
  /\ seen' = [seen EXCEPT ![c] = NoRows]

-----------------------------------------------------------------------------
(* The checks of a route before its transaction.                           *)

StartCreate(c, u, v, approvers) ==
  /\ call[c].at = "idle"
  /\ u \in Editors
  /\ approvers # {} /\ u \notin approvers /\ approvers \subseteq Candidates
  /\ call' = [call EXCEPT ![c] = [Idle EXCEPT !.op = "create", !.at = "checked",
                                     !.user = u, !.version = v, !.approvers = approvers]]
  /\ UNCHANGED <<db, seen, notices>>

\* Mutant of ValidDecision: the body is not validated.
AnyDecision(decision) == TRUE

ValidDecision(decision) == decision \in Verdicts

StartDecide(c, u, r, verdict) ==
  /\ call[c].at = "idle"
  /\ ValidDecision(verdict)
  /\ db[r].status = "PENDING" /\ db[r].decision[u] = "PENDING"
  /\ call' = [call EXCEPT ![c] = [Idle EXCEPT !.op = "decide", !.at = "checked",
                                     !.user = u, !.request = r, !.verdict = verdict]]
  /\ UNCHANGED <<db, seen, notices>>

StartCancel(c, u, r) ==
  /\ call[c].at = "idle"
  /\ db[r].status = "PENDING"
  /\ u = db[r].by \/ u \in Editors
  /\ call' = [call EXCEPT ![c] = [Idle EXCEPT !.op = "cancel", !.at = "checked",
                                     !.user = u, !.request = r]]
  /\ UNCHANGED <<db, seen, notices>>

-----------------------------------------------------------------------------
(* The Serializable transaction.                                           *)

Begin(c) ==
  /\ call[c].at = "checked"
  /\ seen' = [seen EXCEPT ![c] = db]
  /\ call' = [call EXCEPT ![c].at = "tx"]
  /\ UNCHANGED <<db, notices>>

\* Mutant of Allowed: findFirst for a pending request is forgotten.
AllowedAnyVersion(k, s) ==
  /\ k.op # "create" => s[k.request].status = "PENDING"
  /\ k.op = "decide" => s[k.request].decision[k.user] = "PENDING"

\* The transaction's own checks, on its snapshot.
Allowed(k, s) ==
  /\ k.op = "create" =>
       ~\E r \in Requests : s[r].version = k.version /\ s[r].status = "PENDING"
  /\ k.op # "create" => s[k.request].status = "PENDING"
  /\ k.op = "decide" => s[k.request].decision[k.user] = "PENDING"

Refuse(c) ==
  /\ call[c].at = "tx"
  /\ ~Allowed(call[c], seen[c])
  /\ Leave(c, Idle)
  /\ UNCHANGED <<db, notices>>

\* Mutant of Certified: the isolationLevel option is dropped.
NotCertified(k, s) == TRUE

\* Nothing the transaction has read was written since its snapshot.
Certified(k, s) ==
  IF k.op = "create"
    THEN \A r \in Requests : db[r].status # "none" /\ db[r].version = k.version
                               => s[r].status # "none"
    ELSE db[k.request] = s[k.request]

\* Mutant of Resolution: the counts are taken before the vote is written.
ResolutionBeforeVote(row, u, verdict) ==
  IF verdict = "REJECTED" THEN "REJECTED"
  ELSE IF \A x \in Users : row.decision[x] \in {"none", "APPROVED"} THEN "APPROVED"
  ELSE row.status

\* The request's status after u's vote: pendingCount and rejectedCount are
\* counted with the new vote in place.
Resolution(row, u, verdict) ==
  LET others == {x \in Users \ {u} : row.decision[x] \in {"PENDING", "REJECTED"}}
  IN IF verdict = "REJECTED" THEN "REJECTED"
     ELSE IF others = {} THEN "APPROVED"
     ELSE row.status

CommitCreate(c, r) ==
  /\ call[c].at = "tx" /\ call[c].op = "create"
  /\ Allowed(call[c], seen[c]) /\ Certified(call[c], seen[c])
  /\ db[r].status = "none"
  /\ db' = [db EXCEPT ![r] =
              [status |-> "PENDING", version |-> call[c].version, by |-> call[c].user,
               decision |-> [u \in Users |-> IF u \in call[c].approvers
                                               THEN "PENDING" ELSE "none"]]]
  /\ Leave(c, Idle)
  /\ UNCHANGED notices

CommitDecide(c) ==
  LET k == call[c]
      status == Resolution(seen[c][k.request], k.user, k.verdict)
  IN /\ k.at = "tx" /\ k.op = "decide"
     /\ Allowed(k, seen[c]) /\ Certified(k, seen[c])
     /\ db' = [db EXCEPT ![k.request].decision[k.user] = k.verdict,
                         ![k.request].status = IF status = "PENDING" THEN @ ELSE status]
     /\ Leave(c, [Idle EXCEPT !.at = "notify", !.request = k.request, !.outcome = status])
     /\ UNCHANGED notices

CommitCancel(c) ==
  LET k == call[c]
  IN /\ k.at = "tx" /\ k.op = "cancel"
     /\ Allowed(k, seen[c]) /\ Certified(k, seen[c])
     /\ db' = [db EXCEPT ![k.request].status = "CANCELED"]
     /\ Leave(c, Idle)
     /\ UNCHANGED notices

\* P2034, a lost connection, a stopped server: the transaction leaves no trace,
\* and a notice not yet sent is never sent.
Abort(c) ==
  /\ call[c].at # "idle"
  /\ Leave(c, Idle)
  /\ UNCHANGED <<db, notices>>

\* notifyUsers after the commit: approval_completed or approval_rejected.
Notify(c) ==
  LET k == call[c]
  IN /\ k.at = "notify"
     /\ notices' = IF k.outcome \in Verdicts
                     THEN [notices EXCEPT ![k.request][k.outcome] = @ + 1]
                     ELSE notices
     /\ Leave(c, Idle)
     /\ UNCHANGED db

-----------------------------------------------------------------------------
Next ==
  \E c \in Calls :
    \/ \E u \in Users, v \in Versions, approvers \in SUBSET Users :
         StartCreate(c, u, v, approvers)
    \/ \E u \in Users, r \in Requests, verdict \in Bodies : StartDecide(c, u, r, verdict)
    \/ \E u \in Users, r \in Requests : StartCancel(c, u, r)
    \/ Begin(c)
    \/ Refuse(c)
    \/ \E r \in Requests : CommitCreate(c, r)
    \/ CommitDecide(c)
    \/ CommitCancel(c)
    \/ Abort(c)
    \/ Notify(c)

Spec == Init /\ [][Next]_vars

-----------------------------------------------------------------------------
(* Properties.                                                             *)

Ledger == INSTANCE ApprovalLedger WITH
  about <- [r \in Requests |-> db[r].version],
  votes <- [r \in Requests |-> db[r].decision],
  withdrawn <- [r \in Requests |-> db[r].status = "CANCELED"]

\* The stored status is always what the stored votes say: APPROVED exactly when
\* every approver has approved, REJECTED exactly when one has rejected, and a
\* PENDING request still has somebody to answer it, whatever two approvers, or
\* an approver and a cancel, do at the same time.
StatusIsOutcome ==
  \A r \in Requests : db[r].status # "none" =>
    db[r].status = Ledger!Outcome(db[r].decision, db[r].status = "CANCELED")

\* Two editors asking at once do not open two requests for one version.
OnePendingPerVersion ==
  \A q, r \in Requests :
    db[q].status = "PENDING" /\ db[r].status = "PENDING" /\ db[q].version = db[r].version
      => q = r

\* The requester hears of one outcome at most, once, and it is the stored one.
OneOutcomeNotice ==
  \A r \in Requests, s \in Verdicts :
    /\ notices[r][s] <= 1
    /\ notices[r][s] = 1 => db[r].status = s

\* The routes implement the ledger: every commit is one atomic vote, question
\* or withdrawal on an open request, and nothing touches a closed one.
ImplementsLedger == Ledger!Spec
=============================================================================

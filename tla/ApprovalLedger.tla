--------------------------- MODULE ApprovalLedger ---------------------------
(***************************************************************************)
(* What an approval request promises, with no stored status at all: a      *)
(* request is the set of its votes and whether it was withdrawn, and its   *)
(* outcome follows from them.  Every step is atomic.                       *)
(***************************************************************************)
CONSTANTS Users, Versions, Requests, NoVersion

VARIABLES
  about,      \* about[r]: the version r asks approval for, or NoVersion
  votes,      \* votes[r][u]: "none" when u is not an approver of r
  withdrawn   \* whether r was canceled

ledger == <<about, votes, withdrawn>>

Votes == {"none", "PENDING", "APPROVED", "REJECTED"}

\* Status is a function of the votes: one rejection rejects, unanimity approves.
Outcome(vote, canceled) ==
  IF canceled THEN "CANCELED"
  ELSE IF \E u \in Users : vote[u] = "REJECTED" THEN "REJECTED"
  ELSE IF \E u \in Users : vote[u] = "PENDING" THEN "PENDING"
  ELSE "APPROVED"

Open(r) == about[r] # NoVersion /\ Outcome(votes[r], withdrawn[r]) = "PENDING"

Init ==
  /\ about = [r \in Requests |-> NoVersion]
  /\ votes = [r \in Requests |-> [u \in Users |-> "none"]]
  /\ withdrawn = [r \in Requests |-> FALSE]

\* A version has one open request at a time, with at least one approver.
Ask(r, v, approvers) ==
  /\ about[r] = NoVersion
  /\ \A q \in Requests : about[q] = v => ~Open(q)
  /\ approvers # {}
  /\ about' = [about EXCEPT ![r] = v]
  /\ votes' = [votes EXCEPT ![r] = [u \in Users |->
                                      IF u \in approvers THEN "PENDING" ELSE "none"]]
  /\ UNCHANGED withdrawn

Vote(r, u, verdict) ==
  /\ Open(r) /\ votes[r][u] = "PENDING"
  /\ votes' = [votes EXCEPT ![r][u] = verdict]
  /\ UNCHANGED <<about, withdrawn>>

Withdraw(r) ==
  /\ Open(r)
  /\ withdrawn' = [withdrawn EXCEPT ![r] = TRUE]
  /\ UNCHANGED <<about, votes>>

Next ==
  \E r \in Requests :
    \/ \E v \in Versions, approvers \in SUBSET Users : Ask(r, v, approvers)
    \/ \E u \in Users, verdict \in {"APPROVED", "REJECTED"} : Vote(r, u, verdict)
    \/ Withdraw(r)

Spec == Init /\ [][Next]_ledger
=============================================================================

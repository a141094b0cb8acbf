---------------------------- MODULE Invitations ----------------------------
(***************************************************************************)
(* Invitations of one address to one workspace: the route that sends one   *)
(* (a SERIALIZABLE transaction that refreshes the pending invitation or    *)
(* makes one, retried a few times), the link that accepts it (a READ       *)
(* COMMITTED transaction), the route that cancels it (a read, then a       *)
(* write), and the routes that change or remove a member.                  *)
(*                                                                         *)
(* A SERIALIZABLE transaction commits only when the pending invitations it *)
(* read are still as it read them; otherwise PostgreSQL refuses it.  Tokens *)
(* are not counted: a link that no row's token opens any more does nothing. *)
(***************************************************************************)
EXTENDS Naturals

CONSTANTS
  Invites,   \* bound: invitation rows, numbered as they are made
  Senders,   \* invite requests that can be in progress at once
  Visitors,  \* accepted links that can be in progress at once
  Cancels,   \* cancel requests that can be in progress at once
  Attempts,  \* MAX_INVITATION_RETRIES
  Nobody     \* not a member; no row; no request

ASSUME InviteNumbersAssumption == Invites \subseteq Nat /\ Attempts \in Nat \ {0}
ASSUME NobodyAssumption == Nobody \notin Nat \cup {"ADMIN", "COMMENTATOR"}

VARIABLES
  invite,   \* invitations
  lapsed,   \* rows past expiresAt
  member,   \* the address's role in the workspace
  sender,   \* invite requests
  visitor,  \* accepts: the row that was read, and the role it offered
  canceler, \* cancel requests: the row that was PENDING
  applied   \* the accept that the last step applied, for the properties

inviteVars == <<invite, lapsed, member, sender, visitor, canceler, applied>>

Roles == {"COMMENTATOR", "ADMIN"}
Invite == [status : {"PENDING", "ACCEPTED", "EXPIRED", "CANCELED"}, role : Roles]

ASSUME NoInviteAssumption == Nobody \notin Invite

InvitationsTypeOK ==
  /\ invite \in [Invites -> Invite \cup {Nobody}]
  /\ lapsed \subseteq Invites
  /\ member \in Roles \cup {Nobody}
  /\ sender \in [Senders ->
       [at : {"allowed", "tx", "conflict"}, role : Roles, attempt : 1..Attempts,
        saw : SUBSET Invites] \cup {Nobody}]
  /\ visitor \in [Visitors -> [invite : Invites, role : Roles] \cup {Nobody}]
  /\ canceler \in [Cancels -> Invites \cup {Nobody}]
  /\ applied \in Visitors \cup {Nobody}

InvitationsInit ==
  /\ invite = [i \in Invites |-> Nobody]
  /\ lapsed = {}
  /\ member = Nobody
  /\ sender = [s \in Senders |-> Nobody]
  /\ visitor = [v \in Visitors |-> Nobody]
  /\ canceler = [c \in Cancels |-> Nobody]
  /\ applied = Nobody

Rank(role) == CASE role = "ADMIN" -> 2 [] role = "COMMENTATOR" -> 1 [] OTHER -> 0

PendingIn(rows) == {i \in Invites : rows[i] # Nobody /\ rows[i].status = "PENDING"}
Unused == {i \in Invites : invite[i] = Nobody}

\* Mutant of Conflicting: READ COMMITTED, as the other transactions are.
ReadCommitted(written) == {}

\* The senders whose transaction reads a row that is written: one that was
\* pending, or is made.
Conflicting(written) ==
  {s \in Senders :
     /\ sender[s] # Nobody /\ sender[s].at = "tx"
     /\ written \cap (PendingIn(invite) \cup Unused) # {}}

SendersAfter(written) ==
  [s \in Senders |->
    IF s \in Conflicting(written) THEN [sender[s] EXCEPT !.at = "conflict"] ELSE sender[s]]

SetStatus(i, status) ==
  /\ invite' = [invite EXCEPT ![i].status = status]
  /\ sender' = SendersAfter({i})

-----------------------------------------------------------------------------
(* POST members.                                                           *)

\* "User is already a member": looked at before the transaction.
AllowInvite(s, role) ==
  /\ sender[s] = Nobody /\ member = Nobody
  /\ sender' = [sender EXCEPT ![s] =
       [at |-> "allowed", role |-> role, attempt |-> 1, saw |-> {}]]
  /\ applied' = Nobody
  /\ UNCHANGED <<invite, lapsed, member, visitor, canceler>>

\* The snapshot, with what is live by now.
BeginInvite(s) ==
  /\ sender[s] # Nobody /\ sender[s].at = "allowed"
  /\ sender' = [sender EXCEPT ![s].at = "tx", ![s].saw = PendingIn(invite) \ lapsed]
  /\ applied' = Nobody
  /\ UNCHANGED <<invite, lapsed, member, visitor, canceler>>

\* The newest live invitation, or a new row.
Target(s) ==
  IF sender[s].saw # {} THEN CHOOSE i \in sender[s].saw : \A j \in sender[s].saw : j <= i
  ELSE CHOOSE i \in Unused : \A j \in Unused : i <= j

\* Expired rows are marked; the target is PENDING with this role, the other
\* live ones are canceled.
Refreshed(s) ==
  [i \in Invites |->
    IF i = Target(s) THEN [status |-> "PENDING", role |-> sender[s].role]
    ELSE IF i \in sender[s].saw THEN [invite[i] EXCEPT !.status = "CANCELED"]
    ELSE IF i \in PendingIn(invite) \cap lapsed THEN [invite[i] EXCEPT !.status = "EXPIRED"]
    ELSE invite[i]]

\* Bound: while a row is left.
CommitInvite(s) ==
  /\ sender[s] # Nobody /\ sender[s].at = "tx"
  /\ sender[s].saw # {} \/ Unused # {}
  /\ invite' = Refreshed(s)
  /\ lapsed' = lapsed \ {Target(s)}
  /\ sender' = [SendersAfter(PendingIn(invite) \cup {Target(s)}) EXCEPT ![s] = Nobody]
  /\ applied' = Nobody
  /\ UNCHANGED <<member, visitor, canceler>>

\* Mutant of RefuseInvite: the attempts are not counted out.
RefuseInviteForever(s) ==
  /\ sender[s] # Nobody /\ sender[s].at = "conflict"
  /\ sender' = [sender EXCEPT ![s].at = "allowed", ![s].attempt = @ + 1, ![s].saw = {}]
  /\ applied' = Nobody
  /\ UNCHANGED <<invite, lapsed, member, visitor, canceler>>

\* P2034: the next attempt, or an error.
RefuseInvite(s) ==
  /\ sender[s] # Nobody /\ sender[s].at = "conflict"
  /\ sender' = [sender EXCEPT ![s] =
       IF @.attempt = Attempts THEN Nobody
       ELSE [@ EXCEPT !.at = "allowed", !.attempt = sender[s].attempt + 1, !.saw = {}]]
  /\ applied' = Nobody
  /\ UNCHANGED <<invite, lapsed, member, visitor, canceler>>

\* INVITATION_TTL_DAYS pass.
LapseInvite(i) ==
  /\ invite[i] # Nobody /\ invite[i].status = "PENDING" /\ i \notin lapsed
  /\ lapsed' = lapsed \cup {i}
  /\ applied' = Nobody
  /\ UNCHANGED <<invite, member, sender, visitor, canceler>>

-----------------------------------------------------------------------------
(* acceptInvitationTokenForUser, by a link whose token is still a row's.   *)

ReadLink(v, i) ==
  /\ visitor[v] = Nobody /\ invite[i] # Nobody
  /\ invite[i].status = "PENDING" /\ i \notin lapsed
  /\ visitor' = [visitor EXCEPT ![v] = [invite |-> i, role |-> invite[i].role]]
  /\ applied' = Nobody
  /\ UNCHANGED <<invite, lapsed, member, sender, canceler>>

\* The link is too late, and the row says so.
ExpireLink(i) ==
  /\ invite[i] # Nobody /\ invite[i].status = "PENDING" /\ i \in lapsed
  /\ SetStatus(i, "EXPIRED")
  /\ applied' = Nobody
  /\ UNCHANGED <<lapsed, member, visitor, canceler>>

\* Mutant of Upserted: the invited role is written over the member's.
UpsertedRole(role) == role

\* INSERT ... ON CONFLICT: "Only ever a promotion."
Upserted(role) == IF member = Nobody \/ role = "ADMIN" THEN role ELSE member

\* applyInvitationMembership and COMMIT; the row is ACCEPTED whatever it is by now.
AcceptLink(v) ==
  /\ visitor[v] # Nobody
  /\ member' = Upserted(visitor[v].role)
  /\ SetStatus(visitor[v].invite, "ACCEPTED")
  /\ visitor' = [visitor EXCEPT ![v] = Nobody]
  /\ applied' = v
  /\ UNCHANGED <<lapsed, canceler>>

-----------------------------------------------------------------------------
(* DELETE invitations, PATCH and DELETE members.                           *)

ReadToCancel(c, i) ==
  /\ canceler[c] = Nobody /\ invite[i] # Nobody /\ invite[i].status = "PENDING"
  /\ canceler' = [canceler EXCEPT ![c] = i]
  /\ applied' = Nobody
  /\ UNCHANGED <<invite, lapsed, member, sender, visitor>>

\* By id, whatever the row's status is by now.
CancelInvite(c) ==
  /\ canceler[c] # Nobody
  /\ SetStatus(canceler[c], "CANCELED")
  /\ canceler' = [canceler EXCEPT ![c] = Nobody]
  /\ applied' = Nobody
  /\ UNCHANGED <<lapsed, member, visitor>>

ChangeMember(role) ==
  /\ member # Nobody
  /\ member' = role
  /\ applied' = Nobody
  /\ UNCHANGED <<invite, lapsed, sender, visitor, canceler>>

-----------------------------------------------------------------------------
InvitationsNext ==
  \/ \E s \in Senders :
       \/ BeginInvite(s) \/ CommitInvite(s) \/ RefuseInvite(s)
       \/ \E role \in Roles : AllowInvite(s, role)
  \/ \E i \in Invites :
       \/ LapseInvite(i) \/ ExpireLink(i)
       \/ \E v \in Visitors : ReadLink(v, i)
       \/ \E c \in Cancels : ReadToCancel(c, i)
  \/ \E v \in Visitors : AcceptLink(v)
  \/ \E c \in Cancels : CancelInvite(c)
  \/ \E role \in Roles \cup {Nobody} : ChangeMember(role)

InvitationsSpec == InvitationsInit /\ [][InvitationsNext]_inviteVars

-----------------------------------------------------------------------------
(* Properties.                                                             *)

\* However many invitations are sent, accepted and canceled side by side, the
\* address holds at most one link that works: of two mails, one was replaced, taken
\* up, canceled or has lapsed.
OneLiveInvitation ==
  \A i, j \in PendingIn(invite) \ lapsed : i = j

\* "An existing membership is never downgraded" by a link, even one whose
\* invitation was read before the member was promoted.
LinksOnlyPromote ==
  [][applied' # Nobody => Rank(member') >= Rank(member)]_inviteVars
=============================================================================

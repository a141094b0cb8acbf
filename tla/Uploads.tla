------------------------------ MODULE Uploads ------------------------------
(***************************************************************************)
(* Direct video uploads of one billed account: the room an upload is       *)
(* admitted on (an unlocked check, then a reservation under the account's  *)
(* advisory lock), its upload session, the object it leaves in storage,    *)
(* and the two routes that end it: the one that turns it into a version    *)
(* and the one that cleans it up.                                          *)
(*                                                                         *)
(* Sizes stand for bytes, the 512 KB held for a thumbnail included; what   *)
(* other storage the account uses is constant and not counted.             *)
(***************************************************************************)
EXTENDS Naturals, FiniteSets, Functions

CONSTANTS
  Uploads,    \* uploads of the account; each is one upload session
  Size,       \* declared bytes of each
  Limit,      \* getStorageContextForUser(..).limitBytes
  Multipart,  \* uploads above the multipart threshold
  Invalid,    \* uploads whose bytes are not a known review format
  Finals,     \* bound: requests that finalize an upload
  NoUpload

ASSUME FiniteAssumption == IsFiniteSet(Uploads) /\ IsFiniteSet(Finals)
ASSUME SizeAssumption == Size \in [Uploads -> Nat \ {0}] /\ Limit \in Nat
ASSUME UploadsAssumption == Multipart \cup Invalid \subseteq Uploads /\ NoUpload \notin Uploads

VARIABLES
  admission,  \* how far r2-init has got with an upload
  hold,       \* upload_reservations; a lapsed one no longer counts
  session,    \* video_upload_sessions.status
  expired,    \* sessions past expiresAt
  object,     \* the upload's object in storage
  completion, \* r2-complete
  cleanup,    \* DELETE r2-init
  final,      \* requests that make a version of an upload
  versions    \* video_versions that point at the upload's object

uploadVars ==
  <<admission, hold, session, expired, object, completion, cleanup, final, versions>>

UploadsTypeOK ==
  /\ admission \in [Uploads -> {"idle", "checked", "reserved", "answered", "refused"}]
  /\ hold \in [Uploads -> {"none", "live", "lapsed"}]
  /\ session \in [Uploads -> {"none", "INITIATED", "FINALIZED", "CANCELLED"}]
  /\ expired \subseteq Uploads
  /\ object \in [Uploads -> {"none", "there", "deleted"}]
  /\ completion \in [Uploads -> {"idle", "read", "failed", "cancelled", "over"}]
  /\ cleanup \in [Uploads -> {"idle", "read", "cancelled", "deleted", "over"}]
  /\ final \in [Finals -> [upload : Uploads \cup {NoUpload},
                           at : {"idle", "found", "checked", "rejected", "deleting", "over"}]]
  /\ versions \in [Uploads -> 0..Cardinality(Finals)]

UploadsInit ==
  /\ admission = [u \in Uploads |-> "idle"]
  /\ hold = [u \in Uploads |-> "none"]
  /\ session = [u \in Uploads |-> "none"]
  /\ expired = {}
  /\ object = [u \in Uploads |-> "none"]
  /\ completion = [u \in Uploads |-> "idle"]
  /\ cleanup = [u \in Uploads |-> "idle"]
  /\ final = [f \in Finals |-> [upload |-> NoUpload, at |-> "idle"]]
  /\ versions = [u \in Uploads |-> 0]

\* getUserTotalStorageBytes: versions and unexpired reservations.
UsedBytes == SumFunction([u \in Uploads |-> Size[u] * versions[u]])
               + SumFunction([u \in Uploads |-> IF hold[u] = "live" THEN Size[u] ELSE 0])

\* "a user at exactly the limit cannot initiate new uploads"
Fits(u) == UsedBytes + Size[u] < Limit

-----------------------------------------------------------------------------
(* startR2ReviewUpload.                                                    *)

\* enforceStorageQuota, outside of any lock.
EnforceQuota(u) ==
  /\ admission[u] = "idle"
  /\ admission' = [admission EXCEPT ![u] = IF Fits(u) THEN "checked" ELSE "refused"]
  /\ UNCHANGED <<hold, session, expired, object, completion, cleanup, final, versions>>

\* Mutant of ReserveQuota: the check before it is taken for good.
ReserveUnchecked(u) ==
  /\ admission[u] = "checked"
  /\ admission' = [admission EXCEPT ![u] = "reserved"]
  /\ hold' = [hold EXCEPT ![u] = "live"]
  /\ UNCHANGED <<session, expired, object, completion, cleanup, final, versions>>

\* reserveStorageQuota: the sums and the insert are one transaction under the lock.
ReserveQuota(u) ==
  /\ admission[u] = "checked"
  /\ IF Fits(u)
       THEN /\ admission' = [admission EXCEPT ![u] = "reserved"]
            /\ hold' = [hold EXCEPT ![u] = "live"]
       ELSE /\ admission' = [admission EXCEPT ![u] = "refused"]
            /\ UNCHANGED hold
  /\ UNCHANGED <<session, expired, object, completion, cleanup, final, versions>>

\* The URLs cannot be signed: the hold is released.
FailPresign(u) ==
  /\ admission[u] = "reserved"
  /\ admission' = [admission EXCEPT ![u] = "refused"]
  /\ hold' = [hold EXCEPT ![u] = "none"]
  /\ UNCHANGED <<session, expired, object, completion, cleanup, final, versions>>

\* createR2UploadSession fails, or the process stops: the hold is left to lapse.
FailSession(u) ==
  /\ admission[u] = "reserved"
  /\ admission' = [admission EXCEPT ![u] = "refused"]
  /\ UNCHANGED <<hold, session, expired, object, completion, cleanup, final, versions>>

OpenSession(u) ==
  /\ admission[u] = "reserved"
  /\ admission' = [admission EXCEPT ![u] = "answered"]
  /\ session' = [session EXCEPT ![u] = "INITIATED"]
  /\ UNCHANGED <<hold, expired, object, completion, cleanup, final, versions>>

\* The hold was given its expiry first, so it goes no later than the session.
LapseHold(u) ==
  /\ hold[u] = "live"
  /\ hold' = [hold EXCEPT ![u] = "lapsed"]
  /\ UNCHANGED <<admission, session, expired, object, completion, cleanup, final, versions>>

ExpireSession(u) ==
  /\ session[u] = "INITIATED" /\ hold[u] # "live" /\ u \notin expired
  /\ expired' = expired \cup {u}
  /\ UNCHANGED <<admission, hold, session, object, completion, cleanup, final, versions>>

Open(u) == session[u] = "INITIATED" /\ u \notin expired

-----------------------------------------------------------------------------
(* Storage: the browser's PUT, and r2-complete for an upload in parts.     *)

PutObject(u) ==
  /\ admission[u] = "answered" /\ u \notin Multipart /\ object[u] = "none"
  /\ object' = [object EXCEPT ![u] = "there"]
  /\ UNCHANGED <<admission, hold, session, expired, completion, cleanup, final, versions>>

ReadToComplete(u) ==
  /\ u \in Multipart /\ completion[u] = "idle" /\ Open(u)
  /\ completion' = [completion EXCEPT ![u] = "read"]
  /\ UNCHANGED <<admission, hold, session, expired, object, cleanup, final, versions>>

\* The parts become an object, unless a cleanup has aborted them.
CompleteParts(u) ==
  /\ completion[u] = "read" /\ cleanup[u] \in {"idle", "read", "cancelled"}
  /\ completion' = [completion EXCEPT ![u] = "over"]
  /\ object' = [object EXCEPT ![u] = "there"]
  /\ UNCHANGED <<admission, hold, session, expired, cleanup, final, versions>>

FailParts(u) ==
  /\ completion[u] = "read"
  /\ completion' = [completion EXCEPT ![u] = "failed"]
  /\ UNCHANGED <<admission, hold, session, expired, object, cleanup, final, versions>>

\* UPDATE ... WHERE status = 'INITIATED'.
Cancelled(u) ==
  IF session[u] = "INITIATED" THEN [session EXCEPT ![u] = "CANCELLED"] ELSE session

CancelFailed(u) ==
  /\ completion[u] = "failed"
  /\ session' = Cancelled(u)
  /\ completion' = [completion EXCEPT ![u] = "cancelled"]
  /\ UNCHANGED <<admission, hold, expired, object, cleanup, final, versions>>

ReleaseFailed(u) ==
  /\ completion[u] = "cancelled"
  /\ hold' = [hold EXCEPT ![u] = "none"]
  /\ completion' = [completion EXCEPT ![u] = "over"]
  /\ UNCHANGED <<admission, session, expired, object, cleanup, final, versions>>

-----------------------------------------------------------------------------
(* DELETE r2-init: the client gave up, or its page was closed.             *)

ReadToCleanUp(u) ==
  /\ admission[u] = "answered" /\ cleanup[u] = "idle" /\ Open(u)
  /\ cleanup' = [cleanup EXCEPT ![u] = "read"]
  /\ UNCHANGED <<admission, hold, session, expired, object, completion, final, versions>>

\* Mutant of CancelSession: how many rows it changed is not looked at.
CancelWhatever(u) ==
  /\ cleanup[u] = "read"
  /\ session' = Cancelled(u)
  /\ cleanup' = [cleanup EXCEPT ![u] = "cancelled"]
  /\ UNCHANGED <<admission, hold, expired, object, completion, final, versions>>

\* Only the request that cancels the session goes on.
CancelSession(u) ==
  /\ cleanup[u] = "read"
  /\ session' = Cancelled(u)
  /\ cleanup' = [cleanup EXCEPT ![u] =
                   IF session[u] = "INITIATED" THEN "cancelled" ELSE "over"]
  /\ UNCHANGED <<admission, hold, expired, object, completion, final, versions>>

\* The parts are aborted and the object deleted, or storage refuses (logged).
DeleteObject(u) ==
  /\ cleanup[u] = "cancelled"
  /\ cleanup' = [cleanup EXCEPT ![u] = "deleted"]
  /\ object' \in {object, [object EXCEPT ![u] = IF @ = "there" THEN "deleted" ELSE @]}
  /\ UNCHANGED <<admission, hold, session, expired, completion, final, versions>>

ReleaseHold(u) ==
  /\ cleanup[u] = "deleted"
  /\ hold' = [hold EXCEPT ![u] = "none"]
  /\ cleanup' = [cleanup EXCEPT ![u] = "over"]
  /\ UNCHANGED <<admission, session, expired, object, completion, final, versions>>

-----------------------------------------------------------------------------
(* finalizeR2VideoUpload and the transaction that makes the version.       *)

\* The client asks once the upload it knows of has ended.
FindSession(f, u) ==
  /\ final[f].at = "idle" /\ object[u] # "none" /\ Open(u)
  /\ final' = [final EXCEPT ![f] = [upload |-> u, at |-> "found"]]
  /\ UNCHANGED <<admission, hold, session, expired, object, completion, cleanup, versions>>

\* HEAD and the first bytes.
CheckObject(f) ==
  LET u == final[f].upload
  IN /\ final[f].at = "found"
     /\ final' = [final EXCEPT ![f].at =
          IF object[u] = "there" /\ u \notin Invalid THEN "checked" ELSE "rejected"]
     /\ UNCHANGED <<admission, hold, session, expired, object, completion, cleanup, versions>>

\* cancelPendingUpload: the session if it is still open, the object whatever it
\* was; the hold is left to lapse.
RejectUpload(f) ==
  /\ final[f].at = "rejected"
  /\ session' = Cancelled(final[f].upload)
  /\ final' = [final EXCEPT ![f].at = "deleting"]
  /\ UNCHANGED <<admission, hold, expired, object, completion, cleanup, versions>>

DeleteRejected(f) ==
  LET u == final[f].upload
  IN /\ final[f].at = "deleting"
     /\ object' \in {object, [object EXCEPT ![u] = IF @ = "there" THEN "deleted" ELSE @]}
     /\ final' = [final EXCEPT ![f].at = "over"]
     /\ UNCHANGED <<admission, hold, session, expired, completion, cleanup, versions>>

\* One transaction: the session is consumed (or the request fails), the hold
\* handed over, the version made.  Expiry is not looked at again.
MakeVersion(f) ==
  LET u == final[f].upload
  IN /\ final[f].at = "checked"
     /\ final' = [final EXCEPT ![f].at = "over"]
     /\ IF session[u] = "INITIATED"
          THEN /\ session' = [session EXCEPT ![u] = "FINALIZED"]
               /\ hold' = [hold EXCEPT ![u] = "none"]
               /\ versions' = [versions EXCEPT ![u] = @ + 1]
          ELSE UNCHANGED <<session, hold, versions>>
     /\ UNCHANGED <<admission, expired, object, completion, cleanup>>

-----------------------------------------------------------------------------
UploadsNext ==
  \/ \E u \in Uploads :
       \/ EnforceQuota(u) \/ ReserveQuota(u) \/ FailPresign(u) \/ FailSession(u)
       \/ OpenSession(u) \/ LapseHold(u) \/ ExpireSession(u)
       \/ PutObject(u) \/ ReadToComplete(u) \/ CompleteParts(u) \/ FailParts(u)
       \/ CancelFailed(u) \/ ReleaseFailed(u)
       \/ ReadToCleanUp(u) \/ CancelSession(u) \/ DeleteObject(u) \/ ReleaseHold(u)
  \/ \E f \in Finals, u \in Uploads : FindSession(f, u)
  \/ \E f \in Finals : CheckObject(f) \/ RejectUpload(f) \/ DeleteRejected(f) \/ MakeVersion(f)

UploadsSpec == UploadsInit /\ [][UploadsNext]_uploadVars

-----------------------------------------------------------------------------
(* Properties.                                                             *)

\* An account goes over its limit only by an upload whose hold had lapsed by the
\* time its version was made: requests side by side "cannot double-book the same
\* headroom", and handing a hold over takes none.
OnlyLateUploadsOverfill ==
  [][UsedBytes' > UsedBytes /\ UsedBytes' >= Limit =>
       \E u \in Uploads : hold[u] = "lapsed" /\ versions'[u] > versions[u]]_uploadVars

\* "never counted twice and never counted zero times": an upload is one version
\* or one hold, however many requests finalize and clean it up at once, and a
\* version's object is not deleted by any of them.
UploadBecomesOneVersion ==
  \A u \in Uploads :
    /\ versions[u] <= 1 /\ (versions[u] = 1 <=> session[u] = "FINALIZED")
    /\ versions[u] = 1 => hold[u] = "none" /\ object[u] = "there"
=============================================================================

----------------------------- MODULE MCServices -----------------------------
(***************************************************************************)
(* TLC instance of the parts that share no state with one another: each is *)
(* a scene of its own, chosen in the initial state, so that their states   *)
(* add up and do not multiply.                                             *)
(***************************************************************************)
EXTENDS Uploads, Billing, Invitations, AgentRuns, CutReview, ShortForm, CommentFeed,
        MCEditLists, TLC

CONSTANTS u1, u2, b1, b2

VARIABLE scene

UnitSizes == [u \in Uploads |-> 1]

servicesVars ==
  <<uploadVars, billingVars, inviteVars, agentVars, reviewVars, shortFormVars, feedVars, editListVars, scene>>

Init ==
  /\ UploadsInit /\ BillingInit /\ InvitationsInit
  /\ AgentRunsInit /\ CutReviewInit /\ ShortFormInit /\ FeedInit /\ EditListsInit
  /\ scene \in {"uploads", "billing", "invitations", "agents", "review", "shorts", "feed", "edits"}
  /\ open = CHOOSE v \in Videos : TRUE  \* the videos are interchangeable
  /\ newest = CHOOSE v \in Cuts : TRUE
  /\ scene = "edits" \/ list = Assembled(Whole)

UploadsScene ==
  /\ scene = "uploads" /\ UploadsNext
  /\ UNCHANGED <<billingVars, inviteVars, agentVars, reviewVars, shortFormVars, feedVars, editListVars, scene>>

BillingScene ==
  /\ scene = "billing" /\ BillingNext
  /\ UNCHANGED <<uploadVars, inviteVars, agentVars, reviewVars, shortFormVars, feedVars, editListVars, scene>>

InvitationsScene ==
  /\ scene = "invitations" /\ InvitationsNext
  /\ UNCHANGED <<uploadVars, billingVars, agentVars, reviewVars, shortFormVars, feedVars, editListVars, scene>>

AgentsScene ==
  /\ scene = "agents" /\ AgentRunsNext
  /\ UNCHANGED <<uploadVars, billingVars, inviteVars, reviewVars, shortFormVars, feedVars, editListVars, scene>>

ReviewScene ==
  /\ scene = "review" /\ CutReviewNext
  /\ UNCHANGED <<uploadVars, billingVars, inviteVars, agentVars, shortFormVars, feedVars, editListVars, scene>>

ShortsScene ==
  /\ scene = "shorts" /\ ShortFormNext
  /\ UNCHANGED <<uploadVars, billingVars, inviteVars, agentVars, reviewVars, feedVars, editListVars, scene>>

FeedScene ==
  /\ scene = "feed" /\ FeedNext
  /\ UNCHANGED <<uploadVars, billingVars, inviteVars, agentVars, reviewVars, shortFormVars, editListVars, scene>>

EditsScene ==
  /\ scene = "edits" /\ EditListsNext
  /\ EditListsBound'
  /\ UNCHANGED <<uploadVars, billingVars, inviteVars, agentVars, reviewVars, shortFormVars, feedVars, scene>>

Next ==
  \/ UploadsScene \/ BillingScene \/ InvitationsScene
  \/ AgentsScene \/ ReviewScene \/ ShortsScene
  \/ FeedScene \/ EditsScene

Spec == Init /\ [][Next]_servicesVars

\* Every variable of every part is of its type, at every step of its scene.
TypesOK ==
  /\ UploadsTypeOK /\ BillingTypeOK /\ InvitationsTypeOK
  /\ AgentRunsTypeOK /\ CutReviewTypeOK /\ ShortFormTypeOK /\ FeedTypeOK /\ EditListsTypeOK

\* Runs of one kind are interchangeable, and so are deliveries of render jobs.
Symmetry ==
  Permutations(Analyses) \cup Permutations(Rankings) \cup Permutations(Renders)


-----------------------------------------------------------------------------
(* Bounds: what comes together in one behaviour.                           *)

\* Two of the requests that send, accept and cancel at a time.
InvitationsBound ==
  Cardinality({s \in Senders : sender[s] # Nobody})
    + Cardinality({v \in Visitors : visitor[v] # Nobody})
    + Cardinality({c \in Cancels : canceler[c] # Nobody}) <= 2

\* Two loads at a time with no save or render; the second switch, back to the first
\* video, only with loads; a render of the video that was left ends first.
ReviewBound ==
  /\ (\A l \in Loads : loading[l] # Absent) => change = Absent /\ rendering = {}
  /\ generation = 2 => rendering = {} /\ change = Absent
  /\ generation = 1 => rendering \subseteq {open}

\* Renders where there is one batch and at most one analysis is still going on.
ShortsBound ==
  /\ batch[b2] # Nothing => batch[b1] # Nothing
  /\ (\E k \in Clicks : click[k] # Nothing) =>
       batch[b2] = Nothing /\ Cardinality({a \in Analyses : analysis[a] # Nothing}) <= 1

\* Writes begun and reads: two at a time, and one where there are two versions or the
\* page writes (its own write and a read may go on together); no write is begun after a
\* late commit until the list is read, nor before a version that was opened is asked
\* for. The page writes where there is one version. A second comment is written where
\* there is one version, and the page writes nothing and shows what it last read. Ids
\* are given in order: they are interchangeable.
Begun(writers) == Cardinality({x \in writers : write[x] # NoTag})
Reads == Cardinality({p \in Polls : poll[p] # NoTag})
PageWrites == \E e \in Edits : edit[e] # NoTag \/ write[e] # NoTag
SecondLands == landed \/ cuts # {newest}
FeedBound ==
  /\ Begun(Comments \union Edits) + Reads <= IF SecondLands THEN 1 ELSE 2
  /\ late # {} \/ page.opened => Begun(Comments \union Edits) = 0
  /\ PageWrites => Begun(Comments) + Begun(Edits) <= 1 /\ Begun(Comments) + Reads <= 1
  /\ PageWrites => ~SecondLands /\ ~page.opened
  /\ given = Comments => ~SecondLands /\ ~PageWrites /\ touched = {}
  /\ \A c \in given : 1..c \subseteq given

Bound == InvitationsBound /\ ReviewBound /\ ShortsBound /\ FeedBound
=============================================================================

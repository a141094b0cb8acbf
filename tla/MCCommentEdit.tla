--------------------------- MODULE MCCommentEdit ---------------------------
(***************************************************************************)
(* TLC instances of CommentEdit: ids of runs, jobs, versions and calls are *)
(* interchangeable, the two comments are not.                              *)
(***************************************************************************)
EXTENDS CommentEdit, TLC

Symmetric ==
  Permutations(Runs) \cup Permutations(Jobs) \cup Permutations(Versions)
    \cup Permutations(Calls)

-----------------------------------------------------------------------------
(* Two scenes, chosen in the initial state, so that their states add up and *)
(* do not multiply: a batch of two comments with one rendered draft, and    *)
(* the renders of one comment's drafts.                                     *)

VARIABLE scene

Edited(c) == comment[c].text # CHOOSE t \in Texts : TRUE
SomeEdited == \E c \in Comments : Edited(c)
Gone == \E c \in Comments : ~comment[c].alive
Lost == \E v \in Versions : version[v].used /\ ~version[v].alive
Rendered == {j \in Jobs : job[j].status # "none"}

\* Of an edited comment, a deleted comment and a deleted version, one, the last two while
\* there is one run; two calls in flight are on untouched comments with no render begun;
\* one render job, whose cut stays.
BatchBound ==
  /\ SomeEdited => ~Gone /\ ~Lost
  /\ Gone => ~Lost
  /\ Gone \/ Lost => \E r \in Runs : run[r] = "none"
  /\ (\A x \in Calls : call[x] # None) =>
       /\ ~SomeEdited /\ ~Gone
       /\ \A c \in Comments : ~comment[c].resolved
       /\ Rendered = {}
  /\ Cardinality(Rendered) <= 1 /\ Cardinality({v \in Versions : version[v].used}) <= 1
  /\ \A j \in Jobs : job[j].kept

\* One comment has a task and nobody edits or deletes a comment; one call in flight; a
\* version is deleted while there is at most one render.
RendersBound ==
  /\ \A c \in Editable : task[c] = NoTask /\ ~Edited(c) /\ ~comment[c].resolved
  /\ ~Gone
  /\ Lost => Cardinality(Rendered) <= 1
  /\ \E x \in Calls : call[x] = None
  /\ \A x \in Calls : call[x] # None => call[x].comment \notin Editable

ScenesInit == Init /\ scene \in {"batch", "renders"}

\* No worker is stopped at work.
BatchScene ==
  /\ scene = "batch"
  /\ \/ \E x \in Calls : RouteStep(x)
     \/ \E r \in Runs : WorkerStep(r)
     \/ \E j \in Jobs : RenderStep(j)
     \/ OtherStep
  /\ BatchBound'
  /\ UNCHANGED scene

RendersScene == scene = "renders" /\ Next /\ RendersBound' /\ UNCHANGED scene

ScenesSpec == ScenesInit /\ [][BatchScene \/ RendersScene]_<<vars, scene>>
=============================================================================

---------------------------- MODULE CommentFeed ----------------------------
(***************************************************************************)
(* The comments of a video page: the list the page shows of each version,  *)
(* the conditional reads that keep it up to date (useVideoPageData and the *)
(* GET of the comments route), and the page's own writes with their        *)
(* optimistic update and rollback (useCommentActions). The rows are also   *)
(* written by other people, and a version rendered from the page makes it  *)
(* load its video again.                                                   *)
(*                                                                         *)
(* A comment is its id and whether it is resolved; any other edit of it is *)
(* its `at` only (updatedAt, in the milliseconds that the ETag holds). A   *)
(* list fits one page of 200.                                              *)
(***************************************************************************)
EXTENDS Naturals, FiniteSets, FiniteSetsExt

CONSTANTS
  Cuts,        \* the versions of the video
  Comments,    \* the comments that may be written (replies are comments too)
  Polls,       \* reads of the list in flight
  Edits,       \* writes of this page in flight; each names its optimistic row
  MaxWrites,   \* bound: the milliseconds in which rows are written
  NoTag        \* no ETag, no row, no request

ASSUME FeedAssumption ==
  /\ Cuts # {} /\ IsFiniteSet(Comments) /\ MaxWrites \in Nat
  /\ NoTag \notin Cuts /\ Comments \cap Edits = {}

VARIABLES
  rows,      \* rows[c]: the comment's row, or NoTag
  clock,     \* the newest updatedAt that was given out
  write,     \* write[x]: a write the server has begun and not committed, or NoTag: of
             \* this page (x in Edits), or of others, one per comment (x in Comments)
  given,     \* the comments whose id was given: none is given again
  cuts,      \* the versions there are; the server's active one is the newest
  newest,
  landed,    \* a version was rendered and the page has not loaded it yet
  page,      \* [active, shown, etag, mutating, opened]: the page's state
  poll,      \* poll[p]: a read in flight, or NoTag
  edit,      \* edit[w]: a write in flight, or NoTag
  touched,   \* ghost: the list was changed here since it was last read
  late       \* ghost: versions of which a write was committed that is no newer than the
             \* revision the page remembers, after that revision was read

feedVars == <<rows, clock, write, given, cuts, newest, landed, page, poll, edit, touched, late>>

Row == [of : Cuts, at : 1..MaxWrites, done : BOOLEAN]

\* A write in its transaction; only "add" and "resolve" write the column `done`.
Write == [kind : {"add", "resolve", "edit"}, id : Comments, of : Cuts, at : 1..MaxWrites,
          done : BOOLEAN]
Item == [id : Comments \union Edits, done : BOOLEAN]
Revisions == [count : 0..Cardinality(Comments), last : 0..MaxWrites]

ASSUME NoRevisionAssumption == NoTag \notin Revisions
ASSUME NoWriteAssumption == NoTag \notin Write

\* A write in flight: what was clicked, and the page as it was then.
EditSent == [kind : {"add", "resolve", "delete", "edit"}, of : Cuts, id : Comments, was : BOOLEAN,
             before : [Cuts -> SUBSET Item], state : {"sent", "served", "done"}]

RowsOf(v) == {c \in Comments : rows[c] # NoTag /\ rows[c].of = v}
Listed(v) == {[id |-> c, done |-> rows[c].done] : c \in RowsOf(v)}

\* Mutant of Revision: only the count.
RevisionCounted(v) == [count |-> Cardinality(RowsOf(v)), last |-> 0]

\* The revision the ETag is made of: how many rows, and when the last was written.
Revision(v) ==
  [count |-> Cardinality(RowsOf(v)), last |-> Max({0} \union {rows[c].at : c \in RowsOf(v)})]

FeedTypeOK ==
  /\ rows \in [Comments -> Row \union {NoTag}]
  /\ clock \in 0..MaxWrites
  /\ write \in [Comments \union Edits -> Write \union {NoTag}] /\ given \subseteq Comments
  /\ cuts \subseteq Cuts /\ newest \in cuts /\ landed \in BOOLEAN
  /\ page \in [active : Cuts, shown : [Cuts -> SUBSET Item],
               etag : [Cuts -> Revisions \union {NoTag}], mutating : BOOLEAN, opened : BOOLEAN]
  /\ poll \in [Polls -> {NoTag} \union
                 [of : Cuts, tag : Revisions \union {NoTag}, rev : Revisions \union {NoTag},
                  list : SUBSET Item, read : BOOLEAN, late : BOOLEAN]]
  /\ touched \subseteq Cuts /\ late \subseteq Cuts
  /\ edit \in [Edits -> EditSent \union {NoTag}]

FeedInit ==
  /\ rows = [c \in Comments |-> NoTag] /\ clock = 0
  /\ write = [x \in Comments \union Edits |-> NoTag] /\ given = {}
  /\ newest \in Cuts /\ cuts = {newest} /\ landed = FALSE
  /\ page = [active |-> newest, shown |-> [v \in Cuts |-> {}],
             etag |-> [v \in Cuts |-> NoTag], mutating |-> FALSE, opened |-> TRUE]
  /\ poll = [p \in Polls |-> NoTag]
  /\ edit = [w \in Edits |-> NoTag]
  /\ touched = {} /\ late = {}

-----------------------------------------------------------------------------
(* The rows, as anybody writes them. The server begins a write and commits *)
(* it later.                                                               *)

\* updatedAt is the time the statement is built at, in the transaction of the write:
\* it may be the millisecond of another write, and another may commit first.
Stamped(x, kind, c, v, done) ==
  \E at \in {clock, clock + 1} \cap 1..MaxWrites :
    /\ clock' = at
    /\ write' = [write EXCEPT ![x] = [kind |-> kind, id |-> c, of |-> v, at |-> at, done |-> done]]

\* Another person comments, edits or resolves.
OthersWrite ==
  /\ \E c \in Comments :
       /\ write[c] = NoTag
       /\ \/ /\ c \notin given /\ given' = given \union {c}
             /\ \E v \in cuts : Stamped(c, "add", c, v, FALSE)
          \/ /\ rows[c] # NoTag /\ UNCHANGED given
             /\ \/ Stamped(c, "edit", c, rows[c].of, FALSE)
                \/ \E done \in BOOLEAN : Stamped(c, "resolve", c, rows[c].of, done)
  /\ UNCHANGED <<rows, cuts, newest, landed, page, poll, edit, touched, late>>

\* A delete is one statement, and leaves no updatedAt.
Removed(c) == rows[c] # NoTag /\ rows' = [rows EXCEPT ![c] = NoTag]

OthersDelete ==
  /\ \E c \in Comments : Removed(c)
  /\ UNCHANGED <<clock, write, given, cuts, newest, landed, page, poll, edit, touched, late>>

\* Whoever read the revision `rev` of the version before will not see this write in it.
Overtakes(rev, q) == rev # NoTag /\ q.at <= rev.last

\* COMMIT: the row is there for everybody.  An update needs the row it was for.
WriteLands(x) ==
  /\ write[x] # NoTag
  /\ LET q == write[x] IN
       /\ q.kind = "add" \/ rows[q.id] # NoTag
       /\ rows' = [rows EXCEPT ![q.id] =
            [of |-> q.of, at |-> q.at, done |-> IF q.kind = "edit" THEN @.done ELSE q.done]]
       /\ late' = IF Overtakes(page.etag[q.of], q) THEN late \union {q.of} ELSE late
       /\ poll' = [p \in Polls |->
            IF poll[p] # NoTag /\ poll[p].of = q.of /\ Overtakes(poll[p].rev, q)
              THEN [poll[p] EXCEPT !.late = TRUE] ELSE poll[p]]
  /\ write' = [write EXCEPT ![x] = NoTag]
  /\ edit' = IF x \in Edits /\ edit[x] # NoTag THEN [edit EXCEPT ![x].state = "done"] ELSE edit
  /\ UNCHANGED <<clock, given, cuts, newest, landed, page, touched>>

\* The transaction rolls back: its row is gone, or a statement failed.
WriteFails(x) ==
  /\ write[x] # NoTag /\ write' = [write EXCEPT ![x] = NoTag]
  /\ UNCHANGED <<rows, clock, given, cuts, newest, landed, page, poll, edit, touched, late>>

\* A rough cut rendered again, or a burn-in, adds a version and makes it active.
RenderLands ==
  /\ \E v \in Cuts \ cuts : cuts' = cuts \union {v} /\ newest' = v
  /\ landed' = TRUE
  /\ UNCHANGED <<rows, clock, write, given, page, poll, edit, touched, late>>

-----------------------------------------------------------------------------
(* Reading.                                                                *)

\* loadVideo: the video comes without comments, so every version's list is empty;
\* what is remembered of their ETags stays.
Reloaded(p) ==
  [p EXCEPT !.shown = [v \in Cuts |-> {}], !.active = newest,
            !.opened = @ \/ p.active # newest]

Reload ==
  /\ landed /\ landed' = FALSE
  /\ page' = Reloaded(page)
  /\ touched' = Cuts
  /\ UNCHANGED <<rows, clock, write, given, cuts, newest, poll, edit, late>>

SwitchVersion ==
  /\ ~landed
  /\ \E v \in cuts \ {page.active} : page' = [page EXCEPT !.active = v, !.opened = TRUE]
  /\ UNCHANGED <<rows, clock, write, given, cuts, newest, landed, poll, edit, touched, late>>

\* fetchVersionComments: asked once when a version is opened, then by the ten-second
\* poll and the live event unless a write is in flight (`tag` is the remembered
\* ETag), and without an ETag once an editing task is decided.
Asked(p, v, tag) ==
  poll' = [poll EXCEPT ![p] = [of |-> v, tag |-> tag, rev |-> NoTag, list |-> {}, read |-> FALSE,
                              late |-> FALSE]]

AskForComments(p) ==
  /\ poll[p] = NoTag
  /\ \/ /\ page.opened \/ ~page.mutating
        /\ Asked(p, page.active, page.etag[page.active])
        /\ page' = [page EXCEPT !.opened = FALSE]
     \/ Asked(p, page.active, NoTag) /\ UNCHANGED page
  /\ UNCHANGED <<rows, clock, write, given, cuts, newest, landed, edit, touched, late>>

\* The route reads the revision; 304 if it is the one that was sent, which has then
\* served.
ServeRevision(p) ==
  /\ poll[p] # NoTag /\ poll[p].rev = NoTag
  /\ LET q == poll[p] IN
       poll' = [poll EXCEPT ![p] = IF q.tag = Revision(q.of) THEN NoTag
                                   ELSE [q EXCEPT !.rev = Revision(q.of), !.tag = NoTag]]
  /\ UNCHANGED <<rows, clock, write, given, cuts, newest, landed, page, edit, touched, late>>

\* Then the list, a statement later.
ServeList(p) ==
  /\ poll[p] # NoTag /\ poll[p].rev # NoTag /\ ~poll[p].read
  /\ poll' = [poll EXCEPT ![p].list = Listed(poll[p].of), ![p].read = TRUE]
  /\ UNCHANGED <<rows, clock, write, given, cuts, newest, landed, page, edit, touched, late>>

\* The answer reaches the page: the ETag is remembered and the list replaced, even if
\* a write was sent since.
ListLands(p) ==
  /\ poll[p] # NoTag /\ poll[p].read
  /\ LET q == poll[p] IN
       /\ page' = [page EXCEPT !.etag[q.of] = q.rev, !.shown[q.of] = q.list]
       /\ touched' = touched \ {q.of}
       /\ late' = IF q.late THEN late \union {q.of} ELSE late \ {q.of}
  /\ poll' = [poll EXCEPT ![p] = NoTag]
  /\ UNCHANGED <<rows, clock, write, given, cuts, newest, landed, edit>>

ReadFails(p) ==
  /\ poll[p] # NoTag
  /\ poll' = [poll EXCEPT ![p] = NoTag]
  /\ UNCHANGED <<rows, clock, write, given, cuts, newest, landed, page, edit, touched, late>>

-----------------------------------------------------------------------------
(* Writing: shown at once, then sent; the answer confirms it or takes it   *)
(* back. `mutating` is one flag, whatever is in flight.                    *)

ById(items, c) == {i \in items : i.id = c}

\* What the page shows when the write is sent.
Optimistic(kind, w, c, items) ==
  CASE kind = "add"     -> items \union {[id |-> w, done |-> FALSE]}
    [] kind = "resolve" -> {IF i.id = c THEN [i EXCEPT !.done = ~@] ELSE i : i \in items}
    [] kind = "delete"  -> items \ ById(items, c)
    [] kind = "edit"    -> items

\* handleAddComment, handleReplyComment; handleResolveComment, handleEditComment and
\* handleDeleteComment of a comment the page shows.
SendEdit(w) ==
  /\ edit[w] = NoTag /\ write[w] = NoTag
  /\ \E kind \in {"add", "resolve", "delete", "edit"}, c \in Comments :
       LET v == page.active IN
       /\ IF kind = "add" THEN c \notin given ELSE ById(page.shown[v], c) # {}
       /\ given' = IF kind = "add" THEN given \union {c} ELSE given
       /\ edit' = [edit EXCEPT ![w] =
            [kind |-> kind, of |-> v, id |-> c, state |-> "sent",
             was |-> kind = "resolve" /\ \E i \in ById(page.shown[v], c) : i.done,
             before |-> [u \in Cuts |-> IF kind = "delete" THEN page.shown[u] ELSE {}]]]
       /\ page' = [page EXCEPT !.shown[v] = Optimistic(kind, w, c, @), !.mutating = TRUE]
       /\ touched' = touched \union {v}
  /\ UNCHANGED <<rows, clock, write, cuts, newest, landed, poll, late>>

\* The route of a write begins.  It refuses a comment that is gone.
EditServed(w) ==
  /\ edit[w] # NoTag /\ edit[w].state = "sent"
  /\ LET e == edit[w] IN
       \/ /\ e.kind = "delete" /\ Removed(e.id)
          /\ edit' = [edit EXCEPT ![w].state = "done"] /\ UNCHANGED <<clock, write>>
       \/ /\ e.kind = "add" /\ Stamped(w, "add", e.id, e.of, FALSE)
          /\ edit' = [edit EXCEPT ![w].state = "served"] /\ UNCHANGED rows
       \/ /\ e.kind \in {"resolve", "edit"} /\ rows[e.id] # NoTag
          /\ Stamped(w, e.kind, e.id, rows[e.id].of, ~e.was)
          /\ edit' = [edit EXCEPT ![w].state = "served"] /\ UNCHANGED rows
  /\ UNCHANGED <<given, cuts, newest, landed, page, poll, touched, late>>

\* A success: the optimistic row of a new comment becomes the comment.
Confirmed(e, w, shown) ==
  IF e.kind = "add"
    THEN [shown EXCEPT ![e.of] =
            {IF i.id = w THEN [id |-> e.id, done |-> FALSE] ELSE i : i \in @}]
    ELSE shown

\* A failure: a new comment's row is taken out, a resolved one is set back to what the
\* click saw, and a delete puts the whole page back as it was when it was clicked.
RolledBack(e, w, shown) ==
  CASE e.kind = "add"     -> [shown EXCEPT ![e.of] = @ \ ById(@, w)]
    [] e.kind = "resolve" ->
         [shown EXCEPT ![e.of] = {IF i.id = e.id THEN [i EXCEPT !.done = e.was] ELSE i : i \in @}]
    [] e.kind = "delete"  -> e.before
    [] e.kind = "edit"    -> shown

Answered(w, shown, lists) ==
  /\ page' = [page EXCEPT !.shown = shown, !.mutating = FALSE]
  /\ touched' = touched \union lists
  /\ edit' = [edit EXCEPT ![w] = NoTag]
  /\ UNCHANGED <<rows, clock, write, given, cuts, newest, landed, poll, late>>

EditAnswered(w) ==
  /\ edit[w] # NoTag /\ edit[w].state = "done"
  /\ Answered(w, Confirmed(edit[w], w, page.shown), {edit[w].of})

\* A refusal, an error, or an answer that was lost: the write may have been made, or may
\* still be.
EditFails(w) ==
  /\ edit[w] # NoTag
  /\ Answered(w, RolledBack(edit[w], w, page.shown),
              IF edit[w].kind = "delete" THEN Cuts ELSE {edit[w].of})

FeedNext ==
  \/ OthersWrite \/ OthersDelete \/ RenderLands \/ Reload \/ SwitchVersion
  \/ \E p \in Polls :
       AskForComments(p) \/ ServeRevision(p) \/ ServeList(p) \/ ListLands(p) \/ ReadFails(p)
  \/ \E x \in Comments \union Edits : WriteLands(x) \/ WriteFails(x)
  \/ \E w \in Edits : SendEdit(w) \/ EditServed(w) \/ EditAnswered(w) \/ EditFails(w)

FeedSpec == FeedInit /\ [][FeedNext]_feedVars

-----------------------------------------------------------------------------
(* Properties.                                                             *)

\* The next poll of the version would be answered 304: it changes nothing.
Settled(v) == page.etag[v] = Revision(v)

\* The page lacks a comment, or shows it as it was, and the next poll leaves it so, only
\* where the list was changed here or a write was committed late: the ETag that comes
\* with a list is never newer than the list, but a write that was stamped before the
\* ETag was read, or in its millisecond, and committed after changes no revision.
OnlyLateWritesHide ==
  \A v \in Cuts : Settled(v) /\ v \notin touched \union late => Listed(v) \subseteq page.shown[v]

\* "The client already polls comments every 10s" (INTERNAL.md): when nothing is in
\* flight and the next poll would change nothing, every comment of the version on the
\* screen is on the screen.
PollBringsComments ==
  /\ \A p \in Polls : poll[p] = NoTag
  /\ \A w \in Edits : edit[w] = NoTag
  /\ ~page.opened /\ ~landed /\ Settled(page.active)
  => {i.id : i \in Listed(page.active)} \subseteq {i.id : i \in page.shown[page.active]}
=============================================================================

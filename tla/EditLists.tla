------------------------------ MODULE EditLists ------------------------------
(***************************************************************************)
(* What a rendered file shows: the linear assembly of a program from the   *)
(* speech that was heard, the reviewer's overrides on it, the render, and  *)
(* the drafts that comments ask of a rendered version.                     *)
(*                                                                         *)
(* Times are whole frames.  The model follows one rough cut at a time: the *)
(* assembled one, then the cut of a draft made of its file, and so on.     *)
(* Overlays are B-roll; a graphic is one without a source position.        *)
(***************************************************************************)
EXTENDS Naturals, SequencesExt

CONSTANTS
  Lengths,      \* the lengths of the clips, in their order
  Heard,        \* bound: what assembly may hear, and what a second one may
  HeardAgain,
  MinShot,      \* minShotSeconds
  MinExtraCut,  \* MIN_EXTRA_CUT_SECONDS
  MaxExtra,     \* bound: extra cuts of one save
  Deliveries,   \* deliveries of render jobs at work at once
  MaxDrafts,    \* bound: how often a draft is made of the last one's file
  NoFile        \* nothing rendered, nothing at work; a plan refused

ASSUME EditListsBoundsAssumption ==
  /\ Lengths \in Seq(Nat) /\ HeardAgain \subseteq Heard
  /\ {MinShot, MinExtraCut, MaxExtra, MaxDrafts} \subseteq Nat

VARIABLES
  list,       \* rough_cuts.decisions
  overrides,  \* rough_cuts.overrides
  making,     \* the render jobs at work: what each has read
  file,       \* rendered_decisions with the rendered_overrides they were made by
  drafts      \* how many drafts led to this cut

editListVars == <<list, overrides, making, file, drafts>>

Clips == DOMAIN Lengths

\* What has an end ends no earlier than it begins.
Forward(S) == {r \in S : r.from <= r.to}

\* A stretch of a clip or of a timeline; footage; a part of the program, where it lies on the
\* timeline, and whether it was put back; a removal; B-roll and where its source begins.
Stretch == Forward([from : Int, to : Int])
Part == Forward([clip : Clips, from : Int, to : Int])
Segment == Forward([clip : Clips, from : Int, to : Int, at : Int, new : BOOLEAN])
Key == {"cut", "manual", "feedback"} \X Clips \X Int \X Int
Island == Forward([key : Key, clip : Clips, from : Int, to : Int])
Overlay == Forward([from : Int, to : Int, source : Int])

List == [edits : Seq(Segment), cuts : Seq(Island), overlays : SUBSET Overlay]
Review == {o \in [restored : SUBSET Key, extra : SUBSET Part] : IsFiniteSet(o.extra)}
Made == [list : List, overrides : Review]
Rendered == [shown : List, list : List, overrides : Review]

ASSUME HeardAssumption ==
  \A heard \in Heard : \A k \in Clips : \A ranges \in {heard.turns[k], heard.cuts[k]} :
    IsFiniteSet(ranges) /\ ranges \subseteq {r \in Stretch : r.from >= 0}
\* wordsFromSegments clamps what it hears to the clip, and with it the cuts.  (Not assumed: a
\* clip whose duration is not on record is not clamped to.)
CutsInClips == \A heard \in Heard, k \in Clips : \A r \in heard.cuts[k] : r.to <= Lengths[k]

ASSUME NoFileAssumption == NoFile \notin List \cup Made \cup Rendered

EditListsTypeOK ==
  /\ list \in List
  /\ overrides \in Review
  /\ making \in [Deliveries -> Made \cup {NoFile}]
  /\ file \in Rendered \cup {NoFile}
  /\ drafts \in 0..MaxDrafts

Larger(a, b) == IF a > b THEN a ELSE b
Smaller(a, b) == IF a < b THEN a ELSE b
Mapped(s, Op(_)) == [i \in DOMAIN s |-> Op(s[i])]
\* The entries that pass, and the entries in the order of a number each has: SelectSeq and
\* SortSeq, by definitions that a proof can unfold.
Where(s, Test(_)) == FlattenSeq(Mapped(s, LAMBDA x : IF Test(x) THEN <<x>> ELSE <<>>))
Place(out, x, rank) == InsertAt(out, 1 + Cardinality({i \in DOMAIN out : rank[out[i]] <= rank[x]}), x)
Sorted(s, rank) == FoldLeft(LAMBDA out, x : Place(out, x, rank), <<>>, s)
ByStart(ranges) == Sorted(SetToSeq(ranges), [r \in ranges |-> r.from])

Nonempty(r) == r.from < r.to
Spans(n) == {s \in [from : 0..n, to : 0..n] : Nonempty(s)}
SpanOf(x) == [from |-> x.from, to |-> x.to]
Overlap(a, b) == a.from < b.to /\ b.from < a.to

\* mergeRanges: overlapping and touching ranges become one; sorted.
Merge(out, r) ==
  IF out # <<>> /\ r.from <= Last(out).to
  THEN [out EXCEPT ![Len(out)].to = Larger(@, r.to)]
  ELSE Append(out, r)

MergeRanges(ranges) == FoldLeft(Merge, <<>>, ByStart(ranges))

\* What is left of a range between the sorted, disjoint ranges in it.
Gaps(range, ranges) ==
  LET n == Len(ranges) IN
  Where([i \in 1..n + 1 |->
           [from |-> IF i = 1 THEN range.from ELSE ranges[i - 1].to,
            to   |-> IF i = n + 1 THEN range.to ELSE ranges[i].from]],
        Nonempty)

\* packTimeline: one edit after the other from zero.
Pack(out, e) ==
  Append(out, [e EXCEPT !.new = FALSE,
                        !.at = IF out = <<>> THEN 0
                               ELSE Last(out).at + Last(out).to - Last(out).from])

Packed(edits) == FoldLeft(Pack, <<>>, edits)

EditOf(k, r) == [clip |-> k, from |-> r.from, to |-> r.to, at |-> 0, new |-> FALSE]

-----------------------------------------------------------------------------
(* Assembly.                                                               *)

\* applySequentialOffsets
OffsetOf(k) == FoldLeft(LAMBDA sum, n : sum + n, 0, SubSeq(Lengths, 1, k - 1))

\* The speech of clip k, within the clip and no shorter than a shot.
SpeechOf(turns, k) ==
  LET inside == {[from |-> Smaller(t.from, Lengths[k]), to |-> Smaller(t.to, Lengths[k])] : t \in turns}
  IN Where(MergeRanges({r \in inside : Nonempty(r)}), LAMBDA r : r.to - r.from >= MinShot)

\* computeLinearDecisions: every clip in full when nothing else is left.
LinearEdits(turns) ==
  LET speech == FlattenSeq([k \in Clips |-> Mapped(SpeechOf(turns[k], k), LAMBDA r : EditOf(k, r))])
      whole == [k \in Clips |-> EditOf(k, [from |-> 0, to |-> Lengths[k]])]
  IN Packed(IF speech # <<>> THEN speech ELSE Where(whole, Nonempty))

\* toCutIsland
IslandOf(k, r) == [key |-> <<"cut", k, r.from, r.to>>, clip |-> k, from |-> r.from, to |-> r.to]

\* assembleLinearLayout, of turns and removed ranges per clip.
Assembled(heard) ==
  [edits |-> LinearEdits(heard.turns),
   cuts |-> FlattenSeq([k \in Clips |-> Mapped(ByStart(heard.cuts[k]), LAMBDA r : IslandOf(k, r))]),
   overlays |-> {}]

-----------------------------------------------------------------------------
(* The reviewer's overrides on a list.                                     *)

NoOverrides == [restored |-> {}, extra |-> {}]
Keys(l) == {c.key : c \in ToSet(l.cuts)}

ExtraCuts ==
  UNION {{[clip |-> k, from |-> s.from, to |-> s.to] : s \in {t \in Spans(Lengths[k]) : t.to - t.from >= MinExtraCut}}
           : k \in Clips}

\* validateOverridesForDecisions
Overrides(l) ==
  {o \in [restored : SUBSET Keys(l), extra : SUBSET ExtraCuts] : Cardinality(o.extra) <= MaxExtra}

\* subtractSourceRange: what it leaves of an edit, and of a program.
PiecesOf(e, r) ==
  IF e.clip # r.clip \/ ~Overlap(e, r) THEN <<e>>
  ELSE Where(<<[e EXCEPT !.to = r.from],
               [e EXCEPT !.from = r.to, !.at = @ + r.to - e.from]>>, Nonempty)

Minus(edits, r) == FlattenSeq(Mapped(edits, LAMBDA e : PiecesOf(e, r)))

\* mergeContiguous
Join(out, e) ==
  IF out # <<>> /\ Last(out).clip = e.clip /\ Last(out).to = e.from
  THEN [out EXCEPT ![Len(out)].to = e.to]
  ELSE Append(out, e)

Joined(edits) == FoldLeft(Join, <<>>, edits)

\* An island goes back in; what the program holds of it is taken out first.
PutBack(edits, island) ==
  Append(Minus(edits, island), [EditOf(island.clip, SpanOf(island)) EXCEPT !.new = TRUE])

\* The islands a review puts back: the first one of each key.
RestoredOf(l, o) ==
  LET First(i) == \A j \in 1..i - 1 : l.cuts[j].key # l.cuts[i].key
  IN FlattenSeq([i \in DOMAIN l.cuts |->
                   IF l.cuts[i].key \in o.restored /\ First(i) THEN <<l.cuts[i]>> ELSE <<>>])

\* Where the parts of the old timeline went; restored edits come from nowhere on it.
Mapping(edits) ==
  {[from |-> edits[i].at, to |-> edits[i].at + edits[i].to - edits[i].from,
    output |-> Packed(edits)[i].at] : i \in {j \in DOMAIN edits : ~edits[j].new}}

\* remapEffects: an overlay is split at removals and carries its source position along.
Remapped(overlays, mapping) ==
  {LET from == Larger(p[1].from, p[2].from)
       to == Smaller(p[1].to, p[2].to)
   IN [from |-> p[2].output + from - p[2].from, to |-> p[2].output + to - p[2].from,
       source |-> p[1].source + from - p[1].from]
     : p \in {q \in overlays \X mapping : Overlap(q[1], q[2])}}

\* hasProgramChanges
Changes(l, o) == o.extra # {} \/ o.restored \cap Keys(l) # {}

\* effectiveDecisions: the program after the review, and the cut list that goes with it.
Effective(l, o) ==
  LET islands == RestoredOf(l, o)
      extra == SetToSeq(o.extra)
      parts == FoldLeft(Minus, FoldLeft(PutBack, l.edits, islands), extra)
      edits == Sorted(parts, [e \in ToSet(parts) |-> OffsetOf(e.clip) + e.from])
  IN IF ~Changes(l, o) THEN l
     ELSE [edits |-> Packed(Joined(edits)),
           cuts |-> Where(l.cuts, LAMBDA c : c.key \notin {i.key : i \in ToSet(islands)})
                    \o Mapped(extra, LAMBDA x : [key |-> <<"manual", x.clip, x.from, x.to>>,
                                                 clip |-> x.clip, from |-> x.from, to |-> x.to]),
           overlays |-> Remapped(l.overlays, Mapping(edits))]

\* programAffecting
Affecting(l, o) == [restored |-> o.restored \cap Keys(l), extra |-> o.extra]

\* needsRender
NeedsRender(l, o, rendered) == Affecting(l, o) # Affecting(l, rendered)

-----------------------------------------------------------------------------
(* What comments ask of a rendered version.                                *)

LengthOf(edits) == IF edits = <<>> THEN 0 ELSE Last(edits).at + Last(edits).to - Last(edits).from

Ops(range) ==
  {o \in [op : {"cut", "keep", "broll"}, from : range.from..range.to, to : range.from..range.to] : Nonempty(o)}

OpsOf(ops, op) == {o \in ops : o.op = op}
RangesOf(ops, op) == {SpanOf(o) : o \in OpsOf(ops, op)}
CompeteFor(a, b) == a # b /\ Overlap(a, b)

\* What a plan takes out of the timeline: what it cuts, or what it does not keep of its range.
PlanCuts(range, ops) ==
  IF OpsOf(ops, "keep") = {} THEN MergeRanges(RangesOf(ops, "cut"))
  ELSE Gaps(range, MergeRanges(RangesOf(ops, "keep")))

\* Where an edit lies on the timeline, and a part of the timeline as a part of its footage.
WholeOf(e) == [from |-> e.at, to |-> e.at + e.to - e.from]
SourceOf(e, r) ==
  [e EXCEPT !.from = e.from + r.from - e.at, !.to = e.from + r.to - e.at, !.at = r.from]

\* What of an edit is taken out, what is left of it, and the islands that are.
HitOf(e, cuts) ==
  Where(Mapped(cuts, LAMBDA c : [from |-> Larger(c.from, e.at), to |-> Smaller(c.to, WholeOf(e).to)]),
        Nonempty)
LeftOf(e, cuts) == Mapped(Gaps(WholeOf(e), HitOf(e, cuts)), LAMBDA r : SourceOf(e, r))
IslandsOf(e, cuts) ==
  Mapped(HitOf(e, cuts), LAMBDA r : [key |-> <<"feedback", e.clip, r.from, r.to>>, clip |-> e.clip,
                                     from |-> SourceOf(e, r).from, to |-> SourceOf(e, r).to])

\* applyCommentEditPlan: NoFile when the plan is refused.
ApplyPlan(l, range, ops) ==
  LET cuts == PlanCuts(range, ops)
      edits == FlattenSeq(Mapped(l.edits, LAMBDA e : LeftOf(e, cuts)))
      removed == FlattenSeq(Mapped(l.edits, LAMBDA e : IslandsOf(e, cuts)))
      asked == {[from |-> o.from, to |-> o.to, source |-> 0] : o \in OpsOf(ops, "broll")}
      added == Remapped(asked, Mapping(edits))
  IN IF \/ OpsOf(ops, "keep") # {} /\ OpsOf(ops, "cut") # {}
        \/ \E a, b \in asked : CompeteFor(a, b)
        \/ removed = <<>> /\ added = {}
        \/ edits = <<>>
     THEN NoFile
     ELSE [edits |-> Packed(edits), cuts |-> l.cuts \o removed,
           overlays |-> Remapped(l.overlays, Mapping(edits)) \cup added]

\* What a comment's plan cuts, in the batch: what it does not keep.
CutsOf(c) ==
  RangesOf(c.ops, "cut") \cup
    (IF OpsOf(c.ops, "keep") = {} THEN {}
     ELSE ToSet(Gaps(c.range, MergeRanges(RangesOf(c.ops, "keep")))))

\* One removes what the other keeps or decorates, or both decorate it.
Conflict(a, b) ==
  \/ \E r \in CutsOf(a) : \E s \in RangesOf(b.ops, "keep") \cup RangesOf(b.ops, "broll") : Overlap(r, s)
  \/ \E r \in RangesOf(a.ops, "broll") : \E s \in RangesOf(b.ops, "broll") : CompeteFor(r, s)

\* applyCommentEditBatch, and the single plan: each on the reviewed timeline.
Drafted(l, comments) ==
  LET whole == [from |-> 0, to |-> LengthOf(l.edits)]
      AsOps(c) == OpsOf(c.ops, "broll") \cup {[op |-> "cut", from |-> r.from, to |-> r.to] : r \in CutsOf(c)}
  IN IF Cardinality(comments) = 1
     THEN LET c == CHOOSE c \in comments : TRUE IN ApplyPlan(l, c.range, c.ops)
     ELSE IF \/ \E c \in comments : ApplyPlan(l, c.range, c.ops) = NoFile
             \/ \E a, b \in comments : a # b /\ Conflict(a, b)
     THEN NoFile
     ELSE ApplyPlan(l, whole, UNION {AsOps(c) : c \in comments})

\* A plan that keeps nothing is the same in every range it fits in: take the smallest.
Hull(ops) == [from |-> CHOOSE n \in {o.from : o \in ops} : \A o \in ops : n <= o.from,
              to |-> CHOOSE n \in {o.to : o \in ops} : \A o \in ops : o.to <= n]

\* Bound: one comment with one or two operations, or two comments with one each.
CommentsOn(l) ==
  LET OneOrTwo(S) == {{a, b} : a, b \in S}
      plans == {c \in UNION {[range : {r}, ops : OneOrTwo(Ops(r))] : r \in Spans(LengthOf(l.edits))} :
                  OpsOf(c.ops, "keep") = {} => c.range = Hull(c.ops)}
  IN {{c} : c \in plans} \cup OneOrTwo({c \in plans : Cardinality(c.ops) = 1})

-----------------------------------------------------------------------------

EditListsInit ==
  /\ \E heard \in Heard : list = Assembled(heard)
  /\ overrides = NoOverrides /\ file = NoFile /\ drafts = 0
  /\ making = [d \in Deliveries |-> NoFile]

\* A redelivered assembly writes the list again; the overrides stay as they are.
Reassemble(heard) ==
  /\ drafts = 0
  /\ list' = Assembled(heard)
  /\ UNCHANGED <<overrides, making, file, drafts>>

\* PUT .../overrides
SaveOverrides(o) ==
  /\ overrides' = o
  /\ UNCHANGED <<list, making, file, drafts>>

\* materializeRoughCut reads the list and the overrides; a program with nothing left fails.
StartMaking(d) ==
  /\ making[d] = NoFile
  /\ Effective(list, overrides).edits # <<>>
  /\ making' = [making EXCEPT ![d] = [list |-> list, overrides |-> overrides]]
  /\ UNCHANGED <<list, overrides, file, drafts>>

\* Mutant of StoreFile: the overrides are read again when the render is done.
StoreFileOfNow(d) ==
  /\ making[d] # NoFile
  /\ file' = [shown |-> Effective(making[d].list, making[d].overrides),
              list |-> making[d].list, overrides |-> overrides]
  /\ making' = [making EXCEPT ![d] = NoFile]
  /\ UNCHANGED <<list, overrides, drafts>>

\* The render is done: what it showed and what it was made by, in one UPDATE.
StoreFile(d) ==
  /\ making[d] # NoFile
  /\ file' = [shown |-> Effective(making[d].list, making[d].overrides),
              list |-> making[d].list, overrides |-> making[d].overrides]
  /\ making' = [making EXCEPT ![d] = NoFile]
  /\ UNCHANGED <<list, overrides, drafts>>

FailMaking(d) ==
  /\ making[d] # NoFile
  /\ making' = [making EXCEPT ![d] = NoFile]
  /\ UNCHANGED <<list, overrides, file, drafts>>

\* Comments are asked of a rendered version with no render at work. (What they ask depends on
\* the file alone: overrides saved since the render are left out as a bound.)
MayAsk ==
  /\ file # NoFile /\ \A d \in Deliveries : making[d] = NoFile
  /\ drafts < MaxDrafts /\ overrides = file.overrides

\* executeCommentEdit, on the source map of the version: from here on the cut is the draft's.
MakeDraft(comments) ==
  LET draft == Drafted(file.shown, comments) IN
  /\ draft # NoFile
  /\ list' = draft /\ overrides' = NoOverrides /\ file' = NoFile /\ drafts' = drafts + 1
  /\ UNCHANGED making

EditListsNext ==
  \/ \E heard \in HeardAgain : Reassemble(heard)
  \/ \E o \in Overrides(list) : SaveOverrides(o)
  \/ \E d \in Deliveries : StartMaking(d) \/ StoreFile(d) \/ FailMaking(d)
  \/ MayAsk /\ \E comments \in CommentsOn(file.shown) : MakeDraft(comments)

EditListsSpec == EditListsInit /\ [][EditListsNext]_editListVars

-----------------------------------------------------------------------------
(* Properties.                                                             *)

FramesOf(edits) ==
  FlattenSeq(Mapped(edits, LAMBDA e : [n \in 1..(e.to - e.from) |-> <<e.clip, e.from + n - 1>>]))

Footage(parts) == UNION {{<<p.clip, n>> : n \in p.from..p.to - 1} : p \in parts}
Times(ranges) == UNION {r.from..r.to - 1 : r \in ranges}

\* Frames of footage in the order of the clips, each of them once.
Ascending(frames) ==
  \A i \in 1..Len(frames) - 1 :
    LET a == frames[i]
        b == frames[i + 1]
    IN a[1] < b[1] \/ (a[1] = b[1] /\ a[2] < b[2])

\* Which frame of footage is covered by which frame of B-roll.
CoveredOf(l) ==
  UNION {{<<FramesOf(l.edits)[t + 1], o.source + t - o.from>> : t \in o.from..o.to - 1} : o \in l.overlays}

\* A cut list that goes with its program names all that was removed so far.
MissingIsListed ==
  file # NoFile =>
    Footage(ToSet(file.list.cuts)) \ ToSet(FramesOf(file.shown.edits)) \subseteq Footage(ToSet(file.shown.cuts))

\* A program with the decisions of a review on it: every frame once and in the order of the
\* clips, what was restored, without what was cut; overlays on the footage they were put on.
Reviewed(shown, l, o) ==
  LET put == Footage({c \in ToSet(l.cuts) : c.key \in o.restored})
      wanted == (ToSet(FramesOf(l.edits)) \cup put) \ Footage(o.extra)
      shows == FramesOf(shown.edits)
  IN /\ ToSet(shows) = wanted /\ Ascending(shows)
     /\ CoveredOf(shown) = {c \in CoveredOf(l) : c[1] \in wanted \ put}

\* A draft of a batch: what the plans cut is gone, what they keep or decorate is not,
\* overlays lie where they were put, and the list names what is gone.
Revised(draft, l, comments) ==
  LET old == FramesOf(l.edits)
      Kept(c) == Times(RangesOf(c.ops, "keep"))
      Cut(c) == Times(RangesOf(c.ops, "cut"))
                  \cup (IF Kept(c) = {} THEN {} ELSE (c.range.from..c.range.to - 1) \ Kept(c))
      gone == UNION {Cut(c) : c \in comments}
      left == {old[t + 1] : t \in (0..Len(old) - 1) \ gone}
      asked == UNION {UNION {{<<old[t + 1], t - o.from>> : t \in o.from..o.to - 1} : o \in OpsOf(c.ops, "broll")}
                        : c \in comments}
  IN /\ FramesOf(draft.edits) = Where(old, LAMBDA f : f \in left)
     /\ CoveredOf(draft) = {c \in CoveredOf(l) \cup asked : c[1] \in left}
     /\ Footage(ToSet(l.cuts)) \cup (ToSet(old) \ left) \subseteq Footage(ToSet(draft.cuts))
     /\ \A a, b \in comments : a # b =>
          (Kept(a) \cup Times(RangesOf(a.ops, "broll"))) \cap Cut(b) = {}

\* A file that needs no new render shows what the review decided on the list it was made
\* of, with a cut list that names what is missing; and a draft of it, whatever its
\* comments ask for, is what they ask for.
FilesShowDecisions ==
  file # NoFile =>
    /\ file.list = list /\ ~NeedsRender(list, overrides, file.overrides) => Reviewed(file.shown, list, overrides)
    /\ MissingIsListed
    /\ MayAsk =>
         \A comments \in CommentsOn(file.shown) :
           LET draft == Drafted(file.shown, comments) IN draft # NoFile => Revised(draft, file.shown, comments)
=============================================================================

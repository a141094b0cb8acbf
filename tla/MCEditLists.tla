---------------------------- MODULE MCEditLists ----------------------------
(* TLC instances of EditLists: what assembly hears is a choice of the cases *)
(* that differ.                                                             *)
EXTENDS EditLists

Span(from, to) == [from |-> from, to |-> to]

-----------------------------------------------------------------------------
(* Two clips, of three and of two frames, with shots of two.               *)

TwoClips == <<3, 2>>

Whole == [turns |-> <<{Span(0, 2), Span(1, 4)}, {}>>, cuts |-> <<{}, {Span(0, 1)}>>]
Ends == [turns |-> <<{Span(1, 3)}, {Span(0, 2)}>>, cuts |-> <<{Span(0, 1)}, {}>>]

TwoClipsHeard == {
  \* speech beyond the end of its clip, and none in the other
  Whole, Ends,
  \* takes too short to keep, and islands one in the other
  [turns |-> <<{Span(0, 1)}, {Span(0, 2)}>>, cuts |-> <<{Span(1, 3), Span(1, 2)}, {}>>],
  \* nothing long enough: the clips in full, with an island in the one and all the other
  [turns |-> <<{Span(0, 1), Span(2, 3)}, {}>>, cuts |-> <<{Span(1, 2)}, {Span(0, 2)}>>]}

TwoClipsAgain == {Ends}

\* Bound: of a draft what is saved is rendered next, and a draft has few islands and overlays.
EditListsBound ==
  drafts > 0 =>
    /\ Len(list.cuts) <= 2 /\ Cardinality(list.overlays) <= 1
    /\ \A d \in Deliveries : making[d] # NoFile => making[d].overrides = overrides
    /\ file # NoFile => file.overrides = overrides

\* What is proved of the lists asks for this: the instances have it.
ASSUME CutsInClipsAssumption == CutsInClips

-----------------------------------------------------------------------------
(* One clip of four frames, all of it speech.                              *)

OneClip == <<4>>
OneClipHeard == {[turns |-> <<{Span(0, 4)}>>, cuts |-> <<{}>>]}
=============================================================================

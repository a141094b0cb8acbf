\* Two versions, one comment, one read at a time and one write of this page.
SPECIFICATION FeedSpec
CONSTANTS
  Cuts = {g1, g2}
  Comments = {1}
  Polls = {f1}
  Edits = {e1}
  MaxWrites = 2
  NoTag = NoTag
INVARIANT PollBringsComments
CHECK_DEADLOCK FALSE

\* Two comments, alone and in a batch, edited and deleted while their draft is
\* planned, rendered and reviewed, by two calls at a time; and one comment whose draft
\* is rendered, retried, rendered again and deleted, as its rough cut may be, by
\* workers that may be stopped at work.
SPECIFICATION ScenesSpec
CONSTANTS
  Comments = {c1, c2}
  Editable = {c1}
  Deletable = {c2}
  Removable = {j1, j2}
  Texts = {t1, t2}
  Runs = {r1, r2}
  Jobs = {j1, j2}
  Versions = {v1, v2}
  Calls = {x1, x2}
  Actions = {"queue", "run", "accept", "revise", "undo", "human"}
  Paired = {"queue", "run", "human"}
  MayStop = TRUE
  None = None
INVARIANTS TypeOK SharedDraft OwnPreview
PROPERTIES BusyStays AcceptedWhole DraftsKept PreviewKept
SYMMETRY Symmetric
CHECK_DEADLOCK FALSE

\* An accepted draft is deleted and its rough cut rendered again.
SPECIFICATION Spec
CONSTANTS
  Comments = {c1}
  Editable = {}
  Deletable = {}
  Removable = {}
  Texts = {t1}
  Runs = {r1}
  Jobs = {j1, j2}
  Versions = {v1, v2}
  Calls = {x1}
  Actions = {"run", "accept"}
  Paired = {"queue", "run", "human"}
  MayStop = FALSE
  None = None
PROPERTIES AcceptedPreviewPinned
CHECK_DEADLOCK FALSE

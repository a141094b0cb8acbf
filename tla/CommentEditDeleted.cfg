\* A comment of a batch is deleted while the batch is planned.
SPECIFICATION FairSpec
CONSTANTS
  Comments = {c1, c2}
  Editable = {}
  Deletable = {c2}
  Removable = {}
  Texts = {t1}
  Runs = {r1}
  Jobs = {j1}
  Versions = {v1}
  Calls = {x1}
  Actions = {"queue", "run"}
  Paired = {"queue", "run", "human"}
  MayStop = FALSE
  None = None
PROPERTIES Settles
CHECK_DEADLOCK FALSE

\* A draft of a draft cuts at the time the first one cut at.
SPECIFICATION EditListsSpec
CONSTANTS
  Lengths <- OneClip
  Heard <- OneClipHeard
  HeardAgain = {}
  MinShot = 1
  MinExtraCut = 2
  MaxExtra = 0
  Deliveries = {d1}
  MaxDrafts = 2
  NoFile = NoFile
INVARIANTS MissingIsListed
CHECK_DEADLOCK FALSE

\* Two cuts of one folder, two cameras, with what may come between of one set a time.
SPECIFICATION FairSpec
CONSTANTS
  v1 = v1
  v2 = v2
  None = None
  Versions = {v1, v2}
  Rows = {1, 2}
  Hearings = {1, 2}
  Tries = 2
  Lines = 1
  Disturbances <- Together
  Cuts = {1, 2}
  Slots <- Multicam
  Required = TRUE
  Assemblies = {1, 2, 3}
  Renders = {1}
INVARIANTS RoughCutsTypeOK RunningCutHasJob
PROPERTIES OneTranscriptionQueued CutSettles
CHECK_DEADLOCK FALSE

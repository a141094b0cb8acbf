\* Eight parts, one scene each: two uploads (one in parts, one of them of bytes that
\* are no video); two subscriptions of one customer; an address invited twice; three
\* agent runs; two videos reviewed; two batches of short form;
\* the comments of a page; two clips cut, reviewed, rendered and edited by comments.
SPECIFICATION Spec
CONSTANTS
  u1 = u1
  u2 = u2
  Uploads = {u1, u2}
  Size <- UnitSizes
  Limit = 2
  Multipart = {u2}
  Invalid = {u2}
  Finals = {1, 2}
  NoUpload = NoUpload
  Subs = {1, 2}
  Customers = {c1}
  Webhooks = {w1}
  Checkouts = {k1}
  TrialDays = 1
  Horizon = 2
  MaxEvents = 1
  NoValue = NoValue
  Invites = {1, 2}
  Senders = {s1, s2}
  Visitors = {p1}
  Cancels = {d1}
  Attempts = 2
  Nobody = Nobody
  Runs = {1, 2, 3}
  Askers = {q1, q2}
  Workers = {aw1, aw2}
  Take = 2
  Findings = 1
  NoRun = NoRun
  Videos = {v1, v2}
  Options = {1}
  Loads = {l1, l2}
  Generations = 2
  Absent = Absent
  b1 = b1
  b2 = b2
  Batches = {b1, b2}
  Shorts = {1, 2}
  Analyses = {a1, a2}
  Rankings = {r1, r2}
  Clicks = {j1}
  Renders = {x1, x2}
  Tries = 2
  UseAi = TRUE
  Cuts = {g1, g2}
  Comments = {1, 2}
  Polls = {f1}
  Edits = {e1}
  MaxWrites = 2
  NoTag = NoTag
  Lengths <- TwoClips
  Heard <- TwoClipsHeard
  HeardAgain <- TwoClipsAgain
  MinShot = 2
  MinExtraCut = 2
  MaxExtra = 1
  Deliveries = {y1}
  MaxDrafts = 1
  NoFile = NoFile
  Nothing = Nothing
  Deleted = Deleted
INVARIANTS TypesOK UploadBecomesOneVersion EndedMeansNoAccess SubscriptionDecides
  OneLiveInvitation OneWorkerPerRun OwnDecisions OneVideoPerShort ActiveBatchHasWork OnlyLateWritesHide
  FilesShowDecisions
PROPERTIES OnlyLateUploadsOverfill TrialOnceAndKept LinksOnlyPromote UnsavedOutlivesReload
SYMMETRY Symmetry
CONSTRAINT Bound
CHECK_DEADLOCK FALSE

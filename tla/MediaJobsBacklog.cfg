\* One worker that is behind, and as many unknown jobs as a claim takes.
SPECIFICATION FairSpec
CONSTANTS
  w1 = w1
  w2 = w2
  Jobs = {1, 2, 3}
  Workers = {w1}
  Image <- BacklogImage
  QueueOf <- BacklogQueue
  InlineJobs = {}
  BatchLimit = 2
  RetryLimit = 1
  Msgs = {1, 2}
  Faults = {}
PROPERTY KnownJobsSettle
\* The publish loop goes on ticking on an empty table: the system really rests
\* once every row is settled.
CHECK_DEADLOCK FALSE

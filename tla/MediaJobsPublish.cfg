\* Two workers publish two jobs while sends, writes and processes fail and
\* deliveries expire, and run them when they are delivered again.
SPECIFICATION Spec
CONSTANTS
  w1 = w1
  w2 = w2
  Jobs = {1, 2}
  Workers = {w1, w2}
  Image <- MixedImage
  QueueOf <- OneQueue
  InlineJobs = {2}
  BatchLimit = 2
  RetryLimit = 1
  Msgs = {1, 2}
  Faults = {"crash", "sendError", "dbError", "expiry"}
INVARIANTS TypeOK ClaimedOnce BatchNotClaimable ParkedNotPublished NoSilentLoss
PROPERTY StartedNotRequeued
CONSTRAINT OneFaultyJob
\* The publish loop goes on ticking on an empty table: the system really rests
\* once every row is settled.
CHECK_DEADLOCK FALSE

\* No faults and no deletions of comments: both workers come to an end.
SPECIFICATION Spec
CONSTANTS
  w1 = w1
  w2 = w2
  c1 = c1
  c2 = c2
  t1 = t1
  r1 = r1
  r2 = r2
  j1 = j1
  v1 = v1
  x1 = x1
  None = None
PROPERTIES KnownJobsSettle UnknownJobsWait Settles
\* The publish loop goes on ticking on an empty table: the system really rests
\* once every row is settled.
CHECK_DEADLOCK FALSE

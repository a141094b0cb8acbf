\* One version, two requests in its life, an editor and two approvers (one of
\* them an editor too), two calls in flight.
SPECIFICATION Spec
CONSTANTS
  Users = {ed, ann, bob}
  Versions = {v1}
  Requests = {r1, r2}
  Editors = {ed, ann}
  Candidates = {ann, bob}
  Calls = {c1, c2}
  NoVersion = NoVersion
INVARIANTS TypeOK StatusIsOutcome OnePendingPerVersion OneOutcomeNotice
PROPERTY ImplementsLedger
SYMMETRY Symmetric

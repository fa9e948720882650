\* The pool may stop during a run, which loses the queued wrappers and may leave
\* wait() without a result: the invariants hold all the same, and the liveness
\* property demands nothing after it.
SPECIFICATION FairSpec
CONSTANTS
  a = a
  b = b
  c = c
  None = None
  Callers = {c1, c2}
  Workers = {w1, w2}
  Nodes = {a, b, c}
  Edges <- Join
  MaxRuns = 2
  EarlyStop = TRUE
INVARIANTS
  RunSound
PROPERTY ResultCollected
CHECK_DEADLOCK FALSE

\* The graph rests once the runs the bound allows are over.
SPECIFICATION FairSpec
CONSTANTS
  a = a
  b = b
  c = c
  None = None
  Callers = {c1, c2}
  Workers = {w1, w2}
  Nodes = {a}
  Edges = {}
  MaxRuns = 1
  EarlyStop = FALSE
PROPERTY WaitReturns
CHECK_DEADLOCK FALSE

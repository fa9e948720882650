\* The destructor races the completion of the last run.
SPECIFICATION CoreSpec
CONSTANTS
  Reservers = {t1, t2}
  Parents <- RootAndFirst
  MaxOrdinal = 2
  NodeType = {n1, n2, n3}
  Subsystems <- Bootstrapped
  Dependencies <- Bootstrap
  Turns <- Submitted
  Parent <- Replies
  NoParent = "none"
  CommitRuns = {c1, c2, c3}
  Outcomes = {"ok", "error", "unknown"}
  Runs = {r1}
  Workers = {w1}
  Nodes <- Stages
  Deps <- Chain
  EarlyStop = FALSE
  MaxLives = 3
INVARIANT DestructorWaits
CHECK_DEADLOCK FALSE

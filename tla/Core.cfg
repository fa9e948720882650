\* Every part may come to rest: the pool may stop under the pipeline, and the
\* bounds on addresses, faults and lifecycles are reached.
SPECIFICATION CoreSpec
CONSTANTS
  Reservers = {t1, t2}
  Parents <- RootAndFirst
  MaxOrdinal = 2
  NodeType = {n1, n2, n3}
  Subsystems <- Bootstrapped
  Dependencies <- Bootstrap
  Turns <- Submitted
  Parent <- Replies
  NoParent = "none"
  CommitRuns = {c1, c2, c3}
  Outcomes = {"ok", "error", "unknown"}
  Runs = {r1, r2}
  Workers = {w1, w2}
  Nodes <- Stages
  Deps <- Chain
  EarlyStop = TRUE
  MaxLives = 3
INVARIANTS
  StateTruthful
  DetachDrains
  CommitSound
  HistoryReadable
  HeartbeatQuiet
PROPERTIES
  LedgerSpec
  AddressesSound
  TopologyExact
SYMMETRY Interchangeable
CHECK_DEADLOCK FALSE

\* Every part may come to rest: the input is used up, the terminal is closed,
\* the process is terminated, or the pool stops under the pipeline.
SPECIFICATION TerminalSpec
CONSTANTS
  Mappings <- MCMappings
  Disabled <- MCDisabled
  Inputs <- MCInputs
  Reports <- MCReports
  maximum_pending_bytes = 14
  maximum_sequence_bytes = 10
  maximum_paste_bytes = 2
  maximum_clipboard_bytes = 4
  MaxSessions = 2
  MaxGeneration = 2
  kScreenCommandDepth = 3
  Sizes = {1, 2}
  MaxStarts = 2
  MaxFaults = 1
  MaxResizes = 2
  MaxCopies = 2
  Runs = {"turn"}
  Workers = {"w1", "w2"}
  Nodes <- Stages
  Deps <- Branches
  EarlyStop = FALSE
INVARIANTS
  StreamFaithful
  ReportsDecoded
  
  
  HandlersInOrder
PROPERTIES
  QuietBeforeTimeout
  PendingResolves
  GeometryConverges
  EveryRunCompletes
CHECK_DEADLOCK FALSE

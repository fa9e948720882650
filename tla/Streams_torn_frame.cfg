SPECIFICATION Spec
CONSTANTS
  Kind = "FIFO"
  Writers = {"a1", "a2", "b1"}
  EndOf <- Sides
  Bodies <- Sizes
  Base = 3
  maximum_message_bytes = 3
  Capacity = 2
  MaxSends = 3
  MaxFaults = 1
  MaxClients = 2
INVARIANTS FramesWhole
\* The endpoints may be idle for ever.
CHECK_DEADLOCK FALSE

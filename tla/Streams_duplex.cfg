SPECIFICATION Spec
CONSTANTS
  Kind = "SOCKET"
  Writers = {"a1", "b1"}
  EndOf <- OneOfEach
  Bodies <- Sizes
  Base = 3
  maximum_message_bytes = 3
  Capacity = 2
  MaxSends = 2
  MaxFaults = 0
  MaxClients = 1
PROPERTIES TransmitReturns
\* The endpoints may be idle for ever.
CHECK_DEADLOCK FALSE

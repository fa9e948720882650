\* The pool may stop at any time, so a discarded DeliveryJob can leave a
\* detaching thread waiting for good: that stop is outside the Directory's
\* contract, and the liveness properties demand nothing after it.
SPECIFICATION FairSpec
CONSTANTS
  Clients = {c1, c2}
  Workers = {w1, w2}
  Subscribers = {1, 2}
  MaxDepth = 2
  MaxMessages = 4
  EarlyStop = TRUE
INVARIANTS
  DeliverySound
PROPERTIES
  InOrder
  DetachReturns
  PendingDrains
CHECK_DEADLOCK FALSE

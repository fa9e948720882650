SPECIFICATION FairSpec
CONSTANTS
  d1 = d1
  p1 = p1
  Workers = {w1, w2}
  Urgent = {u1}
  Delayed = {d1}
  Periodic = {p1}
  Delay <- MCDelay
  Stoppers = {s1}
  Owners = {o1}
  MaxTime = 2
  None = None
  Forever = Forever
INVARIANTS
  PoolSound
PROPERTIES
  DueServed
  WaitReturns

\* Three deliveries of one event, on both stores, with and without retried failures.
SPECIFICATION FairSpec
CONSTANTS
  Callers = {c1, c2, c3}
  Lease = 1
  ResultTTL = 1
  MaxFaults = 1
INVARIANTS
  IInv
  OneLiveRun
  NoDuplicateEffect
  CachedIsReal
PROPERTIES
  WaitersReturn

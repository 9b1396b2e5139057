\* Attempts that fit in their lease, one retry; workers keep taking their steps.
CONSTANTS
  Deliveries = {d1, d2}
  Workers = {w1, w2}
  RetryDelays <- OneRetry
  LeaseSeconds = 4
  LockWait = 1
  MaxPost = 1
  MaxDelay = 2
  NoLease = NoLease
SPECIFICATION FairSpec
INVARIANTS ExclusivePosting
PROPERTIES EventuallySettled

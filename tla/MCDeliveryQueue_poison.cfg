\* The same fairness, and a receiver whose answers are not HTTP.
CONSTANTS
  Deliveries = {d1}
  Workers = {w1, w2}
  RetryDelays <- TwoRetries
  LeaseSeconds = 4
  LockWait = 1
  MaxPost = 1
  MaxDelay = 3
  NoLease = NoLease
SPECIFICATION PoisonSpec
PROPERTIES EventuallySettled

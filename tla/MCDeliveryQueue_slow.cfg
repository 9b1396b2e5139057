\* Two rows, two workers; a POST may outlive its lease (MaxPost > LeaseSeconds), and
\* a waiting writer may hold a reading of the clock one tick old.
CONSTANTS
  Deliveries = {d1, d2}
  Workers = {w1, w2}
  RetryDelays <- TwoRetries
  LeaseSeconds = 2
  LockWait = 1
  MaxPost = 3
  MaxDelay = 3
  NoLease = NoLease
SPECIFICATION Spec
INVARIANTS TypeOK DeliveredWasReceived
PROPERTIES OnlyHolderSettles Backoff KeepsPromise
SYMMETRY Symmetry

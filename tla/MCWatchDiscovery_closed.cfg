\* IDLE, and a server that closes the connection in good order.
CONSTANTS
  w1 = w1
  w2 = w2
  Watchers = {w1}
  MaxUid = 3
  MaxValidity = 2
  FirstRun = TRUE
  None = None
SPECIFICATION FairSpec
PROPERTIES EventuallyQueued

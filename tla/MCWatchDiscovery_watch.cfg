\* Two watchers from an empty state volume; the folder may be renumbered once.
CONSTANTS
  w1 = w1
  w2 = w2
  Watchers = {w1, w2}
  MaxUid = 3
  MaxValidity = 2
  FirstRun = TRUE
  None = None
SPECIFICATION OverlapSpec
INVARIANTS NeverSkips NoHistoryReplayed
PROPERTIES OnlyForward EventuallyQueued

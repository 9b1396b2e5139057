\* Two calls at a time, pages of one message, a folder renumbered once.
CONSTANTS
  Readers = {r1, r2}
  MaxUid = 2
  MaxValidity = 2
  Limit = 1
  None = None
SPECIFICATION FairSpec
INVARIANTS NeverSkips PagesAdjoin
PROPERTIES OnlyOvertakenGoBack EventuallyGiven

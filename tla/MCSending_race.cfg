\* Two calls, two drafts, a quota of one, a Drafts folder renumbered once.
CONSTANTS
  Requests = {r1, r2}
  Drafts = {d1, d2}
  Originals = {m1}
  MaxUid = 2
  MaxValidity = 2
  PerHour = 1
  SaveSent = TRUE
  UidPlus = TRUE
  Other = Other
  None = None
SPECIFICATION Spec
INVARIANTS DraftSentOnce ClaimMeansAttempt SilentSuccessIsComplete
PROPERTIES OnlyRenumberingHitsOthers
SYMMETRY Symmetry
CHECK_DEADLOCK FALSE

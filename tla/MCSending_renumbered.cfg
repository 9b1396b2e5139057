\* The removal after the send meets a renumbered Drafts folder.
CONSTANTS
  Requests = {r1, r2}
  Drafts = {d1, d2}
  Originals = {m1}
  MaxUid = 2
  MaxValidity = 2
  PerHour = 0
  SaveSent = FALSE
  UidPlus = TRUE
  Other = Other
  None = None
SPECIFICATION Spec
PROPERTIES DraftKeptUntilSent
SYMMETRY Symmetry
CHECK_DEADLOCK FALSE

\* Two calls on two folders, a server with any capabilities, folders renumbered once.
CONSTANTS
  Calls = {c1, c2}
  Boxes = {Trash, Drafts}
  Trash = Trash
  Drafts = Drafts
  Texts = {t1, t2}
  MaxUid = 2
  MaxValidity = 2
  Renumbered = {Drafts}
  None = None
SPECIFICATION Spec
INVARIANTS TypeOK NothingLost NeverDoubled
SYMMETRY Symmetry
CHECK_DEADLOCK FALSE

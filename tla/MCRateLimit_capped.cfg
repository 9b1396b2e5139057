\* Four calls of two mailboxes and three tokens: each limit is the only reason to refuse
\* in some state.
CONSTANTS
  Calls = {c1, c2, c3, c4}
  Mailboxes = {m1, m2}
  Tokens = {t1, t2, t3}
  MailboxLimit = 2
  TokenLimit = 1
  Window = 3
  LockWait = 1
  MaxClock = 5
SPECIFICATION Spec
INVARIANTS TypeOK CappedPerWindow
SYMMETRY Symmetry
CHECK_DEADLOCK FALSE

------------------------------- MODULE RateLimit ------------------------------
(***************************************************************************)
(* The hourly quota: check_and_record_send of state.py, called by all the  *)
(* workers that share the database.  A call reads the time, then waits for *)
(* SQLite's write lock; what it does under the lock is one step.  The      *)
(* table send_log is kept as the set of the calls that have a row.         *)
(***************************************************************************)
EXTENDS Integers, FiniteSets

CONSTANTS
  Calls,         \* the calls of check_and_record_send
  Mailboxes, Tokens,
  MailboxLimit, TokenLimit,  \* per mailbox and per token; 0 is unlimited
  Window,        \* WINDOW_SECONDS
  LockWait,      \* SQLite's busy timeout: the longest wait for the write lock
  MaxClock       \* bound on the time that passes

ASSUME RateLimitAssumption ==
  /\ IsFiniteSet(Calls)
  /\ {MailboxLimit, TokenLimit, Window, LockWait, MaxClock} \subseteq Nat
  /\ LockWait <= Window

VARIABLES
  clock,         \* the time, in seconds
  pc,            \* where the call is
  now,           \* the time it read at its start: ts of its row
  mailbox, token,
  send_log,
  admitted_at    \* history: when its row was committed

vars == <<clock, pc, now, mailbox, token, send_log, admitted_at>>

Init ==
  /\ clock = 0
  /\ pc = [r \in Calls |-> "new"]
  /\ now = [r \in Calls |-> 0]
  /\ mailbox \in [Calls -> Mailboxes]
  /\ token \in [Calls -> Tokens]
  /\ send_log = {}
  /\ admitted_at = [r \in Calls |-> 0]

\* now = time.time(), and BEGIN IMMEDIATE.
Begin(r) ==
  /\ pc[r] = "new"
  /\ pc' = [pc EXCEPT ![r] = "waiting"]
  /\ now' = [now EXCEPT ![r] = clock]
  /\ UNCHANGED <<clock, mailbox, token, send_log, admitted_at>>

\* The rows the call does not delete as too old.
Recent(r) == {x \in send_log : now[x] >= now[r] - Window}

Full(rows, limit) == limit > 0 /\ Cardinality(rows) >= limit

\* Fault: one send too many.
RefusesLate(r) ==
  \/ MailboxLimit > 0 /\ Cardinality({x \in Recent(r) : mailbox[x] = mailbox[r]}) > MailboxLimit
  \/ TokenLimit > 0 /\ Cardinality({x \in Recent(r) : token[x] = token[r]}) > TokenLimit

\* The counts, first of the mailbox and then of the token.
Refuses(r) ==
  \/ Full({x \in Recent(r) : mailbox[x] = mailbox[r]}, MailboxLimit)
  \/ Full({x \in Recent(r) : token[x] = token[r]}, TokenLimit)

\* DELETE, both counts, INSERT and COMMIT.
Admit(r) ==
  /\ pc[r] = "waiting"
  /\ ~Refuses(r)
  /\ pc' = [pc EXCEPT ![r] = "admitted"]
  /\ send_log' = Recent(r) \cup {r}
  /\ admitted_at' = [admitted_at EXCEPT ![r] = clock]
  /\ UNCHANGED <<clock, now, mailbox, token>>

\* Fault: the row is inserted first, and a refusal does not roll it back.
RefuseRecorded(r) ==
  /\ pc[r] = "waiting"
  /\ Refuses(r)
  /\ pc' = [pc EXCEPT ![r] = "refused"]
  /\ send_log' = Recent(r) \cup {r}
  /\ UNCHANGED <<clock, now, mailbox, token, admitted_at>>

\* RateLimited, and ROLLBACK: the DELETE is undone, too.
Refuse(r) ==
  /\ pc[r] = "waiting"
  /\ Refuses(r)
  /\ pc' = [pc EXCEPT ![r] = "refused"]
  /\ UNCHANGED <<clock, now, mailbox, token, send_log, admitted_at>>

\* The lock is not free in time, another SQLite error, or the worker dies.
Abort(r) ==
  /\ pc[r] = "waiting"
  /\ pc' = [pc EXCEPT ![r] = "refused"]
  /\ UNCHANGED <<clock, now, mailbox, token, send_log, admitted_at>>

\* A second passes; nobody waits for the lock longer than LockWait.
Tick ==
  /\ clock < MaxClock
  /\ \A r \in Calls : pc[r] = "waiting" => clock - now[r] < LockWait
  /\ clock' = clock + 1
  /\ UNCHANGED <<pc, now, mailbox, token, send_log, admitted_at>>

Next ==
  \/ \E r \in Calls : Begin(r) \/ Admit(r) \/ Refuse(r) \/ Abort(r)
  \/ Tick

Spec == Init /\ [][Next]_vars

-----------------------------------------------------------------------------
(* Properties                                                              *)

Admitted == {r \in Calls : pc[r] = "admitted"}

\* The types of the variables; only admitted calls have a row.
TypeOK ==
  /\ clock \in Nat
  /\ pc \in [Calls -> {"new", "waiting", "admitted", "refused"}]
  /\ now \in [Calls -> 0..clock]
  /\ mailbox \in [Calls -> Mailboxes]
  /\ token \in [Calls -> Tokens]
  /\ send_log \in SUBSET Admitted
  /\ admitted_at \in [Calls -> 0..clock]

\* The calls admitted in the last `seconds`.
Since(seconds) == {r \in Admitted : admitted_at[r] >= clock - seconds}

Capped(seconds) ==
  /\ \A m \in Mailboxes : MailboxLimit > 0 =>
       Cardinality({r \in Since(seconds) : mailbox[r] = m}) <= MailboxLimit
  /\ \A t \in Tokens : TokenLimit > 0 =>
       Cardinality({r \in Since(seconds) : token[r] = t}) <= TokenLimit

\* At every moment, no mailbox and no token had more sends admitted within the
\* window than its limit, whatever workers race, although they read the clock
\* before they have the lock: the window is shorter by the longest wait for it.
CappedPerWindow == Capped(Window - LockWait)
=============================================================================

---------------------------- MODULE WebhookPromise ----------------------------
(***************************************************************************)
(* What the webhook queue promises about one notification per delivery,    *)
(* with no table, no worker, no lease and no clock: a queued notification  *)
(* is owed until it is confirmed or abandoned; it is confirmed only after  *)
(* its receiver got it, abandoned only after Allowance attempts began, and *)
(* only an administrator's replay makes it owed again.  The receiver may   *)
(* get it several times, and even after it was confirmed.                  *)
(***************************************************************************)
EXTENDS Naturals

CONSTANTS
  Deliveries,   \* the notifications, one per event and recipient
  Allowance     \* attempts that begin before one may be abandoned

VARIABLES
  promise,      \* what became of the notification
  reached,      \* its receiver got it since it was queued or replayed
  begun         \* attempts begun since then, counted up to Allowance

vars == <<promise, reached, begun>>

Init ==
  /\ promise = [d \in Deliveries |-> "none"]
  /\ reached = [d \in Deliveries |-> FALSE]
  /\ begun = [d \in Deliveries |-> 0]

Queue(d) ==
  /\ promise[d] = "none"
  /\ promise' = [promise EXCEPT ![d] = "owed"]
  /\ UNCHANGED <<reached, begun>>

Begin(d) ==
  /\ promise[d] = "owed"
  /\ begun[d] < Allowance
  /\ begun' = [begun EXCEPT ![d] = @ + 1]
  /\ UNCHANGED <<promise, reached>>

Reach(d) ==
  /\ promise[d] # "none"
  /\ begun' = begun
  /\ reached' = [reached EXCEPT ![d] = TRUE]
  /\ promise' = promise

Confirm(d) ==
  /\ promise[d] = "owed"
  /\ reached[d]
  /\ promise' = [promise EXCEPT ![d] = "confirmed"]
  /\ UNCHANGED <<reached, begun>>

Abandon(d) ==
  /\ promise[d] = "owed"
  /\ begun[d] = Allowance
  /\ promise' = [promise EXCEPT ![d] = "abandoned"]
  /\ UNCHANGED <<reached, begun>>

Replay(d) ==
  /\ promise[d] # "none"
  /\ promise' = [promise EXCEPT ![d] = "owed"]
  /\ reached' = [reached EXCEPT ![d] = FALSE]
  /\ begun' = [begun EXCEPT ![d] = 0]

Next ==
  \E d \in Deliveries :
    Queue(d) \/ Begin(d) \/ Reach(d) \/ Confirm(d) \/ Abandon(d) \/ Replay(d)

Spec == Init /\ [][Next]_vars
=============================================================================

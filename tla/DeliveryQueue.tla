---------------------------- MODULE DeliveryQueue ----------------------------
(***************************************************************************)
(* The durable webhook queue: the table "deliveries" of state.py and the   *)
(* delivery threads of watch.py that drain it.  A row is one (event,       *)
(* recipient) pair.  A worker is the delivery thread of one `mailboxd      *)
(* watch` process; two of them run while a deployment overlaps or when the *)
(* operator starts the process twice.                                      *)
(*                                                                         *)
(* Time is kept relative to the present: the columns next_attempt and      *)
(* lease_until hold the seconds from now until that instant, so Tick       *)
(* lowers them instead of advancing a clock and no bound on time is        *)
(* needed.  A worker compares them with a `now` it read before it had the  *)
(* database's write lock; age[w] is how old that reading is.  Nothing      *)
(* tells apart two instants that are more than LockWait in the past, so    *)
(* they are stored as -LockWait (claim order among rows that are that late *)
(* is thereby left open).                                                  *)
(***************************************************************************)
EXTENDS Integers, Sequences

CONSTANTS
  Deliveries,    \* the rows: pairs of an event and a recipient
  Workers,       \* the delivery threads
  RetryDelays,   \* DELIVERY_RETRY_SECONDS
  LeaseSeconds,  \* DELIVERY_LEASE_SECONDS
  LockWait,      \* SQLite's busy timeout: the longest wait for the write lock
  MaxPost,       \* the longest time one POST takes
  MaxDelay,      \* a bound on RetryDelays, where the history stops counting
  NoLease        \* NULL in the column lease

ASSUME QueueAssumption ==
  /\ RetryDelays \in Seq(Nat)
  /\ LeaseSeconds \in Nat
  /\ LockWait \in Nat
  /\ MaxPost \in Nat
  /\ MaxDelay \in Nat
  /\ \A i \in 1..Len(RetryDelays) : RetryDelays[i] <= MaxDelay
  /\ LockWait <= LeaseSeconds
  /\ NoLease \notin Workers

VARIABLES
  \* the table deliveries
  status,        \* "absent" before the row is inserted
  attempts,
  next_attempt,
  lease_until,
  lease,
  \* the delivery threads
  pc,            \* where the thread is in deliver_pending
  age,           \* seconds since it entered that place, where `now` was read
  job,           \* the claimed row, its dict: id, attempts, and the result
  \* what the receivers saw (history)
  received,      \* the receiver got the event since the row was (re)queued
  failures,      \* failed attempts recorded since the row was (re)queued
  quiet          \* seconds since the last of them, counted up to MaxDelay

rowVars == <<status, attempts, next_attempt, lease_until, lease>>
workerVars == <<pc, age, job>>
historyVars == <<received, failures, quiet>>
vars == <<status, attempts, next_attempt, lease_until, lease,
          pc, age, job, received, failures, quiet>>

Statuses == {"absent", "pending", "inflight", "delivered", "dead"}
Places == {"idle", "claiming", "posting", "finishing"}

\* The attempt after which a failure is final: one more than the retries.
Exhausted == Len(RetryDelays) + 1

\* The code never tells apart two counts past exhaustion: saturate there.
Counted(n) == IF n < Exhausted THEN n + 1 ELSE n

Jobs == [id : Deliveries, attempts : 1..Exhausted, success : BOOLEAN]
NoJob == [id |-> NoLease, attempts |-> 0, success |-> FALSE]

-----------------------------------------------------------------------------

Init ==
  /\ status = [d \in Deliveries |-> "absent"]
  /\ attempts = [d \in Deliveries |-> 0]
  /\ next_attempt = [d \in Deliveries |-> 0]
  /\ lease_until = [d \in Deliveries |-> 0]
  /\ lease = [d \in Deliveries |-> NoLease]
  /\ pc = [w \in Workers |-> "idle"]
  /\ age = [w \in Workers |-> 0]
  /\ job = [w \in Workers |-> NoJob]
  /\ received = [d \in Deliveries |-> FALSE]
  /\ failures = [d \in Deliveries |-> 0]
  /\ quiet = [d \in Deliveries |-> MaxDelay]

\* The thread of worker w moves to another place of deliver_pending.
Goto(w, place, work) ==
  /\ pc' = [pc EXCEPT ![w] = place]
  /\ age' = [age EXCEPT ![w] = 0]
  /\ job' = [job EXCEPT ![w] = work]

\* enqueue_notifications inserts the row (its `now`, read before the lock, is
\* up to LockWait old); a row that is already there is left as it is.
EnqueueNotification(d) ==
  /\ status[d] = "absent"
  /\ status' = [status EXCEPT ![d] = "pending"]
  /\ \E a \in 0..LockWait : next_attempt' = [next_attempt EXCEPT ![d] = -a]
  /\ UNCHANGED <<attempts, lease_until, lease, workerVars, historyVars>>

-----------------------------------------------------------------------------
(* claim_delivery: `now` is read, then BEGIN IMMEDIATE waits for the lock. *)

BeginClaim(w) ==
  /\ pc[w] = "idle"
  /\ Goto(w, "claiming", NoJob)
  /\ UNCHANGED <<rowVars, historyVars>>

\* Faults: an inflight row judged by next_attempt, or never taken over.
DueByNextAttempt(d, a) ==
  status[d] \in {"pending", "inflight"} /\ next_attempt[d] <= -a
DueOnlyPending(d, a) == status[d] = "pending" /\ next_attempt[d] <= -a

\* The rows the SELECT of claim_delivery finds with a reading a seconds old.
Due(d, a) ==
  \/ status[d] = "pending" /\ next_attempt[d] <= -a
  \/ status[d] = "inflight" /\ lease_until[d] <= -a

\* The UUID drawn for the lease is represented by the worker that drew it: it
\* holds one claim at a time, and a worker that lost its claim to a crash no
\* longer knows the old UUID.
ClaimDelivery(w, d) ==
  /\ pc[w] = "claiming"
  /\ Due(d, age[w])
  /\ \A e \in Deliveries : Due(e, age[w]) => next_attempt[d] <= next_attempt[e]
  /\ status' = [status EXCEPT ![d] = "inflight"]
  /\ lease' = [lease EXCEPT ![d] = w]
  /\ lease_until' = [lease_until EXCEPT ![d] = LeaseSeconds - age[w]]
  /\ attempts' = [attempts EXCEPT ![d] = Counted(@)]
  /\ Goto(w, "posting",
          [id |-> d, attempts |-> Counted(attempts[d]), success |-> FALSE])
  /\ UNCHANGED <<next_attempt, historyVars>>

NothingDue(w) ==
  /\ pc[w] = "claiming"
  /\ \A d \in Deliveries : ~Due(d, age[w])
  /\ Goto(w, "idle", NoJob)
  /\ UNCHANGED <<rowVars, historyVars>>

-----------------------------------------------------------------------------
(* deliver: one POST outside any transaction.                              *)

\* The receiver answered 2xx.
PostAccepted(w) ==
  /\ pc[w] = "posting"
  /\ Goto(w, "finishing", [job[w] EXCEPT !.success = TRUE])
  /\ received' = [received EXCEPT ![job[w].id] = TRUE]
  /\ UNCHANGED <<rowVars, failures, quiet>>

\* Another status, a redirect, a timeout, a broken connection, or a hook that
\* is no longer configured; the receiver may have processed the event anyway.
PostFailed(w) ==
  /\ pc[w] = "posting"
  /\ Goto(w, "finishing", job[w])
  /\ \E got \in BOOLEAN :
       received' = [received EXCEPT ![job[w].id] = @ \/ got]
  /\ UNCHANGED <<rowVars, failures, quiet>>

\* An answer that is not HTTP: urllib raises http.client.HTTPException, which
\* neither deliver nor _delivery_loop catches.  The thread ends, run() stops the
\* process with status 1 and the supervisor starts it again.  A kill during the
\* POST has the same effect.
PostRaises(w) ==
  /\ pc[w] = "posting"
  /\ Goto(w, "idle", NoJob)
  /\ \E got \in BOOLEAN :
       received' = [received EXCEPT ![job[w].id] = @ \/ got]
  /\ UNCHANGED <<rowVars, failures, quiet>>

-----------------------------------------------------------------------------
(* finish_delivery: one UPDATE guarded by id, lease and status.  Its time   *)
(* is read before the UPDATE has the lock, age[w] seconds ago.              *)

\* Fault: the UPDATE without "AND lease=?".
HoldsAnyLease(w, d) == status[d] = "inflight"

Holds(w, d) == status[d] = "inflight" /\ lease[d] = w

\* Faults: giving up quietly, one attempt early, under a name no query knows, and
\* a delay that never grows.
OutcomeQuiet(j) ==
  IF j.success \/ j.attempts > Len(RetryDelays)
  THEN [status |-> "delivered", delay |-> 0]
  ELSE [status |-> "pending", delay |-> RetryDelays[j.attempts]]
OutcomeEarly(j) ==
  IF j.success THEN [status |-> "delivered", delay |-> 0]
  ELSE IF j.attempts >= Len(RetryDelays) THEN [status |-> "dead", delay |-> 0]
  ELSE [status |-> "pending", delay |-> RetryDelays[j.attempts]]
OutcomeMisnamed(j) ==
  IF j.success THEN [status |-> "delivered", delay |-> 0]
  ELSE IF j.attempts > Len(RetryDelays) THEN [status |-> "failed", delay |-> 0]
  ELSE [status |-> "pending", delay |-> RetryDelays[j.attempts]]
OutcomeFlat(j) ==
  IF j.success THEN [status |-> "delivered", delay |-> 0]
  ELSE IF j.attempts > Len(RetryDelays) THEN [status |-> "dead", delay |-> 0]
  ELSE [status |-> "pending", delay |-> RetryDelays[1]]

\* The status and the delay that the outcome of a job asks for.
Outcome(j) ==
  IF j.success THEN [status |-> "delivered", delay |-> 0]
  ELSE IF j.attempts > Len(RetryDelays) THEN [status |-> "dead", delay |-> 0]
  ELSE [status |-> "pending", delay |-> RetryDelays[j.attempts]]

\* The floor below which instants are not told apart.
Since(t) == IF t < -LockWait THEN -LockWait ELSE t

FinishDelivery(w) ==
  LET d == job[w].id
      out == Outcome(job[w])
  IN /\ pc[w] = "finishing"
     /\ Holds(w, d)
     /\ status' = [status EXCEPT ![d] = out.status]
     /\ next_attempt' = [next_attempt EXCEPT ![d] = out.delay - age[w]]
     /\ lease' = [lease EXCEPT ![d] = NoLease]
     /\ lease_until' = [lease_until EXCEPT ![d] = 0]
     /\ failures' = [failures EXCEPT ![d] = IF job[w].success THEN @ ELSE Counted(@)]
     /\ quiet' = [quiet EXCEPT ![d] = IF job[w].success THEN @ ELSE age[w]]
     /\ Goto(w, "idle", NoJob)
     /\ UNCHANGED <<attempts, received>>

\* The row has been claimed again since: the UPDATE matches no row.
FinishStale(w) ==
  /\ pc[w] = "finishing"
  /\ ~Holds(w, job[w].id)
  /\ Goto(w, "idle", NoJob)
  /\ UNCHANGED <<rowVars, historyVars>>

\* sqlite3.Error in claim_delivery or finish_delivery (_delivery_loop logs it and
\* polls again), or the process is killed there and started again: the outcome of
\* a POST is then recorded nowhere.
Abort(w) ==
  /\ pc[w] \in {"claiming", "finishing"}
  /\ Goto(w, "idle", NoJob)
  /\ UNCHANGED <<rowVars, historyVars>>

-----------------------------------------------------------------------------

\* replay_delivery, by an administrator; an inflight row is refused (409).
ReplayDelivery(d) ==
  /\ status[d] \notin {"absent", "inflight"}
  /\ status' = [status EXCEPT ![d] = "pending"]
  /\ attempts' = [attempts EXCEPT ![d] = 0]
  /\ next_attempt' = [next_attempt EXCEPT ![d] = 0]
  /\ lease' = [lease EXCEPT ![d] = NoLease]
  /\ lease_until' = [lease_until EXCEPT ![d] = 0]
  /\ received' = [received EXCEPT ![d] = FALSE]
  /\ failures' = [failures EXCEPT ![d] = 0]
  /\ quiet' = [quiet EXCEPT ![d] = MaxDelay]
  /\ UNCHANGED workerVars

\* One second passes.  Nobody waits for the lock longer than LockWait, and a
\* POST ends within MaxPost.
Patience(w) == IF pc[w] = "posting" THEN MaxPost ELSE LockWait

Tick ==
  /\ \A w \in Workers : pc[w] = "idle" \/ age[w] < Patience(w)
  /\ age' = [w \in Workers |-> IF pc[w] = "idle" THEN 0 ELSE age[w] + 1]
  /\ next_attempt' = [d \in Deliveries |-> Since(next_attempt[d] - 1)]
  /\ lease_until' = [d \in Deliveries |-> Since(lease_until[d] - 1)]
  /\ quiet' = [d \in Deliveries |->
                 IF quiet[d] < MaxDelay THEN quiet[d] + 1 ELSE quiet[d]]
  /\ UNCHANGED <<status, attempts, lease, pc, job, received, failures>>

Next ==
  \/ \E d \in Deliveries : EnqueueNotification(d) \/ ReplayDelivery(d)
  \/ \E w \in Workers, d \in Deliveries : ClaimDelivery(w, d)
  \/ \E w \in Workers :
       \/ BeginClaim(w) \/ NothingDue(w)
       \/ PostAccepted(w) \/ PostFailed(w) \/ PostRaises(w)
       \/ FinishDelivery(w) \/ FinishStale(w)
       \/ Abort(w)
  \/ Tick

Spec == Init /\ [][Next]_vars

\* The progress of a delivery thread, when nothing goes wrong with it.
Progress(w) ==
  \/ BeginClaim(w) \/ NothingDue(w) \/ \E d \in Deliveries : ClaimDelivery(w, d)
  \/ PostAccepted(w) \/ PostFailed(w) \/ FinishDelivery(w) \/ FinishStale(w)

\* A transaction that would have changed nothing may fail for ever: that is the
\* same step as NothingDue or FinishStale.
Disruption ==
  \/ \E w \in Workers : Abort(w) /\ ~NothingDue(w) /\ ~FinishStale(w)
  \/ \E d \in Deliveries : ReplayDelivery(d)

Unparsable == \E w \in Workers : PostRaises(w)

\* Threads keep running and time passes; failing transactions and administrators'
\* replays come to an end.
Calm == WF_vars(Tick) /\ (\A w \in Workers : WF_vars(Progress(w)))
          /\ <>[][~Disruption]_vars

\* Besides, no thread is killed during a POST for ever.
FairSpec == Spec /\ Calm /\ <>[][~Unparsable]_vars

\* A receiver may answer something that is not HTTP for ever.
PoisonSpec == Spec /\ Calm

-----------------------------------------------------------------------------
(* Properties                                                              *)

\* The types of the table's columns, the threads and the history.
TypeOK ==
  /\ status \in [Deliveries -> Statuses]
  /\ attempts \in [Deliveries -> 0..Exhausted]
  /\ next_attempt \in [Deliveries -> Int]
  /\ lease_until \in [Deliveries -> -LockWait..LeaseSeconds]
  /\ lease \in [Deliveries -> Workers \cup {NoLease}]
  /\ pc \in [Workers -> Places]
  /\ age \in [Workers -> Nat]
  /\ job \in [Workers -> Jobs \cup {NoJob}]
  /\ received \in [Deliveries -> BOOLEAN]
  /\ failures \in [Deliveries -> 0..Exhausted]
  /\ quiet \in [Deliveries -> Nat]

\* A row is marked delivered only if its receiver got the event since the row
\* was queued or last replayed: neither a crash, an expired lease, a worker that
\* answers late nor a replay can turn an event that never left into a delivered
\* one (finish_delivery, replay_delivery).
DeliveredWasReceived ==
  \A d \in Deliveries : status[d] = "delivered" => received[d]

\* Two workers never POST the same row at the same time, as long as an attempt
\* and the waits for the database around it fit in the lease (claim_delivery).
ExclusivePosting ==
  \A v, w \in Workers :
    /\ pc[v] \in {"posting", "finishing"}
    /\ pc[w] \in {"posting", "finishing"}
    /\ job[v].id = job[w].id
    => v = w

\* The premise of ExclusivePosting: the lease outlasts the wait for the lock in
\* claim_delivery, the POST, and the wait for the lock in finish_delivery.
LeaseCoversAttempt == LeaseSeconds > LockWait + MaxPost + LockWait

\* A row leaves "inflight" only because the worker that made its latest claim
\* records its own outcome: a worker that outlived its lease changes nothing
\* (finish_delivery's WHERE clause, replay_delivery's refusal).
OnlyHolderSettles ==
  [][\A d \in Deliveries :
       status[d] = "inflight" /\ status'[d] # "inflight" =>
         \E w \in Workers :
           /\ lease[d] = w /\ job[w].id = d
           /\ pc[w] = "finishing" /\ pc'[w] = "idle"
           /\ status'[d] = "delivered" <=> job[w].success]_vars

\* After k failures in a row were recorded, no worker starts the next attempt
\* before the k-th retry delay has passed, whatever claims crashed or lapsed in
\* between (claim_delivery, finish_delivery).
Backoff ==
  [][\A w \in Workers : pc[w] = "claiming" /\ pc'[w] = "posting" =>
       LET d == job'[w].id
       IN failures[d] > 0 => quiet[d] >= RetryDelays[failures[d]]]_vars

\* The queue keeps the promise of WebhookPromise: a notification stays owed while
\* its row is pending or inflight, at-least-once before it counts as delivered,
\* and no failure makes it dead before all its attempts began.
PromiseOf(st) ==
  CASE st = "absent" -> "none"
    [] st \in {"pending", "inflight"} -> "owed"
    [] st = "delivered" -> "confirmed"
    [] st = "dead" -> "abandoned"

Promise == INSTANCE WebhookPromise WITH
  Allowance <- Exhausted,
  promise <- [d \in Deliveries |-> PromiseOf(status[d])],
  reached <- received,
  begun <- attempts

KeepsPromise == Promise!Spec

\* Every queued notification is eventually delivered or declared dead.
EventuallySettled ==
  \A d \in Deliveries :
    status[d] \in {"pending", "inflight"} ~> status[d] \in {"delivered", "dead"}
=============================================================================

------------------------- MODULE DeliveryQueueProofs -------------------------
(* Theorems about DeliveryQueue, for every set of rows and workers, every    *)
(* retry schedule and every value of the lease and the waits.                *)
EXTENDS DeliveryQueue, TLAPS

\* What the provers need to know of the retry schedule.
LEMMA ScheduleFacts ==
  /\ Len(RetryDelays) \in Nat
  /\ Exhausted \in Nat \ {0}
  /\ \A i \in 1..Len(RetryDelays) : RetryDelays[i] \in Nat
  BY QueueAssumption DEF Exhausted

\* A thread that POSTs or records an outcome has a claimed row at hand.
JobOK == \A w \in Workers : pc[w] \in {"posting", "finishing"} => job[w] \in Jobs

\* Nobody is kept waiting longer than Tick allows.
AgeOK == \A w \in Workers : age[w] <= Patience(w)

TypeInv == TypeOK /\ JobOK /\ AgeOK

\* The delay an outcome asks for is a number of seconds, its status a status.
LEMMA OutcomeType ==
  ASSUME NEW j \in Jobs
  PROVE  /\ Outcome(j).status \in {"delivered", "dead", "pending"}
         /\ Outcome(j).delay \in Nat
  BY ScheduleFacts DEF Outcome, Jobs, Exhausted

LEMMA InitTypeInv == Init => TypeInv
  BY QueueAssumption, ScheduleFacts DEF Init, TypeInv, TypeOK, JobOK, AgeOK, Patience, Statuses, Places

\* One more is at least one and never past exhaustion.
LEMMA CountedType ==
  ASSUME NEW n \in 0..Exhausted
  PROVE  Counted(n) \in 1..Exhausted
  BY ScheduleFacts DEF Counted

\* A thread that moves is where it went, and the others are where they were.
LEMMA GotoEffect ==
  ASSUME pc \in [Workers -> Places], job \in [Workers -> Jobs \cup {NoJob}],
         NEW w \in Workers, NEW place, NEW work, Goto(w, place, work)
  PROVE  /\ pc'[w] = place /\ job'[w] = work
         /\ \A v \in Workers : v # w => pc'[v] = pc[v] /\ job'[v] = job[v]
  BY DEF Goto

\* A thread that moves keeps the threads' types.
LEMMA GotoType ==
  ASSUME TypeInv, NEW w \in Workers, NEW place \in Places,
         NEW work \in Jobs \cup {NoJob},
         place \in {"posting", "finishing"} => work \in Jobs,
         Goto(w, place, work)
  PROVE  /\ pc' \in [Workers -> Places]
         /\ age' \in [Workers -> Nat]
         /\ job' \in [Workers -> Jobs \cup {NoJob}]
         /\ JobOK'
         /\ AgeOK'
<1>1. /\ pc \in [Workers -> Places] /\ age \in [Workers -> Nat]
      /\ job \in [Workers -> Jobs \cup {NoJob}] /\ JobOK /\ AgeOK
  BY DEF TypeInv, TypeOK
<1>2. pc' \in [Workers -> Places] /\ age' \in [Workers -> Nat]
  BY <1>1 DEF Goto
<1>3. job' \in [Workers -> Jobs \cup {NoJob}]
  BY <1>1 DEF Goto
<1>4. JobOK'
  BY <1>1 DEF Goto, JobOK
<1>5. AgeOK'
  BY <1>1, QueueAssumption DEF Goto, AgeOK, Patience
<1> QED
  BY <1>2, <1>3, <1>4, <1>5

\* Each action keeps the types: the columns stay in their ranges and the job of
\* a posting or finishing thread is a claimed row.
LEMMA NextTypeInv == TypeInv /\ [Next]_vars => TypeInv'
<1> SUFFICES ASSUME TypeInv, [Next]_vars PROVE TypeInv'
  OBVIOUS
<1> USE QueueAssumption, ScheduleFacts
        DEF TypeOK, Statuses, Places, rowVars, workerVars, historyVars
<1>0. TypeOK /\ JobOK /\ AgeOK
  BY DEF TypeInv
<1>1. ASSUME NEW d \in Deliveries, EnqueueNotification(d) PROVE TypeInv'
  <2>1. PICK a \in 0..LockWait : next_attempt' = [next_attempt EXCEPT ![d] = -a]
    BY <1>1 DEF EnqueueNotification
  <2>2. next_attempt' \in [Deliveries -> Int]
    <3>1. -a \in Int
      OBVIOUS
    <3> QED
      BY <1>0, <2>1, <3>1
  <2>3. status' \in [Deliveries -> Statuses]
    BY <1>0, <1>1 DEF EnqueueNotification
  <2>4. UNCHANGED <<attempts, lease_until, lease, workerVars, historyVars>>
    BY <1>1 DEF EnqueueNotification
  <2>5. JobOK' /\ AgeOK'
    BY <1>0, <2>4 DEF JobOK, AgeOK, Patience
  <2> QED
    BY <1>0, <2>2, <2>3, <2>4, <2>5 DEF TypeInv
<1>2. ASSUME NEW d \in Deliveries, ReplayDelivery(d) PROVE TypeInv'
  <2>1. /\ status' = [status EXCEPT ![d] = "pending"]
        /\ attempts' = [attempts EXCEPT ![d] = 0]
        /\ next_attempt' = [next_attempt EXCEPT ![d] = 0]
        /\ lease' = [lease EXCEPT ![d] = NoLease]
        /\ lease_until' = [lease_until EXCEPT ![d] = 0]
        /\ received' = [received EXCEPT ![d] = FALSE]
        /\ failures' = [failures EXCEPT ![d] = 0]
        /\ quiet' = [quiet EXCEPT ![d] = MaxDelay]
        /\ UNCHANGED workerVars
    BY <1>2 DEF ReplayDelivery
  <2>2. /\ status' \in [Deliveries -> Statuses]
        /\ attempts' \in [Deliveries -> 0..Exhausted]
        /\ next_attempt' \in [Deliveries -> Int]
        /\ lease_until' \in [Deliveries -> -LockWait..LeaseSeconds]
    BY <1>0, <2>1
  <2>3. /\ lease' \in [Deliveries -> Workers \cup {NoLease}]
        /\ received' \in [Deliveries -> BOOLEAN]
        /\ failures' \in [Deliveries -> 0..Exhausted]
        /\ quiet' \in [Deliveries -> Nat]
    BY <1>0, <2>1
  <2>4. JobOK' /\ AgeOK'
    BY <1>0, <2>1 DEF JobOK, AgeOK, Patience
  <2> QED
    BY <1>0, <2>1, <2>2, <2>3, <2>4 DEF TypeInv
<1>3. ASSUME NEW w \in Workers, NEW d \in Deliveries, ClaimDelivery(w, d)
      PROVE TypeInv'
  <2>1. Counted(attempts[d]) \in 1..Exhausted
    BY <1>0, CountedType
  <2>2. [id |-> d, attempts |-> Counted(attempts[d]), success |-> FALSE] \in Jobs
    BY <2>1 DEF Jobs
  <2>3. age[w] \in Nat /\ age[w] <= LockWait
    BY <1>0, <1>3 DEF AgeOK, Patience, ClaimDelivery
  <2>4. LeaseSeconds - age[w] \in -LockWait..LeaseSeconds
    BY <2>3
  <2>5. /\ pc' \in [Workers -> Places] /\ age' \in [Workers -> Nat]
        /\ job' \in [Workers -> Jobs \cup {NoJob}] /\ JobOK' /\ AgeOK'
    BY <1>3, <2>2, GotoType DEF ClaimDelivery
  <2>6. /\ status' \in [Deliveries -> Statuses]
        /\ attempts' \in [Deliveries -> 0..Exhausted]
        /\ lease_until' \in [Deliveries -> -LockWait..LeaseSeconds]
        /\ lease' \in [Deliveries -> Workers \cup {NoLease}]
    <3>1. /\ status' = [status EXCEPT ![d] = "inflight"]
          /\ lease' = [lease EXCEPT ![d] = w]
          /\ lease_until' = [lease_until EXCEPT ![d] = LeaseSeconds - age[w]]
          /\ attempts' = [attempts EXCEPT ![d] = Counted(attempts[d])]
      BY <1>3 DEF ClaimDelivery
    <3>2. attempts' \in [Deliveries -> 0..Exhausted]
      BY <1>0, <2>1, <3>1
    <3>3. lease_until' \in [Deliveries -> -LockWait..LeaseSeconds]
      BY <1>0, <2>4, <3>1
    <3> QED
      BY <1>0, <3>1, <3>2, <3>3
  <2> QED
    BY <1>0, <1>3, <2>5, <2>6 DEF TypeInv, ClaimDelivery
<1>4. ASSUME NEW w \in Workers,
             BeginClaim(w) \/ NothingDue(w) \/ FinishStale(w) \/ Abort(w)
      PROVE TypeInv'
  <2>1. PICK place \in {"idle", "claiming"} : Goto(w, place, NoJob)
    BY <1>4 DEF BeginClaim, NothingDue, FinishStale, Abort
  <2>2. UNCHANGED <<rowVars, historyVars>>
    BY <1>4 DEF BeginClaim, NothingDue, FinishStale, Abort
  <2> QED
    BY <1>0, <2>1, <2>2 DEF Goto, TypeInv, JobOK, AgeOK, Patience
<1>5. ASSUME NEW w \in Workers, PostAccepted(w) \/ PostFailed(w) \/ PostRaises(w)
      PROVE TypeInv'
  <2>1. job[w] \in Jobs
    BY <1>0, <1>5 DEF PostAccepted, PostFailed, PostRaises, JobOK
  <2>2. [job[w] EXCEPT !.success = TRUE] \in Jobs
    BY <2>1 DEF Jobs
  <2>3. /\ pc' \in [Workers -> Places] /\ age' \in [Workers -> Nat]
        /\ job' \in [Workers -> Jobs \cup {NoJob}] /\ JobOK' /\ AgeOK'
    BY <1>5, <2>1, <2>2, GotoType DEF PostAccepted, PostFailed, PostRaises
  <2>4. received' \in [Deliveries -> BOOLEAN]
    BY <1>0, <1>5 DEF PostAccepted, PostFailed, PostRaises
  <2>5. UNCHANGED <<rowVars, failures, quiet>>
    BY <1>5 DEF PostAccepted, PostFailed, PostRaises
  <2> QED
    BY <1>0, <2>3, <2>4, <2>5 DEF TypeInv
<1>6. ASSUME NEW w \in Workers, FinishDelivery(w) PROVE TypeInv'
  <2> DEFINE d == job[w].id
             out == Outcome(job[w])
  <2>1. job[w] \in Jobs /\ d \in Deliveries
    BY <1>0, <1>6 DEF FinishDelivery, JobOK, Jobs
  <2>2. out.status \in Statuses /\ out.delay \in Nat
    BY <2>1, OutcomeType
  <2>3. Counted(failures[d]) \in 0..Exhausted
    <3>1. failures[d] \in 0..Exhausted
      BY <1>0, <2>1
    <3>2. Counted(failures[d]) \in 1..Exhausted
      BY <3>1, CountedType
    <3> QED
      BY <3>2
  <2>4. /\ pc' \in [Workers -> Places] /\ age' \in [Workers -> Nat]
        /\ job' \in [Workers -> Jobs \cup {NoJob}] /\ JobOK' /\ AgeOK'
    BY <1>6, GotoType DEF FinishDelivery
  <2>5. status' \in [Deliveries -> Statuses]
    <3>1. status' = [status EXCEPT ![d] = out.status]
      BY <1>6 DEF FinishDelivery
    <3> QED
      BY <1>0, <2>1, <2>2, <3>1
  <2>6. next_attempt' \in [Deliveries -> Int]
    <3>1. next_attempt' = [next_attempt EXCEPT ![d] = out.delay - age[w]]
      BY <1>6 DEF FinishDelivery
    <3>2. out.delay - age[w] \in Int
      BY <1>0, <2>2
    <3> QED
      BY <1>0, <2>1, <3>1, <3>2
  <2>7. /\ lease' \in [Deliveries -> Workers \cup {NoLease}]
        /\ lease_until' \in [Deliveries -> -LockWait..LeaseSeconds]
    BY <1>0, <1>6, <2>1, <2>2 DEF FinishDelivery
  <2>8. /\ failures' \in [Deliveries -> 0..Exhausted]
        /\ quiet' \in [Deliveries -> Nat]
    BY <1>0, <1>6, <2>1, <2>3 DEF FinishDelivery
  <2> QED
    BY <1>0, <1>6, <2>4, <2>5, <2>6, <2>7, <2>8 DEF TypeInv, FinishDelivery
<1>7. CASE Tick
  <2>1. \A t \in -LockWait..LeaseSeconds : Since(t - 1) \in -LockWait..LeaseSeconds
    BY DEF Since
  <2>2. \A t \in Int : Since(t - 1) \in Int
    BY DEF Since
  <2>3. TypeOK'
    <3>1. next_attempt' \in [Deliveries -> Int]
      BY <1>0, <1>7, <2>2 DEF Tick
    <3>2. lease_until' \in [Deliveries -> -LockWait..LeaseSeconds]
      BY <1>0, <1>7, <2>1 DEF Tick
    <3>3. age' \in [Workers -> Nat] /\ quiet' \in [Deliveries -> Nat]
      BY <1>0, <1>7 DEF Tick
    <3> QED
      BY <1>0, <1>7, <3>1, <3>2, <3>3 DEF Tick
  <2>4. JobOK'
    BY <1>0, <1>7 DEF Tick, JobOK
  <2>5. AgeOK'
    <3> SUFFICES ASSUME NEW w \in Workers PROVE age'[w] <= Patience(w)'
      BY DEF AgeOK
    <3>1. /\ age[w] \in Nat /\ Patience(w) \in Nat /\ Patience(w)' = Patience(w)
          /\ pc[w] = "idle" \/ age[w] < Patience(w)
          /\ age'[w] = IF pc[w] = "idle" THEN 0 ELSE age[w] + 1
      BY <1>0, <1>7 DEF Tick, Patience
    <3> QED
      BY <3>1
  <2> QED
    BY <2>3, <2>4, <2>5 DEF TypeInv
<1>8. CASE UNCHANGED vars
  BY <1>0, <1>8 DEF vars, TypeInv, JobOK, AgeOK, Patience
<1> QED
  BY <1>1, <1>2, <1>3, <1>4, <1>5, <1>6, <1>7, <1>8 DEF Next

\* Every reachable state has the table's and the threads' types.
THEOREM TypeCorrect == Spec => []TypeOK
<1>1. Spec => []TypeInv
  BY InitTypeInv, NextTypeInv, PTL DEF Spec
<1> QED
  BY <1>1, PTL DEF TypeInv

-----------------------------------------------------------------------------
(* A delivered row reached its receiver.                                      *)

\* A worker that is about to record success for a row it still holds has seen
\* the receiver accept it; a replay in between would have taken the row away.
SuccessWasReceived ==
  \A w \in Workers :
    /\ pc[w] = "finishing"
    /\ job[w].success
    /\ Holds(w, job[w].id)
    => received[job[w].id]

\* A worker knows no outcome before its POST ended.
PostingUndecided == \A w \in Workers : pc[w] = "posting" => ~job[w].success

DeliveredInv ==
  TypeInv /\ PostingUndecided /\ DeliveredWasReceived /\ SuccessWasReceived

\* Only claim_delivery starts a POST.
LEMMA NextUndecided ==
  TypeInv /\ PostingUndecided /\ [Next]_vars => PostingUndecided'
<1> SUFFICES ASSUME TypeInv, PostingUndecided, [Next]_vars
             PROVE  PostingUndecided'
  OBVIOUS
<1>0. pc \in [Workers -> Places] /\ job \in [Workers -> Jobs \cup {NoJob}]
  BY DEF TypeInv, TypeOK
<1>1. ASSUME NEW w \in Workers, NEW d \in Deliveries, ClaimDelivery(w, d)
      PROVE  PostingUndecided'
  <2>1. Goto(w, "posting",
             [id |-> d, attempts |-> Counted(attempts[d]), success |-> FALSE])
    BY <1>1 DEF ClaimDelivery
  <2>2. ~job'[w].success
    BY <1>0, <2>1, GotoEffect
  <2> QED
    BY <1>0, <2>1, <2>2, GotoEffect DEF PostingUndecided
<1>2. ASSUME NEW w \in Workers, NEW place \in Places, NEW work, place # "posting",
             Goto(w, place, work)
      PROVE  PostingUndecided'
  BY <1>0, <1>2, GotoEffect DEF PostingUndecided
<1>3. ASSUME NEW w \in Workers,
             \/ BeginClaim(w) \/ NothingDue(w) \/ PostAccepted(w) \/ PostFailed(w)
             \/ PostRaises(w) \/ FinishDelivery(w) \/ FinishStale(w) \/ Abort(w)
      PROVE  PostingUndecided'
  <2>1. \E place \in Places \ {"posting"} : \E work : Goto(w, place, work)
    BY <1>3 DEF BeginClaim, NothingDue, PostAccepted, PostFailed, PostRaises,
       FinishDelivery, FinishStale, Abort, Places
  <2> QED
    BY <1>2, <2>1
<1>4. CASE UNCHANGED <<pc, job>>
  BY <1>4 DEF PostingUndecided
<1>5. ASSUME NEW d \in Deliveries, EnqueueNotification(d) \/ ReplayDelivery(d)
      PROVE  UNCHANGED <<pc, job>>
  BY <1>5 DEF EnqueueNotification, ReplayDelivery, workerVars
<1>6. Tick \/ UNCHANGED vars => UNCHANGED <<pc, job>>
  BY DEF Tick, vars
<1> QED
  BY <1>1, <1>3, <1>4, <1>5, <1>6 DEF Next

\* Each action keeps the two facts together.
LEMMA NextDelivered == DeliveredInv /\ [Next]_vars => DeliveredInv'
<1> SUFFICES ASSUME DeliveredInv, [Next]_vars
             PROVE  DeliveredWasReceived' /\ SuccessWasReceived'
  BY NextTypeInv, NextUndecided DEF DeliveredInv
<1> USE QueueAssumption DEF rowVars, workerVars, historyVars
<1>0. /\ TypeOK /\ JobOK /\ PostingUndecided
      /\ DeliveredWasReceived /\ SuccessWasReceived
  BY DEF DeliveredInv, TypeInv
<1>1. ASSUME NEW d \in Deliveries, EnqueueNotification(d)
      PROVE  DeliveredWasReceived' /\ SuccessWasReceived'
  <2>1. /\ status' = [status EXCEPT ![d] = "pending"]
        /\ UNCHANGED <<lease, pc, job, received>>
    BY <1>1 DEF EnqueueNotification
  <2>2. DeliveredWasReceived'
    BY <1>0, <2>1 DEF DeliveredWasReceived, TypeOK
  <2>3. \A v \in Workers : Holds(v, job[v].id)' /\ job[v].id \in Deliveries
                             => Holds(v, job[v].id)
    BY <1>0, <2>1 DEF Holds, TypeOK
  <2>4. SuccessWasReceived'
    BY <1>0, <2>1, <2>3 DEF SuccessWasReceived, JobOK, Jobs
  <2> QED
    BY <2>2, <2>4
<1>2. ASSUME NEW d \in Deliveries, ReplayDelivery(d)
      PROVE  DeliveredWasReceived' /\ SuccessWasReceived'
  <2>1. /\ status' = [status EXCEPT ![d] = "pending"]
        /\ received' = [received EXCEPT ![d] = FALSE]
        /\ lease' = [lease EXCEPT ![d] = NoLease]
        /\ UNCHANGED <<pc, job>>
    BY <1>2 DEF ReplayDelivery, workerVars
  <2>2. DeliveredWasReceived'
    BY <1>0, <2>1 DEF DeliveredWasReceived, TypeOK
  <2>3. \A v \in Workers : Holds(v, job[v].id)' /\ job[v].id \in Deliveries
                             => Holds(v, job[v].id) /\ job[v].id # d
    BY <1>0, <2>1 DEF Holds, TypeOK
  <2>4. SuccessWasReceived'
    BY <1>0, <2>1, <2>3 DEF SuccessWasReceived, JobOK, Jobs, TypeOK
  <2> QED
    BY <2>2, <2>4
<1>3. ASSUME NEW w \in Workers, NEW d \in Deliveries, ClaimDelivery(w, d)
      PROVE  DeliveredWasReceived' /\ SuccessWasReceived'
  <2>1. /\ Goto(w, "posting",
                [id |-> d, attempts |-> Counted(attempts[d]), success |-> FALSE])
        /\ status' = [status EXCEPT ![d] = "inflight"]
        /\ lease' = [lease EXCEPT ![d] = w]
        /\ received' = received
    BY <1>3 DEF ClaimDelivery
  <2>2. pc'[w] = "posting" /\ \A v \in Workers : v # w => pc'[v] = pc[v] /\ job'[v] = job[v]
    BY <1>0, <2>1, GotoEffect DEF TypeOK
  <2>3. DeliveredWasReceived'
    BY <1>0, <2>1 DEF DeliveredWasReceived, TypeOK
  <2>4. ASSUME NEW v \in Workers, pc'[v] = "finishing", job'[v].success,
               Holds(v, job[v].id)'
        PROVE  received'[job'[v].id]
    <3>1. v # w /\ pc[v] = "finishing" /\ job'[v] = job[v]
      BY <2>2, <2>4
    <3>2. job[v].id \in Deliveries
      BY <1>0, <3>1 DEF JobOK, Jobs
    <3>3. lease'[job[v].id] = v /\ status'[job[v].id] = "inflight"
      BY <2>4, <3>1 DEF Holds
    <3>4. job[v].id # d
      BY <1>0, <2>1, <3>1, <3>3 DEF TypeOK
    <3>5. Holds(v, job[v].id)
      BY <1>0, <2>1, <3>2, <3>3, <3>4 DEF Holds, TypeOK
    <3> QED
      BY <1>0, <2>1, <2>4, <3>1, <3>5 DEF SuccessWasReceived
  <2> QED
    BY <2>3, <2>4 DEF SuccessWasReceived
<1>4. ASSUME NEW w \in Workers,
             BeginClaim(w) \/ NothingDue(w) \/ FinishStale(w) \/ Abort(w)
      PROVE  DeliveredWasReceived' /\ SuccessWasReceived'
  <2>1. PICK place \in {"idle", "claiming"} : Goto(w, place, NoJob)
    BY <1>4 DEF BeginClaim, NothingDue, FinishStale, Abort
  <2>2. UNCHANGED <<status, lease, received>>
    BY <1>4 DEF BeginClaim, NothingDue, FinishStale, Abort
  <2>3. pc'[w] = place /\ \A v \in Workers : v # w => pc'[v] = pc[v] /\ job'[v] = job[v]
    BY <1>0, <2>1, GotoEffect DEF TypeOK
  <2>4. DeliveredWasReceived'
    BY <1>0, <2>2 DEF DeliveredWasReceived
  <2>5. SuccessWasReceived'
    BY <1>0, <2>2, <2>3 DEF SuccessWasReceived, Holds
  <2> QED
    BY <2>4, <2>5
<1>5. ASSUME NEW w \in Workers, PostAccepted(w)
      PROVE  DeliveredWasReceived' /\ SuccessWasReceived'
  <2>1. job[w] \in Jobs
    BY <1>0, <1>5 DEF PostAccepted, JobOK
  <2>2. \A v \in Workers : job'[v].id = job[v].id
    BY <1>0, <1>5, <2>1 DEF PostAccepted, Goto, TypeOK, Jobs
  <2>3. received' = [received EXCEPT ![job[w].id] = TRUE]
    BY <1>5 DEF PostAccepted
  <2>4. DeliveredWasReceived'
    BY <1>0, <1>5, <2>3 DEF PostAccepted, DeliveredWasReceived, TypeOK
  <2>5. job[w].id \in Deliveries
    BY <2>1 DEF Jobs
  <2>6. \A v \in Workers \ {w} : pc'[v] = pc[v] /\ job'[v] = job[v]
    BY <1>0, <1>5 DEF PostAccepted, Goto, TypeOK
  <2>7. \A v \in Workers, d \in Deliveries : Holds(v, d)' = Holds(v, d)
    BY <1>5 DEF PostAccepted, Holds
  <2>8. received'[job'[w].id]
    BY <1>0, <2>2, <2>3, <2>5 DEF TypeOK
  <2>9. ASSUME NEW v \in Workers, pc'[v] = "finishing", job'[v].success,
               Holds(v, job[v].id)'
        PROVE  received'[job'[v].id]
    <3>1. CASE v = w
      BY <2>8, <3>1
    <3>2. CASE v # w
      <4>1. pc[v] = "finishing" /\ job[v] \in Jobs /\ job[v].success
        BY <1>0, <2>6, <2>9, <3>2 DEF JobOK
      <4>2. Holds(v, job[v].id) /\ job[v].id \in Deliveries
        BY <2>2, <2>7, <2>9, <4>1 DEF Jobs, Holds
      <4>3. received[job[v].id]
        BY <1>0, <4>1, <4>2 DEF SuccessWasReceived
      <4> QED
        BY <1>0, <2>2, <2>3, <4>2, <4>3 DEF TypeOK
    <3> QED
      BY <3>1, <3>2
  <2> QED
    BY <2>4, <2>9 DEF SuccessWasReceived, Holds
<1>6. ASSUME NEW w \in Workers, PostFailed(w) \/ PostRaises(w)
      PROVE  DeliveredWasReceived' /\ SuccessWasReceived'
  <2>1. job[w] \in Jobs /\ pc[w] = "posting"
    BY <1>0, <1>6 DEF PostFailed, PostRaises, JobOK
  <2>2. \A d \in Deliveries : received[d] => received'[d]
    BY <1>0, <1>6 DEF PostFailed, PostRaises, TypeOK
  <2>3. UNCHANGED rowVars
    BY <1>6 DEF PostFailed, PostRaises
  <2>4. DeliveredWasReceived'
    BY <1>0, <2>2, <2>3 DEF DeliveredWasReceived
  <2>5. SuccessWasReceived'
    <3> SUFFICES ASSUME NEW v \in Workers, pc'[v] = "finishing", job'[v].success,
                        Holds(v, job[v].id)'
                 PROVE  received'[job'[v].id]
      BY DEF SuccessWasReceived, Holds
    <3>1. CASE v = w
      BY <1>0, <1>6, <2>1, <3>1 DEF PostFailed, PostRaises, Goto, PostingUndecided, TypeOK
    <3>2. CASE v # w
      <4>1. pc[v] = "finishing" /\ job'[v] = job[v] /\ job[v].id \in Deliveries
        BY <1>0, <1>6, <3>2 DEF PostFailed, PostRaises, Goto, JobOK, Jobs, TypeOK
      <4> QED
        BY <1>0, <2>2, <2>3, <4>1 DEF SuccessWasReceived, Holds
    <3> QED
      BY <3>1, <3>2
  <2> QED
    BY <2>4, <2>5
<1>7. ASSUME NEW w \in Workers, FinishDelivery(w)
      PROVE  DeliveredWasReceived' /\ SuccessWasReceived'
  <2> DEFINE d == job[w].id
  <2>1. d \in Deliveries /\ Holds(w, d)
    BY <1>0, <1>7 DEF FinishDelivery, JobOK, Jobs
  <2>2. /\ status' = [status EXCEPT ![d] = Outcome(job[w]).status]
        /\ lease' = [lease EXCEPT ![d] = NoLease]
        /\ Goto(w, "idle", NoJob)
        /\ UNCHANGED received
    BY <1>7 DEF FinishDelivery
  <2>3. Outcome(job[w]).status # "inflight"
    BY DEF Outcome
  <2>4. Outcome(job[w]).status = "delivered" => received[d]
    BY <1>0, <1>7, <2>1 DEF Outcome, SuccessWasReceived, FinishDelivery
  <2>5. DeliveredWasReceived'
    BY <1>0, <2>1, <2>2, <2>4 DEF DeliveredWasReceived, TypeOK
  <2>6. \A v \in Workers, e \in Deliveries : Holds(v, e)' => Holds(v, e)
    BY <1>0, <2>1, <2>2, <2>3 DEF Holds, TypeOK
  <2>7. ASSUME NEW v \in Workers, pc'[v] = "finishing"
        PROVE  pc[v] = "finishing" /\ job'[v] = job[v] /\ job[v].id \in Deliveries
    BY <1>0, <2>2, <2>7 DEF Goto, JobOK, Jobs, TypeOK
  <2>8. SuccessWasReceived'
    <3> SUFFICES ASSUME NEW v \in Workers, pc'[v] = "finishing", job'[v].success,
                        Holds(v, job[v].id)'
                 PROVE  received'[job'[v].id]
      BY DEF SuccessWasReceived, Holds
    <3>1. Holds(v, job[v].id)
      BY <2>6, <2>7 DEF Holds
    <3> QED
      BY <1>0, <2>2, <2>7, <3>1 DEF SuccessWasReceived
  <2> QED
    BY <2>5, <2>8
<1>8. CASE Tick
  BY <1>0, <1>8 DEF Tick, DeliveredWasReceived, SuccessWasReceived, Holds
<1>9. CASE UNCHANGED vars
  BY <1>0, <1>9 DEF vars, DeliveredWasReceived, SuccessWasReceived, Holds
<1> QED
  BY <1>1, <1>2, <1>3, <1>4, <1>5, <1>6, <1>7, <1>8, <1>9 DEF Next

\* A row is marked delivered only if its receiver got the event since the row
\* was queued or last replayed, for any number of workers, any lease and any
\* duration of a POST (finish_delivery, replay_delivery).
THEOREM DeliveredOnlyIfReceived == Spec => []DeliveredWasReceived
<1>1. Init => DeliveredInv
  BY InitTypeInv DEF Init, DeliveredInv, PostingUndecided, DeliveredWasReceived, SuccessWasReceived
<1>2. Spec => []DeliveredInv
  BY <1>1, NextDelivered, PTL DEF Spec
<1> QED
  BY <1>2, PTL DEF DeliveredInv

-----------------------------------------------------------------------------
(* At most one worker POSTs a row, when the lease covers an attempt.          *)

\* What is left of the lease of a row whose attempt reached a given place:
\* `now` was at most LockWait old when the lease began, the POST takes at most
\* MaxPost.
LeaseLeft(place) ==
  IF place = "posting" THEN LeaseSeconds - LockWait
  ELSE LeaseSeconds - LockWait - MaxPost

Busy(w) == pc[w] \in {"posting", "finishing"}

\* A busy worker holds its row, and its lease has not run out.
LeaseInv ==
  \A w \in Workers : Busy(w) =>
    /\ Holds(w, job[w].id)
    /\ lease_until[job[w].id] + age[w] >= LeaseLeft(pc[w])

\* While a worker is busy with a row, nobody else finds that row due.
LEMMA BusyNotDue ==
  ASSUME LeaseCoversAttempt, TypeInv, LeaseInv,
         NEW w \in Workers, Busy(w), NEW a \in Nat
  PROVE  ~Due(job[w].id, a)
<1>1. /\ job[w].id \in Deliveries
      /\ status[job[w].id] = "inflight"
      /\ lease_until[job[w].id] \in Int /\ age[w] \in Nat
      /\ age[w] <= Patience(w)
      /\ lease_until[job[w].id] + age[w] >= LeaseLeft(pc[w])
  BY QueueAssumption DEF TypeInv, TypeOK, JobOK, AgeOK, LeaseInv, Busy, Holds, Jobs
<1>2. lease_until[job[w].id] > 0
  BY <1>1, QueueAssumption DEF LeaseLeft, Patience, Busy, LeaseCoversAttempt
<1> QED
  BY <1>1, <1>2 DEF Due

\* Each action keeps every busy worker in possession of its row.
LEMMA NextLease ==
  ASSUME LeaseCoversAttempt
  PROVE  TypeInv /\ LeaseInv /\ [Next]_vars => LeaseInv'
<1> SUFFICES ASSUME TypeInv, LeaseInv, [Next]_vars,
                    NEW w \in Workers, Busy(w)'
             PROVE  /\ Holds(w, job[w].id)'
                    /\ (lease_until[job[w].id] + age[w] >= LeaseLeft(pc[w]))'
  BY DEF LeaseInv, Busy, Holds, LeaseLeft
<1> USE QueueAssumption DEF rowVars, workerVars, historyVars
<1> DEFINE Goal == /\ Holds(w, job[w].id)'
                   /\ (lease_until[job[w].id] + age[w] >= LeaseLeft(pc[w]))'
<1>0. TypeOK /\ JobOK /\ AgeOK /\ TypeInv'
  BY NextTypeInv DEF TypeInv
<1>a. Busy(w) => /\ job[w].id \in Deliveries
                 /\ status[job[w].id] = "inflight" /\ lease[job[w].id] = w
                 /\ lease_until[job[w].id] + age[w] >= LeaseLeft(pc[w])
  BY <1>0 DEF LeaseInv, Busy, JobOK, Jobs, Holds
<1>1. ASSUME NEW d \in Deliveries, EnqueueNotification(d) PROVE Goal
  BY <1>0, <1>a, <1>1 DEF EnqueueNotification, Busy, Holds, TypeOK
<1>2. ASSUME NEW d \in Deliveries, ReplayDelivery(d) PROVE Goal
  BY <1>0, <1>a, <1>2 DEF ReplayDelivery, Busy, Holds, TypeOK
<1>3. ASSUME NEW v \in Workers, NEW d \in Deliveries, ClaimDelivery(v, d) PROVE Goal
  <2>1. age[v] \in Nat /\ age[v] <= LockWait /\ Due(d, age[v])
    BY <1>0, <1>3 DEF ClaimDelivery, TypeOK, AgeOK, Patience
  <2>2. CASE v = w
    BY <1>0, <1>3, <2>1, <2>2 DEF ClaimDelivery, Goto, Holds, LeaseLeft, TypeOK
  <2>3. CASE v # w
    <3>1. Busy(w) /\ job'[w] = job[w] /\ pc'[w] = pc[w] /\ age'[w] = age[w]
      BY <1>0, <1>3, <2>3 DEF ClaimDelivery, Goto, Busy, TypeOK
    <3>2. job[w].id # d
      BY <2>1, <3>1, BusyNotDue
    <3> QED
      BY <1>0, <1>3, <1>a, <3>1, <3>2 DEF ClaimDelivery, Holds, LeaseLeft, TypeOK
  <2> QED
    BY <2>2, <2>3
<1>4. ASSUME NEW v \in Workers,
             BeginClaim(v) \/ NothingDue(v) \/ FinishStale(v) \/ Abort(v)
                \/ PostRaises(v)
      PROVE Goal
  <2>1. PICK place \in {"idle", "claiming"} : Goto(v, place, NoJob)
    BY <1>4 DEF BeginClaim, NothingDue, FinishStale, Abort, PostRaises
  <2>2. UNCHANGED rowVars
    BY <1>4 DEF BeginClaim, NothingDue, FinishStale, Abort, PostRaises
  <2>3. v # w /\ Busy(w) /\ job'[w] = job[w] /\ pc'[w] = pc[w] /\ age'[w] = age[w]
    BY <1>0, <2>1 DEF Goto, Busy, TypeOK
  <2> QED
    BY <1>a, <2>2, <2>3 DEF Holds, LeaseLeft
<1>5. ASSUME NEW v \in Workers, PostAccepted(v) \/ PostFailed(v) PROVE Goal
  <2>1. UNCHANGED rowVars
    BY <1>5 DEF PostAccepted, PostFailed
  <2>2. CASE v = w
    <3>1. /\ pc[w] = "posting" /\ pc'[w] = "finishing" /\ age'[w] = 0
          /\ job[w] \in Jobs /\ job'[w].id = job[w].id
      BY <1>0, <1>5, <2>2 DEF PostAccepted, PostFailed, Goto, JobOK, Jobs, TypeOK
    <3>2. age[w] \in Nat /\ age[w] <= MaxPost /\ lease_until[job[w].id] \in Int
      BY <1>0, <3>1 DEF AgeOK, Patience, TypeOK, Jobs
    <3> QED
      BY <1>a, <2>1, <3>1, <3>2 DEF Busy, Holds, LeaseLeft
  <2>3. CASE v # w
    <3>1. Busy(w) /\ job'[w] = job[w] /\ pc'[w] = pc[w] /\ age'[w] = age[w]
      BY <1>0, <1>5, <2>3 DEF PostAccepted, PostFailed, Goto, Busy, TypeOK
    <3> QED
      BY <1>a, <2>1, <3>1 DEF Holds, LeaseLeft
  <2> QED
    BY <2>2, <2>3
<1>6. ASSUME NEW v \in Workers, FinishDelivery(v) PROVE Goal
  <2>1. v # w /\ Busy(w) /\ job'[w] = job[w] /\ pc'[w] = pc[w] /\ age'[w] = age[w]
    BY <1>0, <1>6 DEF FinishDelivery, Goto, Busy, TypeOK
  <2>2. job[w].id # job[v].id
    BY <1>6, <1>a, <2>1 DEF FinishDelivery, Holds
  <2> QED
    BY <1>0, <1>6, <1>a, <2>1, <2>2 DEF FinishDelivery, Holds, LeaseLeft, TypeOK
<1>7. CASE Tick
  <2>1. Busy(w) /\ job'[w] = job[w] /\ pc'[w] = pc[w] /\ age'[w] = age[w] + 1
    BY <1>0, <1>7 DEF Tick, Busy, TypeOK
  <2>2. /\ lease_until[job[w].id] \in Int
        /\ lease_until'[job[w].id] >= lease_until[job[w].id] - 1
        /\ lease_until'[job[w].id] \in Int
    <3>1. job[w].id \in Deliveries /\ lease_until[job[w].id] \in Int
      BY <1>0, <1>a, <2>1 DEF TypeOK
    <3>2. lease_until'[job[w].id] = Since(lease_until[job[w].id] - 1)
      BY <1>7, <3>1 DEF Tick
    <3> QED
      BY <3>1, <3>2 DEF Since
  <2>3. age[w] \in Nat /\ LeaseLeft(pc[w]) \in Int
    BY <1>0 DEF LeaseLeft, TypeOK
  <2>4. lease_until'[job[w].id] + age'[w] >= LeaseLeft(pc[w])
    BY <1>a, <2>1, <2>2, <2>3
  <2> QED
    BY <1>7, <1>a, <2>1, <2>4 DEF Tick, Holds, LeaseLeft
<1>8. CASE UNCHANGED vars
  BY <1>8, <1>a DEF vars, Busy, Holds, LeaseLeft
<1> QED
  BY <1>1, <1>2, <1>3, <1>4, <1>5, <1>6, <1>7, <1>8 DEF Next

\* No two workers POST the same row at the same time, if the lease is longer
\* than the POST and the two waits for the database (with the values of the
\* code: 60 > 10 + 10 + 10 seconds).
THEOREM OneSenderPerRow ==
  ASSUME LeaseCoversAttempt
  PROVE  Spec => []ExclusivePosting
<1>1. Init => LeaseInv
  BY DEF Init, LeaseInv, Busy
<1>2. TypeInv /\ LeaseInv => ExclusivePosting
  BY DEF LeaseInv, Busy, Holds, ExclusivePosting
<1>3. TypeInv /\ LeaseInv /\ [Next]_vars => TypeInv' /\ LeaseInv'
  BY NextTypeInv, NextLease
<1>4. Init => TypeInv
  BY InitTypeInv
<1> QED
  BY <1>1, <1>2, <1>3, <1>4, PTL DEF Spec

-----------------------------------------------------------------------------
(* The queue implements WebhookPromise.                                       *)

\* The attempt number a worker carries is the row's, as long as it holds the row,
\* and the row of a busy worker exists.
CountInv ==
  \A w \in Workers : Busy(w) =>
    /\ status[job[w].id] # "absent"
    /\ Holds(w, job[w].id) => job[w].attempts = attempts[job[w].id]

LEMMA NextCount == TypeInv /\ CountInv /\ [Next]_vars => CountInv'
<1> SUFFICES ASSUME TypeInv, CountInv, [Next]_vars, NEW w \in Workers, Busy(w)'
             PROVE  /\ status'[job'[w].id] # "absent"
                    /\ Holds(w, job[w].id)' => job'[w].attempts = attempts'[job'[w].id]
  BY DEF CountInv, Busy, Holds
<1> USE DEF rowVars, workerVars, historyVars
<1> DEFINE Goal ==
      /\ status'[job'[w].id] # "absent"
      /\ Holds(w, job[w].id)' => job'[w].attempts = attempts'[job'[w].id]
<1>0. TypeOK /\ JobOK
  BY DEF TypeInv
<1>a. Busy(w) => /\ job[w] \in Jobs /\ job[w].id \in Deliveries
                 /\ status[job[w].id] # "absent"
                 /\ Holds(w, job[w].id) => job[w].attempts = attempts[job[w].id]
  BY <1>0 DEF CountInv, Busy, JobOK, Jobs
<1>1. ASSUME NEW d \in Deliveries, EnqueueNotification(d) PROVE Goal
  BY <1>0, <1>a, <1>1 DEF EnqueueNotification, Busy, Holds, TypeOK
<1>2. ASSUME NEW d \in Deliveries, ReplayDelivery(d) PROVE Goal
  BY <1>0, <1>a, <1>2 DEF ReplayDelivery, Busy, Holds, TypeOK
<1>3. ASSUME NEW v \in Workers, NEW d \in Deliveries, ClaimDelivery(v, d) PROVE Goal
  <2>1. CASE v = w
    BY <1>0, <1>3, <2>1 DEF ClaimDelivery, Goto, TypeOK
  <2>2. CASE v # w
    <3>1. Busy(w) /\ job'[w] = job[w]
      BY <1>0, <1>3, <2>2 DEF ClaimDelivery, Goto, Busy, TypeOK
    <3> QED
      BY <1>0, <1>3, <1>a, <2>2, <3>1 DEF ClaimDelivery, Holds, TypeOK
  <2> QED
    BY <2>1, <2>2
<1>4. ASSUME NEW v \in Workers,
             BeginClaim(v) \/ NothingDue(v) \/ FinishStale(v) \/ Abort(v)
                \/ PostRaises(v) \/ PostAccepted(v) \/ PostFailed(v)
      PROVE Goal
  <2>1. UNCHANGED rowVars
    BY <1>4 DEF BeginClaim, NothingDue, FinishStale, Abort, PostRaises,
                PostAccepted, PostFailed
  <2>2. /\ Busy(w)
        /\ job'[w].id = job[w].id /\ job'[w].attempts = job[w].attempts
    BY <1>0, <1>4 DEF BeginClaim, NothingDue, FinishStale, Abort, PostRaises,
                PostAccepted, PostFailed, Goto, Busy, JobOK, Jobs, TypeOK
  <2> QED
    BY <1>a, <2>1, <2>2 DEF Holds
<1>5. ASSUME NEW v \in Workers, FinishDelivery(v) PROVE Goal
  <2>1. v # w /\ Busy(w) /\ job'[w] = job[w]
    BY <1>0, <1>5 DEF FinishDelivery, Goto, Busy, TypeOK
  <2>2. job[v].id \in Deliveries
    BY <1>0, <1>5 DEF FinishDelivery, JobOK, Jobs
  <2>3. Outcome(job[v]).status \notin {"absent", "inflight"}
    BY DEF Outcome
  <2>4. status' = [status EXCEPT ![job[v].id] = Outcome(job[v]).status]
    BY <1>5 DEF FinishDelivery
  <2>5. status'[job[w].id] # "absent"
    BY <1>0, <1>a, <2>1, <2>3, <2>4 DEF TypeOK
  <2>6. Holds(w, job[w].id)' => Holds(w, job[w].id)
    BY <1>0, <1>5, <1>a, <2>1, <2>2, <2>3, <2>4 DEF FinishDelivery, Holds, TypeOK
  <2> QED
    BY <1>5, <1>a, <2>1, <2>5, <2>6 DEF FinishDelivery
<1>6. CASE Tick
  BY <1>0, <1>6, <1>a DEF Tick, Busy, Holds
<1>7. CASE UNCHANGED vars
  BY <1>7, <1>a DEF vars, Busy, Holds
<1> QED
  BY <1>1, <1>2, <1>3, <1>4, <1>5, <1>6, <1>7 DEF Next

\* A step that changes one column only by EXCEPT changes its image so.
LEMMA PromiseExcept ==
  ASSUME TypeOK, NEW d \in Deliveries, NEW st,
         status' = [status EXCEPT ![d] = st]
  PROVE  [e \in Deliveries |-> PromiseOf(status'[e])]
           = [[e \in Deliveries |-> PromiseOf(status[e])] EXCEPT ![d] = PromiseOf(st)]
BY DEF TypeOK

\* Each step of the queue is a step of the promise, or changes nothing of it.
LEMMA StepSimulation ==
  DeliveredInv /\ CountInv /\ [Next]_vars => [Promise!Next]_(Promise!vars)
<1> SUFFICES ASSUME DeliveredInv, CountInv, [Next]_vars
             PROVE  [Promise!Next]_(Promise!vars)
  OBVIOUS
<1> USE DEF rowVars, workerVars, historyVars
<1>0. TypeOK /\ JobOK /\ SuccessWasReceived
  BY DEF DeliveredInv, TypeInv
<1>s. ASSUME UNCHANGED <<status, received, attempts>>
      PROVE  UNCHANGED Promise!vars
  BY <1>s DEF Promise!vars
<1>1. ASSUME NEW d \in Deliveries, EnqueueNotification(d) PROVE Promise!Next
  <2>1. Promise!Queue(d)
    BY <1>0, <1>1, PromiseExcept DEF EnqueueNotification, Promise!Queue, PromiseOf
  <2> QED
    BY <2>1 DEF Promise!Next
<1>2. ASSUME NEW d \in Deliveries, ReplayDelivery(d) PROVE Promise!Next
  <2>1. PromiseOf(status[d]) # "none"
    BY <1>0, <1>2 DEF ReplayDelivery, PromiseOf, TypeOK, Statuses
  <2>2. Promise!Replay(d)
    BY <1>0, <1>2, <2>1, PromiseExcept DEF ReplayDelivery, Promise!Replay, PromiseOf
  <2> QED
    BY <2>2 DEF Promise!Next
<1>3. ASSUME NEW w \in Workers, NEW d \in Deliveries, ClaimDelivery(w, d)
      PROVE  [Promise!Next]_(Promise!vars)
  <2>1. PromiseOf(status[d]) = "owed" /\ PromiseOf("inflight") = "owed"
    BY <1>3 DEF ClaimDelivery, Due, PromiseOf
  <2>2. UNCHANGED [e \in Deliveries |-> PromiseOf(status[e])]
    BY <1>0, <1>3, <2>1 DEF ClaimDelivery, TypeOK
  <2>3. CASE attempts[d] < Exhausted
    <3>1. Promise!Begin(d)
      BY <1>0, <1>3, <2>1, <2>2, <2>3 DEF ClaimDelivery, Counted, Promise!Begin, TypeOK
    <3> QED
      BY <3>1 DEF Promise!Next
  <2>4. CASE ~(attempts[d] < Exhausted)
    <3>1. UNCHANGED attempts
      BY <1>0, <1>3, <2>4 DEF ClaimDelivery, Counted, TypeOK
    <3> QED
      BY <1>3, <2>2, <3>1 DEF ClaimDelivery, Promise!vars
  <2> QED
    BY <2>3, <2>4
<1>4. ASSUME NEW w \in Workers,
             BeginClaim(w) \/ NothingDue(w) \/ FinishStale(w) \/ Abort(w)
      PROVE  [Promise!Next]_(Promise!vars)
  BY <1>4, <1>s DEF BeginClaim, NothingDue, FinishStale, Abort
<1>5. ASSUME NEW w \in Workers, PostAccepted(w) \/ PostFailed(w) \/ PostRaises(w)
      PROVE  [Promise!Next]_(Promise!vars)
  <2>1. job[w].id \in Deliveries /\ status[job[w].id] # "absent"
    BY <1>0, <1>5 DEF PostAccepted, PostFailed, PostRaises, JobOK, Jobs, CountInv, Busy
  <2>2. UNCHANGED <<status, attempts>>
    BY <1>5 DEF PostAccepted, PostFailed, PostRaises
  <2>3. \/ received' = [received EXCEPT ![job[w].id] = TRUE]
        \/ UNCHANGED received
    BY <1>0, <1>5, <2>1 DEF PostAccepted, PostFailed, PostRaises, TypeOK
  <2>4. CASE received' = [received EXCEPT ![job[w].id] = TRUE]
    <3>1. PromiseOf(status[job[w].id]) # "none"
      BY <1>0, <2>1 DEF PromiseOf, TypeOK, Statuses
    <3>2. Promise!Reach(job[w].id)
      BY <2>1, <2>2, <2>4, <3>1 DEF Promise!Reach
    <3> QED
      BY <2>1, <3>2 DEF Promise!Next
  <2>5. CASE UNCHANGED received
    BY <1>s, <2>2, <2>5
  <2> QED
    BY <2>3, <2>4, <2>5
<1>6. ASSUME NEW w \in Workers, FinishDelivery(w)
      PROVE  [Promise!Next]_(Promise!vars)
  <2> DEFINE d == job[w].id
  <2>1. d \in Deliveries /\ status[d] = "inflight" /\ job[w] \in Jobs
    BY <1>0, <1>6 DEF FinishDelivery, JobOK, Jobs, Holds
  <2>2. /\ status' = [status EXCEPT ![d] = Outcome(job[w]).status]
        /\ UNCHANGED <<received, attempts>>
    BY <1>6 DEF FinishDelivery
  <2>3. PromiseOf(status[d]) = "owed"
    BY <2>1 DEF PromiseOf
  <2>4. job[w].attempts = attempts[d]
    BY <1>6 DEF FinishDelivery, CountInv, Busy
  <2>5. CASE job[w].success
    <3>1. received[d]
      BY <1>0, <1>6, <2>5 DEF FinishDelivery, SuccessWasReceived
    <3>2. Outcome(job[w]).status = "delivered"
      BY <2>5 DEF Outcome
    <3>3. Promise!Confirm(d)
      BY <1>0, <2>1, <2>2, <2>3, <3>1, <3>2, PromiseExcept
      DEF Promise!Confirm, PromiseOf
    <3> QED
      BY <2>1, <3>3 DEF Promise!Next
  <2>6. CASE ~job[w].success /\ job[w].attempts > Len(RetryDelays)
    <3>1. attempts[d] = Exhausted
      BY <1>0, <2>1, <2>4, <2>6, ScheduleFacts DEF Exhausted, TypeOK
    <3>2. Outcome(job[w]).status = "dead"
      BY <2>6 DEF Outcome
    <3>3. Promise!Abandon(d)
      BY <1>0, <2>1, <2>2, <2>3, <3>1, <3>2, PromiseExcept
      DEF Promise!Abandon, PromiseOf
    <3> QED
      BY <2>1, <3>3 DEF Promise!Next
  <2>7. CASE ~job[w].success /\ ~(job[w].attempts > Len(RetryDelays))
    <3>1. Outcome(job[w]).status = "pending"
      BY <2>7 DEF Outcome
    <3>2. \A e \in Deliveries : PromiseOf(status'[e]) = PromiseOf(status[e])
      BY <1>0, <2>1, <2>2, <2>3, <3>1 DEF PromiseOf, TypeOK
    <3> QED
      BY <2>2, <3>2 DEF Promise!vars
  <2> QED
    BY <2>5, <2>6, <2>7
<1>7. CASE Tick
  BY <1>7, <1>s DEF Tick
<1>8. CASE UNCHANGED vars
  BY <1>8, <1>s DEF vars
<1> QED
  BY <1>1, <1>2, <1>3, <1>4, <1>5, <1>6, <1>7, <1>8 DEF Next

\* The table, the leases and the workers together keep the promise: owed until
\* confirmed or abandoned, confirmed only after the receiver got the event,
\* abandoned only after every attempt of the schedule began.
THEOREM QueueKeepsPromise == Spec => KeepsPromise
<1>1. Init => Promise!Init
  BY DEF Init, Promise!Init, PromiseOf
<1>2. Init => DeliveredInv /\ CountInv
  BY InitTypeInv DEF Init, DeliveredInv, PostingUndecided, DeliveredWasReceived,
                     SuccessWasReceived, CountInv, Busy
<1>3. DeliveredInv /\ CountInv /\ [Next]_vars => DeliveredInv' /\ CountInv'
  BY NextDelivered, NextCount DEF DeliveredInv
<1> QED
  BY <1>1, <1>2, <1>3, StepSimulation, PTL DEF Spec, Promise!Spec, KeepsPromise
-----------------------------------------------------------------------------
(* Who settles a row.                                                         *)

\* A row leaves "inflight" only by the outcome of the worker that holds it: whoever
\* outlived its lease settles nothing.
THEOREM HolderSettles == Spec => OnlyHolderSettles
<1> DEFINE Leaves(d) == status[d] = "inflight" /\ status'[d] # "inflight"
           Settles(w, d) == /\ lease[d] = w /\ job[w].id = d
                            /\ pc[w] = "finishing" /\ pc'[w] = "idle"
                            /\ status'[d] = "delivered" <=> job[w].success
<1>1. ASSUME TypeInv, Next, NEW d \in Deliveries, Leaves(d)
      PROVE  \E w \in Workers : Settles(w, d)
  <2>0. status \in [Deliveries -> Statuses] /\ pc \in [Workers -> Places]
    BY <1>1 DEF TypeInv, TypeOK
  <2>1. PICK w \in Workers : FinishDelivery(w)
    <3>1. ASSUME UNCHANGED status PROVE FALSE
      BY <1>1, <3>1
    <3>2. ASSUME NEW e \in Deliveries, EnqueueNotification(e) \/ ReplayDelivery(e) PROVE FALSE
      BY <1>1, <2>0, <3>2 DEF EnqueueNotification, ReplayDelivery
    <3>3. ASSUME NEW w \in Workers, NEW e \in Deliveries, ClaimDelivery(w, e) PROVE FALSE
      BY <1>1, <2>0, <3>3 DEF ClaimDelivery
    <3> QED
      BY <1>1, <3>1, <3>2, <3>3
         DEF Next, rowVars, BeginClaim, NothingDue, PostAccepted, PostFailed, PostRaises,
             FinishStale, Abort, Tick
  <2>2. job[w] \in Jobs /\ job[w].id \in Deliveries /\ job[w].success \in BOOLEAN
    BY <1>1, <2>1 DEF TypeInv, JobOK, FinishDelivery, Jobs
  <2>3. /\ pc[w] = "finishing" /\ pc'[w] = "idle" /\ Holds(w, job[w].id)
        /\ status' = [status EXCEPT ![job[w].id] = Outcome(job[w]).status]
    BY <2>0, <2>1 DEF FinishDelivery, Goto
  <2>4. d = job[w].id /\ status'[d] = Outcome(job[w]).status
    BY <1>1, <2>0, <2>2, <2>3
  <2>5. Outcome(job[w]).status = "delivered" <=> job[w].success
    BY <2>2 DEF Outcome
  <2> QED
    BY <2>3, <2>4, <2>5 DEF Holds
<1>2. TypeInv /\ [Next]_vars =>
        [\A d \in Deliveries : Leaves(d) => \E w \in Workers : Settles(w, d)]_vars
  BY <1>1
<1>3. Spec => []TypeInv
  BY InitTypeInv, NextTypeInv, PTL DEF Spec
<1> QED
  BY <1>2, <1>3, PTL DEF Spec, OnlyHolderSettles
-----------------------------------------------------------------------------
(* The retries wait.                                                          *)

\* The schedule of retries never asks for less patience than before (30 seconds
\* to 12 hours in the code): an attempt whose outcome was lost moves the row to a
\* later delay, which must not be a shorter one.
DelaysGrow ==
  \A i, j \in 1..Len(RetryDelays) : i <= j => RetryDelays[i] <= RetryDelays[j]

\* s seconds from now, the delay after the recorded failures of row d is over.
RestedIn(d, s) ==
  failures[d] > 0 => quiet[d] + s >= RetryDelays[failures[d]] \/ quiet[d] >= MaxDelay

\* A row that waits will have rested when it is due, a claimed one has rested;
\* every recorded failure was an attempt, and the attempt under way is one more.
WaitOf(d) ==
  /\ status[d] = "absent" => failures[d] = 0 /\ attempts[d] = 0
  /\ status[d] = "pending" =>
       /\ failures[d] <= attempts[d] /\ attempts[d] < Exhausted
       /\ RestedIn(d, next_attempt[d])
  /\ status[d] = "inflight" => failures[d] < attempts[d] /\ RestedIn(d, 0)

WaitInv == \A d \in Deliveries : WaitOf(d)

\* A delay of the schedule is a number of seconds, and the history counts past it.
LEMMA DelayFacts ==
  ASSUME NEW k \in 1..Len(RetryDelays)
  PROVE  RetryDelays[k] \in Nat /\ RetryDelays[k] <= MaxDelay
  BY QueueAssumption, ScheduleFacts

\* A row whose columns and history stay waits as it did.
LEMMA WaitKept ==
  ASSUME NEW d \in Deliveries, WaitOf(d),
         status'[d] = status[d], attempts'[d] = attempts[d],
         next_attempt'[d] = next_attempt[d], failures'[d] = failures[d],
         quiet'[d] = quiet[d]
  PROVE  WaitOf(d)'
  BY DEF WaitOf, RestedIn

\* Whoever may claim a row claims one that has rested, with an attempt left to
\* record.
LEMMA ClaimsRested ==
  ASSUME TypeInv, NEW d \in Deliveries, WaitOf(d), NEW w \in Workers,
         ClaimDelivery(w, d)
  PROVE  RestedIn(d, 0) /\ failures[d] < Exhausted
<1>1. /\ attempts[d] \in 0..Exhausted /\ next_attempt[d] \in Int
      /\ failures[d] \in 0..Exhausted /\ quiet[d] \in Nat /\ age[w] \in Nat
      /\ Exhausted \in Nat /\ Exhausted = Len(RetryDelays) + 1
  BY ScheduleFacts DEF TypeInv, TypeOK, Exhausted
<1>2. CASE status[d] = "pending" /\ next_attempt[d] <= -age[w]
  <2>1. failures[d] < Exhausted /\ RestedIn(d, next_attempt[d])
    BY <1>1, <1>2 DEF WaitOf
  <2>2. failures[d] > 0 => RetryDelays[failures[d]] \in Nat
    BY <1>1, <2>1, DelayFacts
  <2> QED
    BY <1>1, <1>2, <2>1, <2>2 DEF RestedIn
<1>3. CASE status[d] = "inflight"
  BY <1>1, <1>3 DEF WaitOf
<1> QED
  BY <1>2, <1>3 DEF ClaimDelivery, Due

\* Row by row, each action keeps what the claims rely on.
LEMMA NextWait ==
  ASSUME DelaysGrow, TypeInv, CountInv, WaitInv, [Next]_vars
  PROVE  WaitInv'
<1> SUFFICES ASSUME NEW d \in Deliveries PROVE WaitOf(d)'
  BY DEF WaitInv
<1>0. TypeOK /\ JobOK /\ AgeOK /\ WaitOf(d)
  BY DEF TypeInv, WaitInv
<1>a. /\ status \in [Deliveries -> Statuses] /\ attempts \in [Deliveries -> 0..Exhausted]
      /\ next_attempt \in [Deliveries -> Int] /\ failures \in [Deliveries -> 0..Exhausted]
      /\ quiet \in [Deliveries -> Nat] /\ age \in [Workers -> Nat]
  BY <1>0 DEF TypeOK
<1>b. /\ Exhausted = Len(RetryDelays) + 1 /\ Exhausted \in Nat \ {0}
      /\ Len(RetryDelays) \in Nat
      /\ LockWait \in Nat /\ MaxDelay \in Nat
  BY ScheduleFacts, QueueAssumption DEF Exhausted
<1> USE DEF rowVars, workerVars, historyVars
<1>1. ASSUME NEW e \in Deliveries, EnqueueNotification(e) PROVE WaitOf(d)'
  <2>1. CASE e = d
    <3>1. /\ status'[d] = "pending" /\ failures'[d] = 0 /\ attempts'[d] = 0
      BY <1>0, <1>1, <1>a, <2>1 DEF EnqueueNotification, WaitOf
    <3> QED
      BY <1>b, <3>1 DEF WaitOf, RestedIn
  <2>2. CASE e # d
    BY <1>0, <1>1, <1>a, <2>2, WaitKept DEF EnqueueNotification
  <2> QED
    BY <2>1, <2>2
<1>2. ASSUME NEW e \in Deliveries, ReplayDelivery(e) PROVE WaitOf(d)'
  <2>1. CASE e = d
    <3>1. /\ status'[d] = "pending" /\ failures'[d] = 0 /\ attempts'[d] = 0
      BY <1>1, <1>2, <1>a, <2>1 DEF ReplayDelivery
    <3> QED
      BY <1>b, <3>1 DEF WaitOf, RestedIn
  <2>2. CASE e # d
    BY <1>0, <1>2, <1>a, <2>2, WaitKept DEF ReplayDelivery
  <2> QED
    BY <2>1, <2>2
<1>3. ASSUME NEW w \in Workers, NEW e \in Deliveries, ClaimDelivery(w, e)
      PROVE  WaitOf(d)'
  <2>1. CASE e = d
    <3>1. /\ status'[d] = "inflight" /\ attempts'[d] = Counted(attempts[d])
          /\ failures'[d] = failures[d] /\ quiet'[d] = quiet[d]
      BY <1>3, <1>a, <2>1 DEF ClaimDelivery
    <3>2. failures[d] < Counted(attempts[d])
      <4>1. CASE status[d] = "pending"
        BY <1>0, <1>a, <1>b, <4>1 DEF WaitOf, Counted
      <4>2. CASE status[d] = "inflight"
        BY <1>0, <1>a, <1>b, <4>2 DEF WaitOf, Counted
      <4> QED
        BY <1>3, <2>1, <4>1, <4>2 DEF ClaimDelivery, Due
    <3>3. RestedIn(d, 0)
      BY <1>3, <1>0, <1>a, <2>1, ClaimsRested
    <3>4. RestedIn(d, 0)'
      BY <3>1, <3>3 DEF RestedIn
    <3> QED
      BY <3>1, <3>2, <3>4 DEF WaitOf
  <2>2. CASE e # d
    BY <1>0, <1>3, <1>a, <2>2, WaitKept DEF ClaimDelivery
  <2> QED
    BY <2>1, <2>2
<1>4. ASSUME NEW w \in Workers,
             BeginClaim(w) \/ NothingDue(w) \/ FinishStale(w) \/ Abort(w)
                \/ PostRaises(w) \/ PostAccepted(w) \/ PostFailed(w)
      PROVE  WaitOf(d)'
  <2>1. UNCHANGED <<rowVars, failures, quiet>>
    BY <1>4 DEF BeginClaim, NothingDue, FinishStale, Abort, PostRaises,
                PostAccepted, PostFailed
  <2> QED
    BY <1>0, <2>1, WaitKept
<1>5. ASSUME NEW w \in Workers, FinishDelivery(w) PROVE WaitOf(d)'
  <2> DEFINE j == job[w]
  <2>1. j \in Jobs /\ j.id \in Deliveries /\ j.attempts \in 1..Exhausted
    BY <1>0, <1>5 DEF FinishDelivery, JobOK, Jobs
  <2>2. /\ status' = [status EXCEPT ![j.id] = Outcome(j).status]
        /\ next_attempt' = [next_attempt EXCEPT ![j.id] = Outcome(j).delay - age[w]]
        /\ failures' = [failures EXCEPT ![j.id] = IF j.success THEN @ ELSE Counted(@)]
        /\ quiet' = [quiet EXCEPT ![j.id] = IF j.success THEN @ ELSE age[w]]
        /\ attempts' = attempts
    BY <1>5 DEF FinishDelivery
  <2>3. CASE j.id # d
    BY <1>0, <1>a, <2>1, <2>2, <2>3, WaitKept
  <2>4. CASE j.id = d /\ (j.success \/ j.attempts > Len(RetryDelays))
    <3>1. status'[d] \in {"delivered", "dead"}
      BY <1>a, <2>2, <2>4 DEF Outcome
    <3> QED
      BY <3>1 DEF WaitOf
  <2>5. CASE j.id = d /\ ~j.success /\ ~(j.attempts > Len(RetryDelays))
    <3>1. j.attempts = attempts[d] /\ failures[d] < attempts[d]
      <4>1. Holds(w, d) /\ Busy(w)
        BY <1>5, <2>5 DEF FinishDelivery, Busy
      <4> QED
        BY <1>0, <2>5, <4>1 DEF CountInv, WaitOf, Holds
    <3>2. Outcome(j) = [status |-> "pending", delay |-> RetryDelays[j.attempts]]
      BY <2>5 DEF Outcome
    <3>3. /\ status'[d] = "pending" /\ attempts'[d] = attempts[d]
          /\ next_attempt'[d] = RetryDelays[attempts[d]] - age[w]
          /\ quiet'[d] = age[w] /\ failures'[d] = failures[d] + 1
      BY <1>a, <1>b, <2>2, <2>5, <3>1, <3>2 DEF Counted
    <3>4. /\ failures[d] + 1 \in 1..Len(RetryDelays)
          /\ attempts[d] \in 1..Len(RetryDelays)
          /\ failures[d] + 1 <= attempts[d]
      BY <1>a, <1>b, <2>1, <2>5, <3>1
    <3>5. RetryDelays[failures[d] + 1] <= RetryDelays[attempts[d]]
      BY <3>4 DEF DelaysGrow
    <3>6. RestedIn(d, next_attempt[d])'
      <4>1. quiet'[d] + next_attempt'[d] = RetryDelays[attempts[d]]
        BY <1>a, <3>3, <3>4, DelayFacts
      <4> QED
        BY <3>3, <3>5, <4>1 DEF RestedIn
    <3> QED
      BY <1>a, <1>b, <3>3, <3>4, <3>6 DEF WaitOf
  <2> QED
    BY <2>3, <2>4, <2>5
<1>6. CASE Tick
  <2>1. /\ next_attempt'[d] = Since(next_attempt[d] - 1)
        /\ quiet'[d] = IF quiet[d] < MaxDelay THEN quiet[d] + 1 ELSE quiet[d]
        /\ status' = status /\ attempts' = attempts /\ failures' = failures
    BY <1>6 DEF Tick
  <2>2. next_attempt'[d] >= next_attempt[d] - 1 /\ next_attempt'[d] \in Int
    BY <1>a, <1>b, <2>1 DEF Since
  <2>3. failures[d] > 0 /\ failures[d] < Exhausted =>
          RetryDelays[failures[d]] \in Nat /\ RetryDelays[failures[d]] <= MaxDelay
    BY <1>a, <1>b, DelayFacts
  <2>4. status[d] = "pending" => RestedIn(d, next_attempt[d])'
    BY <1>0, <1>a, <1>b, <2>1, <2>2, <2>3 DEF WaitOf, RestedIn
  <2>5. status[d] = "inflight" => RestedIn(d, 0)'
    BY <1>0, <1>a, <1>b, <2>1, <2>3 DEF WaitOf, RestedIn
  <2> QED
    BY <1>0, <2>1, <2>4, <2>5 DEF WaitOf
<1>7. CASE UNCHANGED vars
  BY <1>0, <1>7, WaitKept DEF vars
<1> QED
  BY <1>1, <1>2, <1>3, <1>4, <1>5, <1>6, <1>7 DEF Next

\* After failures a row is retried only when the delay of the last of them has
\* passed, in whatever order claims were lost, taken over and finished, if the
\* schedule never asks for less patience than before.
THEOREM RetriesBackOff ==
  ASSUME DelaysGrow
  PROVE  Spec => Backoff
<1> DEFINE Waited(w) ==
      LET d == job'[w].id
      IN failures[d] > 0 => quiet[d] >= RetryDelays[failures[d]]
<1>1. ASSUME TypeInv, WaitInv, Next, NEW w \in Workers,
             pc[w] = "claiming", pc'[w] = "posting"
      PROVE  Waited(w)
  <2>0. /\ pc \in [Workers -> Places] /\ job \in [Workers -> Jobs \cup {NoJob}]
        /\ failures \in [Deliveries -> 0..Exhausted]
    BY <1>1 DEF TypeInv, TypeOK
  <2>1. PICK d \in Deliveries : ClaimDelivery(w, d)
    <3>1. ASSUME NEW v \in Workers, NEW e \in Deliveries, ClaimDelivery(v, e), v # w
          PROVE  FALSE
      BY <1>1, <2>0, <3>1 DEF ClaimDelivery, Goto
    <3>2. ASSUME NEW v \in Workers,
                 BeginClaim(v) \/ NothingDue(v) \/ PostAccepted(v) \/ PostFailed(v)
                   \/ PostRaises(v) \/ FinishDelivery(v) \/ FinishStale(v) \/ Abort(v)
          PROVE  FALSE
      BY <1>1, <2>0, <3>2
         DEF BeginClaim, NothingDue, PostAccepted, PostFailed, PostRaises,
             FinishDelivery, FinishStale, Abort, Goto
    <3>3. ASSUME UNCHANGED pc PROVE FALSE
      BY <1>1, <3>3
    <3> QED
      BY <1>1, <3>1, <3>2, <3>3
         DEF Next, EnqueueNotification, ReplayDelivery, Tick, workerVars
  <2>2. job'[w].id = d
    BY <2>0, <2>1 DEF ClaimDelivery, Goto
  <2>3. RestedIn(d, 0) /\ failures[d] < Exhausted
    BY <1>1, <2>1, ClaimsRested DEF WaitInv
  <2>4. failures[d] > 0 => RetryDelays[failures[d]] \in Nat /\ RetryDelays[failures[d]] <= MaxDelay
    BY <2>0, <2>3, ScheduleFacts, DelayFacts DEF Exhausted
  <2>5. quiet[d] \in Nat /\ MaxDelay \in Nat
    BY <1>1, QueueAssumption DEF TypeInv, TypeOK
  <2> QED
    BY <2>2, <2>3, <2>4, <2>5 DEF RestedIn
<1>2. TypeInv /\ WaitInv /\ [Next]_vars =>
        [\A w \in Workers : pc[w] = "claiming" /\ pc'[w] = "posting" => Waited(w)]_vars
  BY <1>1
<1>3. Init => TypeInv /\ CountInv /\ WaitInv
  BY InitTypeInv DEF Init, CountInv, Busy, WaitInv, WaitOf, RestedIn
<1>4. TypeInv /\ CountInv /\ WaitInv /\ [Next]_vars => TypeInv' /\ CountInv' /\ WaitInv'
  BY NextTypeInv, NextCount, NextWait
<1>5. Spec => []TypeInv /\ []WaitInv
  BY <1>3, <1>4, PTL DEF Spec
<1> QED
  BY <1>2, <1>5, PTL DEF Spec, Backoff
=============================================================================

------------------------ MODULE WatchSupervisionProofs ------------------------
(***************************************************************************)
(* Proofs about the database at the start of processes (Startup) and about *)
(* the watcher that uses it (WatchSupervision).                            *)
(*                                                                         *)
(* The schema is brought up to date once, and nobody uses tables that are  *)
(* not there yet, for any processes, threads and releases: the write lock  *)
(* makes the version that a thread reads that of the tables until it       *)
(* commits; the version only grows; so a process that is ready stays       *)
(* ready.  The steps of WatchSupervision are steps of Startup for the      *)
(* database, so that this holds of it, too.  BeatInv then bounds every age *)
(* by the times the main thread can have waited, from which follow both    *)
(* what a fresh heartbeat means and that a watcher that runs has one.      *)
(***************************************************************************)
EXTENDS WatchSupervision, TLAPS

\* What Commit makes of two sequences: one after the other.
LEMMA Joined ==
  ASSUME NEW s \in Seq(Nat), NEW t \in Seq(Nat)
  PROVE  /\ s \o t \in Seq(Nat)
         /\ Len(s \o t) = Len(s) + Len(t)
         /\ \A i \in 1..Len(s) : (s \o t)[i] = s[i]
         /\ \A i \in 1..Len(t) : (s \o t)[Len(s) + i] = t[i]
<1>1. s \o t \in Seq(Nat) /\ Len(s \o t) = Len(s) + Len(t)
  OBVIOUS
<1>2. \A i \in 1..Len(s) : (s \o t)[i] = s[i]
  OBVIOUS
<1>3. \A i \in 1..Len(t) : (s \o t)[Len(s) + i] = t[i]
  OBVIOUS
<1> QED
  BY <1>1, <1>2, <1>3

\* What is staged goes on from the version, and only while somebody migrates.
StagedNext ==
  /\ writer = None => staged = <<>>
  /\ \A i \in DOMAIN staged : staged[i] = user_version + i
  /\ \A c \in Users : at[c] = "checking" => staged = <<>>

\* Who is past the commit, and a process that is ready, has its schema.
UpToDate ==
  /\ \A c \in Users : at[c] \in {"marking", "using"} => user_version >= Schema[c[1]]
  /\ \A p \in Procs : ready[p] => user_version >= Schema[p]

StoreInv == StoreTypeOK /\ MigratedOnce /\ StagedNext /\ UpToDate

LEMMA UserIsPair ==
  ASSUME NEW c \in Users
  PROVE  /\ c = <<c[1], c[2]>> /\ c[1] \in Procs /\ c[2] \in Threads
         /\ c # None /\ c[2] # None /\ Schema[c[1]] \in Nat
  BY StartupAssumption

LEMMA SamePair ==
  ASSUME NEW c \in Users, NEW d \in Users, c[1] = d[1], c[2] = d[2]
  PROVE  c = d
  BY UserIsPair

LEMMA OneWriter ==
  ASSUME StoreTypeOK, NEW c \in Users, NEW d \in Users, at[c] \in Migrating, at[d] \in Migrating
  PROVE  c = d
  BY DEF StoreTypeOK

LEMMA StoreInitInv == StoreInit => StoreInv
<1> SUFFICES ASSUME StoreInit PROVE StoreInv
  OBVIOUS
<1>1. user_version \in Nat /\ applied = [i \in 1..user_version |-> i]
  <2>1. user_version \in Nat
    BY StartupAssumption DEF StoreInit
  <2>2. Steps(0, user_version) = [i \in 1..user_version |-> i]
    BY <2>1 DEF Steps
  <2> QED
    BY <2>1, <2>2 DEF StoreInit
<1>2. applied \in Seq(Nat) /\ Len(applied) = user_version /\ DOMAIN applied = 1..user_version
  BY <1>1
<1>3. MigratedOnce
  BY <1>1, <1>2 DEF MigratedOnce
<1>4. StoreTypeOK
  BY <1>1, <1>2, UserIsPair DEF StoreInit, StoreTypeOK, Migrating, Locked
<1>5. StagedNext /\ UpToDate
  BY DEF StoreInit, StagedNext, UpToDate
<1> QED
  BY <1>3, <1>4, <1>5 DEF StoreInv

\* The lock of the process is had by at most one of its threads, and the write lock
\* by at most one of all.
LEMMA StoreStepInv == StoreInv /\ [StoreNext]_storeVars => StoreInv'
<1> SUFFICES ASSUME StoreInv, [StoreNext]_storeVars PROVE StoreInv'
  OBVIOUS
<1> USE DEF StoreInv
<1>0. CASE UNCHANGED storeVars
  BY <1>0 DEF storeVars, StoreTypeOK, MigratedOnce, StagedNext, UpToDate
<1>1. ASSUME NEW c \in Users, Call(c) PROVE StoreInv'
  BY <1>1, UserIsPair DEF Call, Walk, dbVars, StoreTypeOK, MigratedOnce, StagedNext, UpToDate, Migrating, Locked
<1>2. ASSUME NEW c \in Users, Lock(c) PROVE StoreInv'
  <2>1. held[c[1]] = None => \A d \in Users : d[1] = c[1] => at[d] \notin Locked
    BY UserIsPair DEF StoreTypeOK
  <2>2. StoreTypeOK'
    <3>1. CASE ready[c[1]]
      BY <1>2, <3>1, UserIsPair DEF Lock, Walk, dbVars, StoreTypeOK, Migrating, Locked
    <3>2. CASE ~ready[c[1]]
      <4>1. /\ held[c[1]] = None /\ at[c] = "locking"
            /\ at' = [at EXCEPT ![c] = "opening"] /\ held' = [held EXCEPT ![c[1]] = c[2]]
            /\ UNCHANGED dbVars /\ ready' = ready
        BY <1>2, <3>2 DEF Lock, Walk
      <4>2. \A d \in Users : held'[d[1]] = d[2] <=> at'[d] \in Locked
        <5>1. ASSUME NEW d \in Users, d[1] = c[1], d # c PROVE held'[d[1]] # d[2] /\ at'[d] \notin Locked
          BY <2>1, <4>1, <5>1, UserIsPair, SamePair DEF StoreTypeOK
        <5>2. ASSUME NEW d \in Users, d[1] # c[1] PROVE held'[d[1]] = d[2] <=> at'[d] \in Locked
          BY <4>1, <5>2, UserIsPair DEF StoreTypeOK
        <5>3. held'[c[1]] = c[2] /\ at'[c] \in Locked
          BY <4>1, UserIsPair DEF StoreTypeOK, Locked
        <5> QED
          BY <5>1, <5>2, <5>3
      <4>3. \A d \in Users : writer' = d <=> at'[d] \in Migrating
        BY <4>1 DEF StoreTypeOK, dbVars, Migrating
      <4> QED
        BY <4>1, <4>2, <4>3, UserIsPair DEF StoreTypeOK, dbVars, Locked
    <3> QED
      BY <3>1, <3>2
  <2>3. MigratedOnce' /\ StagedNext' /\ UpToDate'
    BY <1>2, UserIsPair DEF Lock, Walk, dbVars, StoreTypeOK, MigratedOnce, StagedNext, UpToDate, Migrating, Locked
  <2> QED
    BY <2>2, <2>3
<1>3. ASSUME NEW c \in Users, Open(c) PROVE StoreInv'
  BY <1>3, UserIsPair DEF Open, Walk, dbVars, StoreTypeOK, MigratedOnce, StagedNext, UpToDate, Migrating, Locked
<1>4. ASSUME NEW c \in Users, BeginImmediate(c) PROVE StoreInv'
  <2>1. at[c] \in Locked => held[c[1]] = c[2] /\ \A d \in Users \ {c} : d[1] = c[1] => at[d] \notin Locked
    BY UserIsPair, SamePair DEF StoreTypeOK
  <2>2. StoreTypeOK'
    BY <1>4, <2>1, UserIsPair, OneWriter DEF BeginImmediate, Walk, StoreTypeOK, Migrating, Locked
  <2>3. MigratedOnce' /\ StagedNext' /\ UpToDate'
    BY <1>4, UserIsPair DEF BeginImmediate, Walk, StoreTypeOK, MigratedOnce, StagedNext, UpToDate, Migrating, Locked
  <2> QED
    BY <2>2, <2>3
<1>5. ASSUME NEW c \in Users, AcceptVersion(c) PROVE StoreInv'
  BY <1>5, UserIsPair DEF AcceptVersion, Walk, dbVars, StoreTypeOK, MigratedOnce, StagedNext, UpToDate, Migrating, Locked
<1>6. ASSUME NEW c \in Users, RejectVersion(c) PROVE StoreInv'
  <2>1. at[c] \in Locked => held[c[1]] = c[2] /\ \A d \in Users \ {c} : d[1] = c[1] => at[d] \notin Locked
    BY UserIsPair, SamePair DEF StoreTypeOK
  <2>2. StoreTypeOK'
    BY <1>6, <2>1, UserIsPair, OneWriter DEF RejectVersion, Walk, Closed, Unlock, StoreTypeOK, Migrating, Locked
  <2>3. MigratedOnce' /\ StagedNext' /\ UpToDate'
    BY <1>6, UserIsPair DEF RejectVersion, Walk, Closed, Unlock, StoreTypeOK, MigratedOnce, StagedNext, UpToDate, Migrating, Locked
  <2> QED
    BY <2>2, <2>3
<1>7. ASSUME NEW c \in Users, Migrate(c) PROVE StoreInv'
  <2> DEFINE next == user_version + Len(staged) + 1
  <2>1. /\ staged \in Seq(Nat) /\ user_version \in Nat /\ next \in Nat /\ writer = c
    BY <1>7 DEF Migrate, StoreTypeOK, Migrating
  <2>2. /\ staged' = Append(staged, next)
        /\ UNCHANGED <<user_version, applied, writer, at, held, ready>>
    BY <1>7 DEF Migrate
  <2>3. staged' \in Seq(Nat) /\ DOMAIN staged' = 1..Len(staged) + 1 /\ DOMAIN staged = 1..Len(staged)
    BY <2>1, <2>2
  <2>4. \A i \in DOMAIN staged' : staged'[i] = IF i = Len(staged) + 1 THEN next ELSE staged[i]
    BY <2>1, <2>2, <2>3
  <2>5. StoreTypeOK'
    BY <2>2, <2>3 DEF StoreTypeOK
  <2>6. ASSUME NEW i \in DOMAIN staged' PROVE staged'[i] = user_version + i
    <3>1. CASE i = Len(staged) + 1
      BY <2>1, <2>4, <3>1
    <3>2. CASE i # Len(staged) + 1
      <4>1. i \in DOMAIN staged /\ staged'[i] = staged[i]
        BY <2>1, <2>3, <2>4, <3>2
      <4> QED
        BY <4>1 DEF StagedNext
    <3> QED
      BY <3>1, <3>2
  <2>7. \A d \in Users : at[d] # "checking"
    BY <1>7, <2>1, OneWriter DEF Migrate, StoreTypeOK, Migrating
  <2>8. StagedNext'
    BY <2>1, <2>2, <2>6, <2>7, UserIsPair DEF StagedNext
  <2>9. MigratedOnce' /\ UpToDate'
    BY <2>2 DEF MigratedOnce, UpToDate
  <2> QED
    BY <2>5, <2>8, <2>9
<1>8. ASSUME NEW c \in Users, Commit(c) PROVE StoreInv'
  <2>1. /\ staged \in Seq(Nat) /\ applied \in Seq(Nat) /\ user_version \in Nat
        /\ Len(applied) = user_version /\ Len(staged) \in Nat
        /\ writer = c /\ c \in Users /\ at[c] = "migrating"
    BY <1>8 DEF Commit, Walk, StoreTypeOK, MigratedOnce, Migrating
  <2>2. /\ applied' = applied \o staged /\ user_version' = user_version + Len(staged)
        /\ writer' = None /\ staged' = <<>> /\ at' = [at EXCEPT ![c] = "marking"]
        /\ held' = held /\ ready' = ready /\ user_version + Len(staged) >= Schema[c[1]]
    BY <1>8 DEF Commit, Walk
  <2>3. applied' \in Seq(Nat) /\ Len(applied') = user_version' /\ DOMAIN applied' = 1..user_version'
    <3>1. /\ applied \o staged \in Seq(Nat)
          /\ Len(applied \o staged) = Len(applied) + Len(staged)
      BY <2>1, Joined
    <3>2. applied' \in Seq(Nat) /\ Len(applied') = user_version'
      BY <2>1, <2>2, <3>1
    <3> QED
      BY <3>2
  <2>4. user_version' \in Nat /\ user_version' >= user_version
    BY <2>1, <2>2
  <2>5. StoreTypeOK'
    <3>1. \A d \in Users : writer' = d <=> at'[d] \in Migrating
      BY <2>1, <2>2, OneWriter, UserIsPair DEF StoreTypeOK, Migrating
    <3>2. \A d \in Users : held'[d[1]] = d[2] <=> at'[d] \in Locked
      BY <2>1, <2>2 DEF StoreTypeOK, Locked, Migrating
    <3>3. staged' \in Seq(Nat)
      BY <2>2
    <3> QED
      BY <2>1, <2>2, <2>3, <2>4, <3>1, <3>2, <3>3 DEF StoreTypeOK, Locked
  <2>6. ASSUME NEW i \in DOMAIN applied' PROVE applied'[i] = i
    <3>1. CASE i \in 1..user_version
      BY <2>1, <2>2, <3>1 DEF MigratedOnce
    <3>2. CASE i > user_version
      <4>1. i - user_version \in DOMAIN staged /\ applied'[i] = staged[i - user_version]
        BY <2>1, <2>2, <2>3, <3>2
      <4> QED
        BY <2>1, <2>3, <3>2, <4>1 DEF StagedNext
    <3> QED
      BY <2>1, <2>3, <2>4, <3>1, <3>2
  <2>7. MigratedOnce'
    BY <2>3, <2>6 DEF MigratedOnce
  <2>8. StagedNext'
    BY <2>2 DEF StagedNext
  <2>9. UpToDate'
    BY <2>1, <2>2, <2>4, StartupAssumption, UserIsPair DEF UpToDate, StoreTypeOK
  <2> QED
    BY <2>5, <2>7, <2>8, <2>9
<1>9. ASSUME NEW c \in Users, MarkReady(c) PROVE StoreInv'
  <2>1. at[c] \in Locked => held[c[1]] = c[2] /\ \A d \in Users \ {c} : d[1] = c[1] => at[d] \notin Locked
    BY UserIsPair, SamePair DEF StoreTypeOK
  <2>2. StoreTypeOK'
    BY <1>9, <2>1, UserIsPair, OneWriter DEF MarkReady, Walk, Unlock, dbVars, StoreTypeOK, Migrating, Locked
  <2>3. MigratedOnce' /\ StagedNext' /\ UpToDate'
    BY <1>9, UserIsPair DEF MarkReady, Walk, Unlock, dbVars, StoreTypeOK, MigratedOnce, StagedNext, UpToDate, Migrating, Locked
  <2> QED
    BY <2>2, <2>3
<1>10. ASSUME NEW c \in Users, FailToOpen(c) PROVE StoreInv'
  <2>1. at[c] \in Locked => held[c[1]] = c[2] /\ \A d \in Users \ {c} : d[1] = c[1] => at[d] \notin Locked
    BY UserIsPair, SamePair DEF StoreTypeOK
  <2>2. StoreTypeOK'
    BY <1>10, <2>1, UserIsPair, OneWriter DEF FailToOpen, Closed, Unlock, StoreTypeOK, Migrating, Locked
  <2>3. MigratedOnce' /\ StagedNext' /\ UpToDate'
    BY <1>10, UserIsPair DEF FailToOpen, Closed, Unlock, StoreTypeOK, MigratedOnce, StagedNext, UpToDate, Migrating, Locked
  <2> QED
    BY <2>2, <2>3
<1>11. ASSUME NEW c \in Users, Return(c) PROVE StoreInv'
  <2>1. at[c] \in Locked => held[c[1]] = c[2] /\ \A d \in Users \ {c} : d[1] = c[1] => at[d] \notin Locked
    BY UserIsPair, SamePair DEF StoreTypeOK
  <2>2. StoreTypeOK'
    BY <1>11, <2>1, UserIsPair, OneWriter DEF Return, dbVars, StoreTypeOK, Migrating, Locked
  <2>3. MigratedOnce' /\ StagedNext' /\ UpToDate'
    BY <1>11, UserIsPair DEF Return, dbVars, StoreTypeOK, MigratedOnce, StagedNext, UpToDate, Migrating, Locked
  <2> QED
    BY <2>2, <2>3
<1>12. ASSUME NEW p \in Procs, Vanish(p) PROVE StoreInv'
  <2>1. /\ at' = [d \in Users |-> IF d[1] = p THEN "idle" ELSE at[d]]
        /\ held' = [held EXCEPT ![p] = None] /\ ready' = [ready EXCEPT ![p] = FALSE]
        /\ user_version' = user_version /\ applied' = applied
    BY <1>12 DEF Vanish, Unlock
  <2>2. CASE writer # None /\ writer[1] = p
    <3>1. writer' = None /\ staged' = <<>>
      BY <1>12, <2>2 DEF Vanish
    <3>2. \A d \in Users : at'[d] \notin Migrating
      BY <2>1, <2>2 DEF StoreTypeOK, Migrating
    <3>3. StoreTypeOK'
      BY <2>1, <3>1, <3>2, UserIsPair DEF StoreTypeOK, Locked
    <3>4. MigratedOnce' /\ StagedNext' /\ UpToDate'
      BY <2>1, <3>1 DEF StoreTypeOK, MigratedOnce, StagedNext, UpToDate
    <3> QED
      BY <3>3, <3>4
  <2>3. CASE ~ (writer # None /\ writer[1] = p)
    <3>1. writer' = writer /\ staged' = staged
      BY <1>12, <2>3 DEF Vanish
    <3>2. \A d \in Users : d[1] = p => writer # d /\ at[d] \notin Migrating
      BY <2>3, UserIsPair DEF StoreTypeOK
    <3>3. \A d \in Users : writer' = d <=> at'[d] \in Migrating
      BY <2>1, <3>1, <3>2 DEF StoreTypeOK, Migrating
    <3>4. \A d \in Users : held'[d[1]] = d[2] <=> at'[d] \in Locked
      BY <2>1, UserIsPair DEF StoreTypeOK, Locked, Migrating
    <3>5. StoreTypeOK'
      BY <2>1, <3>1, <3>3, <3>4 DEF StoreTypeOK
    <3>6. MigratedOnce' /\ StagedNext' /\ UpToDate'
      BY <2>1, <3>1 DEF StoreTypeOK, MigratedOnce, StagedNext, UpToDate
    <3> QED
      BY <3>5, <3>6
  <2> QED
    BY <2>2, <2>3
<1> QED
  BY <1>0, <1>1, <1>2, <1>3, <1>4, <1>5, <1>6, <1>7, <1>8, <1>9, <1>10, <1>11, <1>12
  DEF StoreNext, Ensure

LEMMA StoreInvariant == StoreSpec => []StoreInv
<1>1. StoreInit => StoreInv
  BY StoreInitInv
<1>2. StoreInv /\ [StoreNext]_storeVars => StoreInv'
  BY StoreStepInv
<1> QED
  BY <1>1, <1>2, PTL DEF StoreSpec

\* Every step of the schema is applied exactly once and in order, by whatever
\* processes migrate, fail and are killed (State._ensure).
THEOREM SchemaMigratedOnce == StoreSpec => []MigratedOnce
<1>1. StoreInv => MigratedOnce
  BY DEF StoreInv
<1> QED
  BY <1>1, StoreInvariant, PTL

\* No thread gets past _ensure while the tables of its release are missing.
THEOREM SchemaBeforeUse == StoreSpec => []NoUseBeforeSchema
<1>1. StoreInv => NoUseBeforeSchema
  BY DEF StoreInv, UpToDate, NoUseBeforeSchema
<1> QED
  BY <1>1, StoreInvariant, PTL

-----------------------------------------------------------------------------
(* The watcher.                                                            *)

\* Where the main thread is and how long it has been there, with the time that the
\* INSERT in hand carries.
WaitInv(p) ==
  /\ phase[p] = "down" => row[p] = None
  /\ phase[p] \in {"deleting", "inserting"} => waited[p] <= LockWait
  /\ phase[p] = "inserting" => stamp[p] <= waited[p]

\* No heartbeat is much younger than the last look that found all threads alive.
SoundInv ==
  /\ \A p \in Watchers :
       /\ phase[p] = "deleting" => sound <= waited[p]
       /\ phase[p] = "inserting" => sound <= stamp[p] + LockWait
       /\ row[p] # None => sound <= row[p] + LockWait
  /\ left # None => sound <= left + LockWait

\* How old the heartbeat of a running watcher may be at each place.
RowInv(p) ==
  row[p] # None =>
    /\ phase[p] = "polling" => row[p] + due[p] <= Heartbeat + LockWait
    /\ phase[p] = "deleting" => row[p] <= Heartbeat + LockWait + waited[p]
    /\ phase[p] = "inserting" => row[p] <= Heartbeat + 2 * LockWait + waited[p]

MainTypeOK ==
  /\ phase \in [Watchers -> {"down", "polling", "deleting", "inserting", "joining", "removing"}]
  /\ alive \in [Watchers -> SUBSET Others]
  /\ stop \in [Watchers -> BOOLEAN]
  /\ due \in [Watchers -> 0..Heartbeat]
  /\ waited \in [Watchers -> Nat] /\ stamp \in [Watchers -> Nat]
  /\ row \in [Watchers -> Ages \cup {None}] /\ left \in Ages \cup {None} /\ sound \in Ages

BeatInv ==
  MainTypeOK /\ SoundInv /\ \A p \in Watchers : WaitInv(p) /\ RowInv(p)

-----------------------------------------------------------------------------
(* The database.                                                           *)

LEMMA MainIsUser ==
  ASSUME NEW p \in Watchers, NEW t \in Threads
  PROVE  <<p, t>> \in Users /\ p \in Procs
  BY SupervisionAssumption

LEMMA StepOfStore == StoreInv /\ [Next]_vars => [StoreNext]_storeVars
<1> SUFFICES ASSUME StoreInv, Next PROVE [StoreNext]_storeVars
  BY DEF vars
<1> USE DEF StoreNext
<1>1. CASE UseStore \/ OpeningFails
  BY <1>1 DEF UseStore, OpeningFails
<1>2. CASE Tick
  BY <1>2 DEF Tick
<1>3. ASSUME NEW p \in Watchers, Launch(p) \/ MainStep(p) \/ Trouble(p)
      PROVE  [StoreNext]_storeVars
  <2>0. <<p, Main>> \in Users /\ p \in Procs
    BY MainIsUser, SupervisionAssumption
  <2>1. CASE Launch(p) \/ Leave(p) \/ DeleteOld(p) \/ Terminate(p)
    BY <2>1 DEF Launch, Leave, DeleteOld, Terminate
  <2>2. CASE StartBeat(p) \/ Join(p)
    BY <2>0, <2>2 DEF StartBeat, Join
  <2>3. CASE Insert(p) \/ BeatFails(p)
    BY <2>0, <2>3 DEF Insert, BeatFails
  <2>4. CASE RemoveWatcher(p) \/ RemoveFails(p) \/ Kill(p)
    BY <2>0, <2>4 DEF RemoveWatcher, RemoveFails, Kill, Exit
  <2>5. ASSUME NEW t \in Others, ThreadDies(p, t) PROVE [StoreNext]_storeVars
    <3>1. <<p, t>> \in Users
      BY MainIsUser DEF Others
    <3>2. CASE at[<<p, t>>] = "idle"
      BY <2>5, <3>1, <3>2 DEF ThreadDies, StoreInv, StoreTypeOK, storeVars, dbVars
    <3>3. CASE at[<<p, t>>] \in {"using", "failed"}
      BY <2>5, <3>1, <3>3 DEF ThreadDies, Return
    <3> QED
      BY <2>5, <3>2, <3>3 DEF ThreadDies
  <2> QED
    BY <1>3, <2>1, <2>2, <2>3, <2>4, <2>5 DEF MainStep, Trouble
<1> QED
  BY <1>1, <1>2, <1>3 DEF Next

LEMMA StoreInvHolds == Spec => []StoreInv
<1>1. Init => StoreInv
  BY StoreInitInv DEF Init
<1>2. StoreInv /\ [Next]_vars => StoreInv'
  BY StepOfStore, StoreStepInv
<1> QED
  BY <1>1, <1>2, PTL DEF Spec

\* Watchers that start, die and are killed use the database as Startup says: what is
\* proved of Startup is true of the whole.
THEOREM WatchersUseStore == Spec => StoreSpec
<1>1. Init => StoreInit
  BY DEF Init
<1> QED
  BY <1>1, StepOfStore, StoreInvHolds, PTL DEF Spec, StoreSpec

-----------------------------------------------------------------------------
(* The heartbeat.                                                          *)

LEMMA MinOfTwo ==
  ASSUME NEW a \in Nat, NEW b \in Nat
  PROVE  Min({a, b}) = IF a <= b THEN a ELSE b
  BY DEF Min

LEMMA Times ==
  /\ Heartbeat \in Nat /\ MaxAge \in Nat /\ LockWait \in Nat
  /\ Old \in Nat /\ Old = MaxAge + LockWait + 1 /\ Ages = 0..Old
  /\ Heartbeat + 3 * LockWait <= MaxAge
  BY SupervisionAssumption DEF Old, Ages

LEMMA AgedBound ==
  ASSUME NEW x \in Ages
  PROVE  /\ Aged(x) \in Ages \cup {None}
         /\ x # None => Aged(x) = IF x < Old THEN x + 1 ELSE Old
<1>1. x \in Nat /\ x + 1 \in Nat /\ Min({x + 1, Old}) = IF x < Old THEN x + 1 ELSE Old
  BY Times, MinOfTwo
<1> QED
  BY <1>1, Times DEF Aged

LEMMA BeatInit == Init => BeatInv
  BY Times DEF Init, BeatInv, MainTypeOK, SoundInv, WaitInv, RowInv
LEMMA TickKeepsBeat == ASSUME BeatInv, Tick PROVE BeatInv'
<1>0. MainTypeOK /\ SoundInv /\ \A p \in Watchers : WaitInv(p) /\ RowInv(p)
  BY DEF BeatInv
<1>1. /\ \A p \in Watchers : Idles(p)
      /\ due' = [p \in Watchers |-> IF due[p] > 0 THEN due[p] - 1 ELSE 0]
      /\ waited' = [p \in Watchers |->
                      IF phase[p] \in {"polling", "down"} THEN 0 ELSE waited[p] + 1]
      /\ stamp' = [p \in Watchers |-> IF phase[p] = "inserting" THEN stamp[p] + 1 ELSE 0]
      /\ row' = [p \in Watchers |-> Aged(row[p])] /\ left' = Kept(Aged(left))
      /\ sound' = Aged(sound) /\ UNCHANGED <<phase, alive, stop>>
  BY DEF Tick
<1>2. sound' \in Ages /\ sound' <= sound + 1
  <2>1. sound \in Ages
    BY <1>0 DEF MainTypeOK
  <2>2. CASE sound = None
    BY <1>1, <2>1, <2>2, Times DEF Aged
  <2>3. CASE sound # None
    BY <1>1, <2>1, <2>3, Times, AgedBound
  <2> QED
    BY <2>2, <2>3
<1>3. \A x \in Ages \cup {None} :
        /\ Aged(x) \in Ages \cup {None}
        /\ Aged(x) # None =>
             x # None /\ x \in Ages /\ Aged(x) = IF x < Old THEN x + 1 ELSE Old
  BY AgedBound DEF Aged
<1>4. left' \in Ages \cup {None} /\ (left' # None => left' = Aged(left))
  BY <1>0, <1>1, <1>3 DEF Kept, MainTypeOK
<1>5. ASSUME NEW p \in Watchers
      PROVE  /\ row[p] \in Ages \cup {None} /\ row'[p] = Aged(row[p])
             /\ due[p] \in Nat /\ waited[p] \in Nat /\ stamp[p] \in Nat
             /\ due'[p] = IF due[p] > 0 THEN due[p] - 1 ELSE 0
             /\ waited'[p] = IF phase[p] \in {"polling", "down"} THEN 0 ELSE waited[p] + 1
             /\ stamp'[p] = IF phase[p] = "inserting" THEN stamp[p] + 1 ELSE 0
             /\ phase'[p] = phase[p]
  BY <1>0, <1>1, Times DEF MainTypeOK
<1>6. MainTypeOK'
  <2>1. due' \in [Watchers -> 0..Heartbeat]
    BY <1>0, <1>1, Times DEF MainTypeOK
  <2>2. row' \in [Watchers -> Ages \cup {None}]
    BY <1>1, <1>3, <1>5
  <2>3. waited' \in [Watchers -> Nat] /\ stamp' \in [Watchers -> Nat]
    BY <1>0, <1>1 DEF MainTypeOK
  <2> QED
    BY <1>0, <1>1, <1>2, <1>4, <2>1, <2>2, <2>3 DEF MainTypeOK
<1>7. SoundInv'
  <2>1. sound \in Ages
    BY <1>0 DEF MainTypeOK
  <2>2. ASSUME NEW p \in Watchers
        PROVE  /\ phase'[p] = "deleting" => sound' <= waited'[p]
               /\ phase'[p] = "inserting" => sound' <= stamp'[p] + LockWait
               /\ row'[p] # None => sound' <= row'[p] + LockWait
    <3>1. sound \in Nat /\ sound' \in Nat /\ sound' <= Old
      BY <1>2, <2>1, Times
    <3>2. phase'[p] = "deleting" => sound' <= waited'[p]
      BY <1>0, <1>2, <1>5, <3>1 DEF SoundInv
    <3>3. phase'[p] = "inserting" => sound' <= stamp'[p] + LockWait
      BY <1>0, <1>2, <1>5, <3>1, Times DEF SoundInv
    <3>4. row'[p] # None => sound' <= row'[p] + LockWait
      <4>1. SUFFICES ASSUME row'[p] # None PROVE sound' <= row'[p] + LockWait
        OBVIOUS
      <4>2. /\ row[p] # None /\ row[p] \in Nat
            /\ row'[p] = IF row[p] < Old THEN row[p] + 1 ELSE Old
        <5>1. row[p] \in Ages \cup {None} /\ row'[p] = Aged(row[p]) /\ Aged(row[p]) # None
          BY <1>5, <4>1
        <5>2. /\ row[p] # None /\ row[p] \in Ages
              /\ Aged(row[p]) = IF row[p] < Old THEN row[p] + 1 ELSE Old
          BY <1>3, <5>1
        <5> QED
          BY <5>1, <5>2, Times
      <4>3. sound <= row[p] + LockWait
        BY <1>0, <4>2 DEF SoundInv
      <4> QED
        BY <1>2, <3>1, <4>2, <4>3, Times
    <3> QED
      BY <3>2, <3>3, <3>4
  <2>3. left' # None => sound' <= left' + LockWait
    BY <1>0, <1>2, <1>3, <1>4, <2>1, Times DEF SoundInv, MainTypeOK
  <2> QED
    BY <2>2, <2>3 DEF SoundInv
<1>8. ASSUME NEW p \in Watchers PROVE (WaitInv(p) /\ RowInv(p))'
  <2>1. WaitInv(p) /\ RowInv(p) /\ Idles(p)
    BY <1>0, <1>1
  <2>2. WaitInv(p)'
    <3>1. phase[p] = "down" => row'[p] = None
      BY <1>5, <2>1 DEF WaitInv, Aged
    <3>2. phase[p] \in {"deleting", "inserting"} => waited'[p] <= LockWait
      BY <1>5, <2>1, Times DEF Idles
    <3> QED
      BY <1>5, <2>1, <3>1, <3>2, Times DEF WaitInv
  <2>3. RowInv(p)'
    <3>1. phase[p] = "polling" => due[p] > 0
      BY <2>1 DEF Idles
    <3>2. row'[p] # None => row[p] # None /\ row[p] \in Nat /\ row'[p] \in Nat
                            /\ row'[p] <= row[p] + 1
      BY <1>3, <1>5, Times
    <3>3. CASE phase[p] = "polling"
      BY <1>5, <2>1, <3>1, <3>2, <3>3, Times DEF RowInv
    <3>4. CASE phase[p] \in {"deleting", "inserting"}
      BY <1>5, <2>1, <3>2, <3>4, Times DEF RowInv
    <3>5. CASE phase[p] \notin {"polling", "deleting", "inserting"}
      BY <1>5, <3>5 DEF RowInv
    <3> QED
      BY <3>3, <3>4, <3>5
  <2> QED
    BY <2>2, <2>3
<1> QED
  BY <1>6, <1>7, <1>8 DEF BeatInv

\* A step of one main thread: what it leaves alone for the other watchers.  Heartbeats
\* of others may be deleted.
LEMMA MainFrame ==
  ASSUME BeatInv, NEW p \in Watchers, MainTypeOK',
         \A q \in Watchers \ {p} :
           /\ phase'[q] = phase[q] /\ due'[q] = due[q] /\ waited'[q] = waited[q]
           /\ stamp'[q] = stamp[q] /\ row'[q] \in {row[q], None},
         left' # None =>
           left' = left \/ (row[p] # None /\ left' = row[p]),
         sound' \in {sound, 0},
         WaitInv(p)', RowInv(p)',
         phase'[p] = "deleting" => sound' <= waited'[p],
         phase'[p] = "inserting" => sound' <= stamp'[p] + LockWait,
         row'[p] # None => sound' <= row'[p] + LockWait
  PROVE  BeatInv'
<1>0. MainTypeOK /\ SoundInv /\ \A q \in Watchers : WaitInv(q) /\ RowInv(q)
  BY DEF BeatInv
<1>1. sound \in Nat /\ sound' <= sound /\ sound' \in Nat
  BY <1>0, Times DEF MainTypeOK
<1>2. \A q \in Watchers :
        /\ waited[q] \in Nat /\ stamp[q] \in Nat
        /\ row[q] # None => row[q] \in Nat
  BY <1>0, Times DEF MainTypeOK
<1>3. left # None => left \in Nat
  BY <1>0, Times DEF MainTypeOK
<1>4. ASSUME NEW q \in Watchers \ {p}
      PROVE  /\ phase'[q] = "deleting" => sound' <= waited'[q]
             /\ phase'[q] = "inserting" => sound' <= stamp'[q] + LockWait
             /\ row'[q] # None => sound' <= row'[q] + LockWait
             /\ (WaitInv(q) /\ RowInv(q))'
  <2>1. /\ phase'[q] = phase[q] /\ due'[q] = due[q] /\ waited'[q] = waited[q]
        /\ stamp'[q] = stamp[q] /\ row'[q] \in {row[q], None}
        /\ waited[q] \in Nat /\ stamp[q] \in Nat
        /\ row[q] # None => row[q] \in Nat
    BY <1>2
  <2>2. /\ phase[q] = "deleting" => sound <= waited[q]
        /\ phase[q] = "inserting" => sound <= stamp[q] + LockWait
        /\ row[q] # None => sound <= row[q] + LockWait
    BY <1>0 DEF SoundInv
  <2>3. /\ phase'[q] = "deleting" => sound' <= waited'[q]
        /\ phase'[q] = "inserting" => sound' <= stamp'[q] + LockWait
        /\ row'[q] # None => sound' <= row'[q] + LockWait
    BY <1>1, <2>1, <2>2, Times
  <2>4. WaitInv(q)'
    BY <1>0, <2>1 DEF WaitInv
  <2>5. RowInv(q)'
    BY <1>0, <2>1 DEF RowInv
  <2> QED
    BY <2>3, <2>4, <2>5
<1>5. left' # None => sound' <= left' + LockWait
  BY <1>0, <1>1, <1>2, <1>3, Times DEF SoundInv
<1> QED
  BY <1>4, <1>5 DEF BeatInv, SoundInv

LEMMA MainKeepsBeat ==
  ASSUME BeatInv, NEW p \in Watchers, Launch(p) \/ MainStep(p) \/ Trouble(p)
  PROVE  BeatInv'
<1>0. /\ MainTypeOK /\ SoundInv /\ WaitInv(p) /\ RowInv(p)
      /\ phase \in [Watchers -> {"down", "polling", "deleting", "inserting", "joining", "removing"}]
      /\ alive \in [Watchers -> SUBSET Others] /\ stop \in [Watchers -> BOOLEAN]
      /\ due \in [Watchers -> 0..Heartbeat]
      /\ waited \in [Watchers -> Nat] /\ stamp \in [Watchers -> Nat]
      /\ row \in [Watchers -> Ages \cup {None}] /\ left \in Ages \cup {None} /\ sound \in Ages
  BY DEF BeatInv, MainTypeOK
<1>1. ASSUME \/ Launch(p) \/ Leave(p) \/ BeatFails(p) \/ Join(p) \/ Terminate(p)
             \/ \E t \in Others : ThreadDies(p, t)
      PROVE  BeatInv'
  <2>1. /\ UNCHANGED <<due, stamp, row, left, sound>>
        /\ alive' \in [Watchers -> SUBSET Others] /\ stop' \in [Watchers -> BOOLEAN]
    <3>1. CASE Launch(p)
      BY <1>0, <3>1 DEF Launch
    <3>2. CASE Leave(p) \/ BeatFails(p) \/ Join(p) \/ Terminate(p)
      BY <1>0, <3>2 DEF Leave, BeatFails, Join, Terminate
    <3>3. CASE \E t \in Others : ThreadDies(p, t)
      BY <1>0, <3>3 DEF ThreadDies
    <3> QED
      BY <1>1, <3>1, <3>2, <3>3
  <2>2. \/ UNCHANGED <<phase, waited>>
        \/ /\ phase[p] = "down" /\ phase' = [phase EXCEPT ![p] = "polling"]
           /\ waited' = [waited EXCEPT ![p] = 0]
        \/ \E to \in {"joining", "removing"} :
             phase' = [phase EXCEPT ![p] = to] /\ waited' = [waited EXCEPT ![p] = 0]
    BY <1>1 DEF Launch, Leave, BeatFails, Join, Terminate, ThreadDies, Goto
  <2>3. phase' \in [Watchers -> {"down", "polling", "deleting", "inserting", "joining", "removing"}]
        /\ waited' \in [Watchers -> Nat]
    BY <1>0, <2>2
  <2>4. MainTypeOK'
    BY <1>0, <2>1, <2>3 DEF MainTypeOK
  <2>5. CASE UNCHANGED <<phase, waited>>
    BY <1>0, <2>1, <2>4, <2>5 DEF BeatInv, SoundInv, WaitInv, RowInv
  <2>6. CASE phase[p] = "down" /\ phase' = [phase EXCEPT ![p] = "polling"]
             /\ waited' = [waited EXCEPT ![p] = 0]
    <3>1. row[p] = None /\ phase'[p] = "polling"
      BY <1>0, <2>6 DEF WaitInv
    <3>2. (WaitInv(p) /\ RowInv(p))'
      BY <2>1, <3>1 DEF WaitInv, RowInv
    <3> QED
      BY <1>0, <2>1, <2>4, <2>6, <3>1, <3>2, MainFrame
  <2>7. CASE \E to \in {"joining", "removing"} :
               phase' = [phase EXCEPT ![p] = to] /\ waited' = [waited EXCEPT ![p] = 0]
    <3>1. phase'[p] \in {"joining", "removing"}
      BY <1>0, <2>7
    <3>2. (WaitInv(p) /\ RowInv(p))'
      BY <3>1 DEF WaitInv, RowInv
    <3>3. row'[p] # None => sound' <= row'[p] + LockWait
      BY <1>0, <2>1 DEF SoundInv
    <3> QED
      BY <1>0, <2>1, <2>4, <2>7, <3>1, <3>2, <3>3, MainFrame
  <2> QED
    BY <2>2, <2>5, <2>6, <2>7
<1>2. ASSUME StartBeat(p) PROVE BeatInv'
  <2>1. /\ phase[p] = "polling" /\ due[p] = 0 /\ sound' = 0
        /\ phase' = [phase EXCEPT ![p] = "deleting"] /\ waited' = [waited EXCEPT ![p] = 0]
        /\ UNCHANGED <<alive, stop, due, stamp, row, left>>
    BY <1>2 DEF StartBeat, Goto
  <2>2. MainTypeOK'
    BY <1>0, <2>1, Times DEF MainTypeOK
  <2>3. (WaitInv(p) /\ RowInv(p))'
    BY <1>0, <2>1, Times DEF WaitInv, RowInv
  <2>4. row'[p] # None => sound' <= row'[p] + LockWait
    BY <1>0, <2>1, Times
  <2> QED
    BY <1>0, <2>1, <2>2, <2>3, <2>4, MainFrame
<1>3. ASSUME DeleteOld(p) PROVE BeatInv'
  <2>1. /\ phase[p] = "deleting" /\ phase' = [phase EXCEPT ![p] = "inserting"]
        /\ waited' = [waited EXCEPT ![p] = 0] /\ stamp' = [stamp EXCEPT ![p] = 0]
        /\ row' = [q \in Watchers |-> Kept(row[q])] /\ left' = Kept(left)
        /\ UNCHANGED <<alive, stop, due, sound>>
    BY <1>3 DEF DeleteOld, Goto
  <2>2. /\ \A q \in Watchers : row'[q] \in {row[q], None}
        /\ left' \in {left, None}
    BY <2>1 DEF Kept
  <2>3. MainTypeOK'
    BY <1>0, <2>1, <2>2 DEF MainTypeOK
  <2>4. waited[p] <= LockWait /\ sound <= waited[p] /\ waited[p] \in Nat /\ sound \in Nat
    BY <1>0, <2>1, Times DEF WaitInv, SoundInv
  <2>5. phase'[p] = "inserting" /\ stamp'[p] = 0 /\ waited'[p] = 0
    BY <1>0, <2>1
  <2>6. (WaitInv(p) /\ RowInv(p))'
    <3>1. row'[p] # None => row[p] \in Nat /\ row'[p] = row[p] /\ row[p] # None
      BY <1>0, <2>2, Times
    <3> QED
      BY <1>0, <2>1, <2>4, <2>5, <3>1, Times DEF WaitInv, RowInv
  <2>7. row'[p] # None => sound' <= row'[p] + LockWait
    BY <1>0, <2>1, <2>2 DEF SoundInv
  <2> QED
    BY <1>0, <2>1, <2>2, <2>3, <2>4, <2>5, <2>6, <2>7, Times, MainFrame
<1>4. ASSUME Insert(p) PROVE BeatInv'
  <2>1. /\ phase[p] = "inserting" /\ phase' = [phase EXCEPT ![p] = "polling"]
        /\ waited' = [waited EXCEPT ![p] = 0] /\ row' = [row EXCEPT ![p] = stamp[p]]
        /\ due' = [due EXCEPT ![p] = Heartbeat]
        /\ UNCHANGED <<alive, stop, stamp, left, sound>>
    BY <1>4 DEF Insert, Goto
  <2>2. stamp[p] \in Nat /\ stamp[p] <= LockWait
    BY <1>0, <2>1, Times DEF WaitInv
  <2>3. stamp[p] \in Ages
    BY <2>2, Times
  <2>4. MainTypeOK'
    BY <1>0, <2>1, <2>3, Times DEF MainTypeOK
  <2>5. phase'[p] = "polling" /\ row'[p] = stamp[p] /\ due'[p] = Heartbeat
    BY <1>0, <2>1
  <2>6. (WaitInv(p) /\ RowInv(p))'
    BY <2>2, <2>5, Times DEF WaitInv, RowInv
  <2>7. row'[p] # None => sound' <= row'[p] + LockWait
    BY <1>0, <2>1, <2>5 DEF SoundInv
  <2> QED
    BY <1>0, <2>1, <2>4, <2>5, <2>6, <2>7, MainFrame
<1>5. ASSUME RemoveWatcher(p) \/ RemoveFails(p) \/ Kill(p) PROVE BeatInv'
  <2>1. /\ phase' = [phase EXCEPT ![p] = "down"] /\ waited' = [waited EXCEPT ![p] = 0]
        /\ row' = [row EXCEPT ![p] = None] /\ alive' = [alive EXCEPT ![p] = {}]
        /\ stop' = [stop EXCEPT ![p] = FALSE] /\ due' = [due EXCEPT ![p] = 0]
        /\ left' \in {left, row[p]} /\ (left' # left => row[p] # None)
        /\ UNCHANGED <<stamp, sound>>
    BY <1>5 DEF RemoveWatcher, RemoveFails, Kill, Exit, LeaveRow, Goto
  <2>2. MainTypeOK'
    BY <1>0, <2>1, Times DEF MainTypeOK
  <2>3. phase'[p] = "down" /\ row'[p] = None
    BY <1>0, <2>1
  <2>4. (WaitInv(p) /\ RowInv(p))'
    BY <2>3 DEF WaitInv, RowInv
  <2> QED
    BY <1>0, <2>1, <2>2, <2>3, <2>4, MainFrame
<1> QED
  BY <1>1, <1>2, <1>3, <1>4, <1>5 DEF MainStep, Trouble

LEMMA BeatHolds == Spec => []BeatInv
<1>1. BeatInv /\ [Next]_vars => BeatInv'
  <2>1. BeatInv /\ UNCHANGED mainVars => BeatInv'
    BY DEF mainVars, BeatInv, MainTypeOK, SoundInv, WaitInv, RowInv
  <2>2. UseStore \/ OpeningFails \/ UNCHANGED vars => UNCHANGED mainVars
    BY DEF UseStore, OpeningFails, vars
  <2> QED
    BY <2>1, <2>2, TickKeepsBeat, MainKeepsBeat DEF Next
<1> QED
  BY <1>1, BeatInit, PTL DEF Spec

\* The types of the database and of what the watchers keep.
THEOREM SupervisionTyped == Spec => []TypeOK
<1>1. StoreInv /\ BeatInv => TypeOK
  BY DEF StoreInv, BeatInv, MainTypeOK, TypeOK
<1> QED
  BY <1>1, StoreInvHolds, BeatHolds, PTL

\* A healthy verdict of watch-health is about a watcher that had all its threads not
\* long ago, for any number of watchers that overlap, fail, die and leave rows behind.
THEOREM HealthyMeansWatched == Spec => []HealthMeansWatched
<1>1. BeatInv => HealthMeansWatched
  BY Times DEF BeatInv, MainTypeOK, SoundInv, HealthMeansWatched, Healthy, Fresh
<1> QED
  BY <1>1, BeatHolds, PTL

\* With MAX_AGE as long as a heartbeat's interval and three waits for the database, a
\* watcher that runs is never found dead.
THEOREM RunningIsHealthy == Spec => []NoFalseAlarm
<1>1. ASSUME BeatInv, NEW p \in Watchers,
             phase[p] \in {"polling", "deleting", "inserting"}, row[p] # None
      PROVE  Fresh(row[p])
  <2>1. /\ row[p] \in Nat /\ due[p] \in Nat /\ waited[p] \in Nat
        /\ WaitInv(p) /\ RowInv(p)
    BY <1>1, Times DEF BeatInv, MainTypeOK
  <2>2. row[p] <= Heartbeat + 3 * LockWait
    <3>1. CASE phase[p] = "polling"
      BY <1>1, <2>1, <3>1, Times DEF RowInv
    <3>2. CASE phase[p] \in {"deleting", "inserting"}
      BY <1>1, <2>1, <3>2, Times DEF WaitInv, RowInv
    <3> QED
      BY <1>1, <3>1, <3>2
  <2> QED
    BY <1>1, <2>1, <2>2, Times DEF Fresh
<1>2. BeatInv => NoFalseAlarm
  BY <1>1 DEF NoFalseAlarm
<1> QED
  BY <1>2, BeatHolds, PTL
=============================================================================

--------------------------- MODULE WatchSupervision ---------------------------
(***************************************************************************)
(* The process `mailboxd watch` (run of watch.py) and what watch-health    *)
(* sees of it: the main thread looks every half second whether its threads *)
(* are alive, writes a heartbeat into the table "watchers" every           *)
(* HEARTBEAT_SECONDS, and ends the process when a thread died, so that the *)
(* container is restarted.  The main thread and the others open the        *)
(* database as Startup says, which other processes use, too.               *)
(*                                                                         *)
(* Ages stand for time stamps: they grow with every tick up to Old.  One   *)
(* tick is HEARTBEAT_SECONDS, which is SQLite's busy timeout, too; a poll  *)
(* is much shorter, so that no tick passes while one is due.               *)
(***************************************************************************)
EXTENDS Startup, FiniteSetsExt

CONSTANTS
  Watchers,      \* the processes that watch; the others use the database only
  Main,          \* the main thread
  \* in ticks; LockWait is the longest wait for a statement, and for the opening of
  \* the database before it
  Heartbeat, MaxAge, LockWait, JoinWait

ASSUME SupervisionAssumption ==
  /\ Watchers \subseteq Procs /\ Main \in Threads
  /\ Watchers \X Threads \subseteq Users
  /\ {Heartbeat, MaxAge, LockWait, JoinWait} \subseteq Nat
  /\ Heartbeat + 3 * LockWait <= MaxAge

VARIABLES
  phase,         \* where the main thread is in run
  alive,         \* the threads that have not died of an exception
  stop,          \* the event stop
  due,           \* ticks until next_heartbeat
  waited,        \* ticks the main thread has waited where it is
  stamp,         \* the age of the time the INSERT in hand carries
  row,           \* the age of the heartbeat of the process, or None
  left,          \* that of the youngest heartbeat a dead process left, or None
  \* history
  sound          \* ticks since a main thread found all its threads alive

mainVars == <<phase, alive, stop, due, waited, stamp, row, left, sound>>
vars == <<storeVars, mainVars>>

Others == Threads \ {Main}
Old == MaxAge + LockWait + 1
Ages == 0..Old
Aged(x) == IF x = None THEN None ELSE Min({x + 1, Old})
Fresh(x) == x # None /\ x <= MaxAge

Init ==
  /\ StoreInit
  /\ phase = [p \in Watchers |-> "down"]
  /\ alive = [p \in Watchers |-> {}]
  /\ stop = [p \in Watchers |-> FALSE]
  /\ due = [p \in Watchers |-> 0]
  /\ waited = [p \in Watchers |-> 0]
  /\ stamp = [p \in Watchers |-> 0]
  /\ row = [p \in Watchers |-> None]
  /\ left = None
  /\ sound = Old

Goto(p, from, to) ==
  /\ phase[p] = from
  /\ phase' = [phase EXCEPT ![p] = to]
  /\ waited' = [waited EXCEPT ![p] = 0]

\* The processes and threads that use the database beside the main threads.
UseStore ==
  /\ \/ \E c \in Users :
          /\ c[1] \in Watchers => phase[c[1]] # "down" /\ c[2] \in alive[c[1]]
          /\ Call(c) \/ Return(c)
     \/ \E c \in Users : Ensure(c)
     \/ \E p \in Procs \ Watchers : Vanish(p)
  /\ UNCHANGED mainVars

OpeningFails ==
  /\ \E c \in Users : FailToOpen(c)
  /\ UNCHANGED mainVars

-----------------------------------------------------------------------------
(* run                                                                     *)

Launch(p) ==
  /\ Goto(p, "down", "polling")
  /\ alive' = [alive EXCEPT ![p] = Others]
  /\ UNCHANGED <<storeVars, stop, due, stamp, row, left, sound>>

\* An exception that watch_mailbox or _delivery_loop does not catch.
ThreadDies(p, t) ==
  /\ phase[p] # "down" /\ t \in alive[p]
  /\ at[<<p, t>>] \in {"idle", "using", "failed"}
  /\ at' = [at EXCEPT ![<<p, t>>] = "idle"]
  /\ alive' = [alive EXCEPT ![p] = @ \ {t}]
  /\ UNCHANGED <<dbVars, held, ready, phase, stop, due, waited, stamp, row, left, sound>>

\* SIGTERM.
Terminate(p) ==
  /\ phase[p] # "down" /\ ~ stop[p]
  /\ stop' = [stop EXCEPT ![p] = TRUE]
  /\ UNCHANGED <<storeVars, phase, alive, due, waited, stamp, row, left, sound>>

\* Fault: the threads are not looked at.
LeaveStopped(p) ==
  /\ Goto(p, "polling", "joining")
  /\ stop[p]
  /\ UNCHANGED <<storeVars, alive, stop, due, stamp, row, left, sound>>

\* Out of the loop, because stop is set or a thread is dead.
Leave(p) ==
  /\ Goto(p, "polling", "joining")
  /\ stop[p] \/ alive[p] # Others
  /\ stop' = [stop EXCEPT ![p] = TRUE]
  /\ UNCHANGED <<storeVars, alive, due, stamp, row, left, sound>>

\* Fault: the heartbeat comes before the look at the threads.
StartBeatFirst(p) ==
  /\ Goto(p, "polling", "deleting")
  /\ ~ stop[p] /\ due[p] = 0
  /\ Call(<<p, Main>>)
  /\ sound' = IF alive[p] = Others THEN 0 ELSE sound
  /\ UNCHANGED <<alive, stop, due, stamp, row, left>>

StartBeat(p) ==
  /\ Goto(p, "polling", "deleting")
  /\ ~ stop[p] /\ alive[p] = Others /\ due[p] = 0
  /\ Call(<<p, Main>>)
  /\ sound' = 0
  /\ UNCHANGED <<alive, stop, due, stamp, row, left>>

Kept(x) == IF Fresh(x) THEN x ELSE None

\* watcher_heartbeat: the old rows, of whatever process, and then the time for the
\* new one.
DeleteOld(p) ==
  /\ Goto(p, "deleting", "inserting")
  /\ at[<<p, Main>>] = "using"
  /\ row' = [q \in Watchers |-> Kept(row[q])]
  /\ left' = Kept(left)
  /\ stamp' = [stamp EXCEPT ![p] = 0]
  /\ UNCHANGED <<storeVars, alive, stop, due, sound>>

\* Fault: the next heartbeat is due when this one has become old.
InsertRarely(p) ==
  /\ Goto(p, "inserting", "polling")
  /\ row' = [row EXCEPT ![p] = stamp[p]]
  /\ due' = [due EXCEPT ![p] = MaxAge]
  /\ Return(<<p, Main>>)
  /\ UNCHANGED <<alive, stop, stamp, left, sound>>

Insert(p) ==
  /\ Goto(p, "inserting", "polling")
  /\ row' = [row EXCEPT ![p] = stamp[p]]
  /\ due' = [due EXCEPT ![p] = Heartbeat]
  /\ Return(<<p, Main>>)
  /\ UNCHANGED <<alive, stop, stamp, left, sound>>

\* A statement fails, or the database could not be opened: the finally clause.
BeatFails(p) ==
  /\ Goto(p, phase[p], "joining")
  /\ phase[p] \in {"deleting", "inserting"}
  /\ Return(<<p, Main>>)
  /\ stop' = [stop EXCEPT ![p] = TRUE]
  /\ UNCHANGED <<alive, due, stamp, row, left, sound>>

\* Every thread is waited for, some in vain.
Join(p) ==
  /\ Goto(p, "joining", "removing")
  /\ Call(<<p, Main>>)
  /\ UNCHANGED <<alive, stop, due, stamp, row, left, sound>>

\* The row of a process that is gone without remove_watcher stays.
LeaveRow(p) ==
  left' = IF row[p] # None /\ (left = None \/ row[p] < left) THEN row[p] ELSE left

Exit(p) ==
  /\ Goto(p, phase[p], "down")
  /\ Vanish(p)
  /\ row' = [row EXCEPT ![p] = None]
  /\ alive' = [alive EXCEPT ![p] = {}]
  /\ stop' = [stop EXCEPT ![p] = FALSE]
  /\ due' = [due EXCEPT ![p] = 0]
  /\ UNCHANGED <<stamp, sound>>

RemoveWatcher(p) ==
  /\ phase[p] = "removing" /\ at[<<p, Main>>] = "using"
  /\ Exit(p)
  /\ UNCHANGED left

RemoveFails(p) ==
  /\ phase[p] = "removing" /\ at[<<p, Main>>] \in {"using", "failed"}
  /\ Exit(p)
  /\ LeaveRow(p)

Kill(p) ==
  /\ phase[p] # "down"
  /\ Exit(p)
  /\ LeaveRow(p)

-----------------------------------------------------------------------------
\* What the main thread does at once, and how long it waits at most elsewhere.
Idles(p) ==
  CASE phase[p] = "polling" -> ~ stop[p] /\ alive[p] = Others /\ due[p] > 0
    [] phase[p] \in {"deleting", "inserting", "removing"} -> waited[p] < LockWait
    [] phase[p] = "joining" -> waited[p] < JoinWait
    [] OTHER -> TRUE

\* A row that a dead process left counts for nothing once it is old, deleted or not.
Tick ==
  /\ \A p \in Watchers : Idles(p)
  /\ due' = [p \in Watchers |-> IF due[p] > 0 THEN due[p] - 1 ELSE 0]
  /\ waited' = [p \in Watchers |->
                  IF phase[p] \in {"polling", "down"} THEN 0 ELSE waited[p] + 1]
  /\ stamp' = [p \in Watchers |-> IF phase[p] = "inserting" THEN stamp[p] + 1 ELSE 0]
  /\ row' = [p \in Watchers |-> Aged(row[p])]
  /\ left' = Kept(Aged(left))
  /\ sound' = Aged(sound)
  /\ UNCHANGED <<storeVars, phase, alive, stop>>

MainStep(p) ==
  \/ Leave(p) \/ StartBeat(p) \/ DeleteOld(p) \/ Insert(p) \/ Join(p) \/ RemoveWatcher(p)
  \/ at[<<p, Main>>] = "failed" /\ (BeatFails(p) \/ RemoveFails(p))

Trouble(p) ==
  \/ \E t \in Others : ThreadDies(p, t)
  \/ Terminate(p) \/ BeatFails(p) \/ RemoveFails(p) \/ Kill(p)

Next ==
  \/ UseStore \/ OpeningFails \/ Tick
  \/ \E p \in Watchers : Launch(p) \/ MainStep(p) \/ Trouble(p)

Spec == Init /\ [][Next]_vars

\* A thread that opens the database gets on: it gets the lock of the process in the
\* end, for the others that use the database pause a second, and BEGIN IMMEDIATE gets
\* the write lock or gives up.
Opens(c) ==
  /\ Ensure(c) \/ (at[c] = "beginning" /\ FailToOpen(c))
  /\ UNCHANGED mainVars
Locks(c) == Lock(c) /\ UNCHANGED mainVars

\* Besides, the main thread keeps running.
Fairness ==
  /\ \A p \in Watchers : WF_vars(MainStep(p))
  /\ \A c \in Users : WF_vars(Opens(c)) /\ SF_vars(Locks(c))

FairSpec == Spec /\ Fairness

-----------------------------------------------------------------------------
(* Properties.                                                             *)

TypeOK ==
  /\ StoreTypeOK
  /\ phase \in [Watchers -> {"down", "polling", "deleting", "inserting", "joining", "removing"}]
  /\ alive \in [Watchers -> SUBSET Others]
  /\ stop \in [Watchers -> BOOLEAN]
  /\ due \in [Watchers -> 0..Heartbeat]
  /\ waited \in [Watchers -> Nat] /\ stamp \in [Watchers -> Nat]
  /\ row \in [Watchers -> Ages \cup {None}] /\ left \in Ages \cup {None} /\ sound \in Ages

\* watcher_healthy.
Healthy == Fresh(left) \/ \E p \in Watchers : Fresh(row[p])

(***************************************************************************)
(* When watch-health says that all is well, some watcher had all its       *)
(* threads alive no longer than MaxAge ago, give or take the wait of one   *)
(* statement: no heartbeat is written after a thread has died.             *)
(***************************************************************************)
HealthMeansWatched == Healthy => sound <= MaxAge + LockWait

(***************************************************************************)
(* A watcher that runs is never reported dead: its heartbeat is not too    *)
(* old, also when every statement waits for the database as long as it     *)
(* may.                                                                    *)
(***************************************************************************)
NoFalseAlarm ==
  \A p \in Watchers :
    phase[p] \in {"polling", "deleting", "inserting"} /\ row[p] # None => Fresh(row[p])

(***************************************************************************)
(* The death of one thread ends the process (watch.py, run), so that it is *)
(* started again, whatever the main thread was doing.                      *)
(***************************************************************************)
DeadThreadEndsProcess ==
  \A p \in Watchers :
    phase[p] # "down" /\ alive[p] # Others ~> phase[p] = "down"

(***************************************************************************)
(* Once troubles cease, a container that is started again (its restart     *)
(* policy is unless-stopped) is soon reported healthy for good, unless the *)
(* database is of a newer release.                                         *)
(***************************************************************************)
Recovers ==
  (/\ <>[][~ OpeningFails /\ \A p \in Watchers : Trouble(p) => MainStep(p)]_vars
   /\ WF_vars(Tick) /\ \A p \in Watchers : WF_vars(Launch(p)))
  => <>[](Healthy \/ \E p \in Watchers : user_version > Schema[p])
=============================================================================

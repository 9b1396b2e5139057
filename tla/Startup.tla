-------------------------------- MODULE Startup --------------------------------
(***************************************************************************)
(* How the processes that share the state database open it (State._conn    *)
(* and State._ensure of state.py): HTTP workers and watchers, perhaps of   *)
(* different releases while a deployment is under way, each with several   *)
(* threads.  The first use in a process brings the schema up to date; all  *)
(* the statements run in one transaction under SQLite's write lock.        *)
(***************************************************************************)
EXTENDS Integers, Sequences

CONSTANTS
  Procs, Threads,
  Users,         \* the threads of the processes that use the database
  Schema,        \* len(_SCHEMA) of the release each process runs
  Created,       \* the versions the file may have when the system starts
  None

ASSUME StartupAssumption ==
  /\ Schema \in [Procs -> Nat \ {0}]
  /\ Created \subseteq Nat
  /\ Users \subseteq Procs \X Threads
  /\ None \notin Users /\ None \notin Threads

VARIABLES
  \* the database
  user_version,
  applied,       \* the steps of the schema its tables have been through
  writer,        \* who has the write lock, or None
  staged,        \* the steps of the open transaction
  \* the processes
  at,            \* where each thread is
  held,          \* the thread that has the lock of the process, or None
  ready          \* _ready

storeVars == <<user_version, applied, writer, staged, at, held, ready>>
dbVars == <<user_version, applied, writer, staged>>

Steps(from, to) == [i \in 1..to - from |-> from + i]

StoreInit ==
  /\ user_version \in Created
  /\ applied = Steps(0, user_version)
  /\ writer = None
  /\ staged = <<>>
  /\ at = [c \in Users |-> "idle"]
  /\ held = [p \in Procs |-> None]
  /\ ready = [p \in Procs |-> FALSE]

Walk(c, from, to) == at[c] = from /\ at' = [at EXCEPT ![c] = to]
Unlock(p) == held' = [held EXCEPT ![p] = None]

\* The connection is closed: whatever transaction it had is rolled back.
Closed(c) ==
  /\ writer' = IF writer = c THEN None ELSE writer
  /\ staged' = IF writer = c THEN <<>> ELSE staged

-----------------------------------------------------------------------------
\* A method of State is called: once the process is ready it goes straight on.
Call(c) ==
  /\ Walk(c, "idle", IF ready[c[1]] THEN "using" ELSE "locking")
  /\ UNCHANGED <<dbVars, held, ready>>

\* with self._lock, and _ready is read again.
Lock(c) ==
  /\ held[c[1]] = None
  /\ IF ready[c[1]]
     THEN Walk(c, "locking", "using") /\ UNCHANGED held
     ELSE Walk(c, "locking", "opening") /\ held' = [held EXCEPT ![c[1]] = c[2]]
  /\ UNCHANGED <<dbVars, ready>>

\* The directory, the file and WAL mode, for which it retries.
Open(c) ==
  /\ Walk(c, "opening", "beginning")
  /\ UNCHANGED <<dbVars, held, ready>>

\* BEGIN IMMEDIATE.
BeginImmediate(c) ==
  /\ Walk(c, "beginning", "checking")
  /\ writer = None
  /\ writer' = c
  /\ UNCHANGED <<user_version, applied, staged, held, ready>>

AcceptVersion(c) ==
  /\ Walk(c, "checking", "migrating")
  /\ user_version <= Schema[c[1]]
  /\ UNCHANGED <<dbVars, held, ready>>

\* The database is of a newer release: RuntimeError.
RejectVersion(c) ==
  /\ Walk(c, "checking", "failed")
  /\ user_version > Schema[c[1]]
  /\ Closed(c) /\ Unlock(c[1])
  /\ UNCHANGED <<user_version, applied, ready>>

\* Fault: each step is committed on its own, without the number that goes with it.
CommitStep(c) ==
  /\ at[c] = "migrating"
  /\ user_version + Len(staged) < Schema[c[1]]
  /\ staged' = Append(staged, user_version + Len(staged) + 1)
  /\ applied' = Append(applied, user_version + Len(staged) + 1)
  /\ UNCHANGED <<user_version, writer, at, held, ready>>

\* The statements of the next step, and its PRAGMA user_version.
Migrate(c) ==
  /\ at[c] = "migrating"
  /\ user_version + Len(staged) < Schema[c[1]]
  /\ staged' = Append(staged, user_version + Len(staged) + 1)
  /\ UNCHANGED <<user_version, applied, writer, at, held, ready>>

Commit(c) ==
  /\ Walk(c, "migrating", "marking")
  /\ user_version + Len(staged) >= Schema[c[1]]
  /\ user_version' = user_version + Len(staged)
  /\ applied' = applied \o staged
  /\ writer' = None /\ staged' = <<>>
  /\ UNCHANGED <<held, ready>>

\* Fault: _ready is set as soon as the lock is had.
MarkEarly(c) ==
  /\ at[c] \in {"beginning", "marking"}
  /\ at' = [at EXCEPT ![c] = "using"]
  /\ ready' = [ready EXCEPT ![c[1]] = TRUE]
  /\ Unlock(c[1])
  /\ UNCHANGED dbVars

MarkReady(c) ==
  /\ Walk(c, "marking", "using")
  /\ ready' = [ready EXCEPT ![c[1]] = TRUE]
  /\ Unlock(c[1])
  /\ UNCHANGED dbVars

\* Fault: the lock of the process is kept by a thread that failed.
FailLocked(c) ==
  /\ at[c] \in {"opening", "beginning", "checking", "migrating"}
  /\ at' = [at EXCEPT ![c] = "failed"]
  /\ Closed(c)
  /\ UNCHANGED <<user_version, applied, held, ready>>

\* The file cannot be had, the write lock is not free within the busy timeout, or
\* a statement fails: ROLLBACK, close, raise.
FailToOpen(c) ==
  /\ at[c] \in {"opening", "beginning", "checking", "migrating"}
  /\ at' = [at EXCEPT ![c] = "failed"]
  /\ Closed(c) /\ Unlock(c[1])
  /\ UNCHANGED <<user_version, applied, ready>>

\* The method returns to its caller, or raises there.
Return(c) ==
  /\ at[c] \in {"using", "failed"}
  /\ at' = [at EXCEPT ![c] = "idle"]
  /\ UNCHANGED <<dbVars, held, ready>>

\* The process ends, killed or not; it may be started again.
Vanish(p) ==
  /\ at' = [c \in Users |-> IF c[1] = p THEN "idle" ELSE at[c]]
  /\ Unlock(p)
  /\ ready' = [ready EXCEPT ![p] = FALSE]
  /\ IF writer # None /\ writer[1] = p
     THEN writer' = None /\ staged' = <<>> ELSE UNCHANGED <<writer, staged>>
  /\ UNCHANGED <<user_version, applied>>

Ensure(c) ==
  \/ Lock(c) \/ Open(c) \/ BeginImmediate(c) \/ AcceptVersion(c) \/ RejectVersion(c)
  \/ Migrate(c) \/ Commit(c) \/ MarkReady(c)

StoreNext ==
  \/ \E c \in Users : Call(c) \/ Ensure(c) \/ FailToOpen(c) \/ Return(c)
  \/ \E p \in Procs : Vanish(p)

StoreSpec == StoreInit /\ [][StoreNext]_storeVars

-----------------------------------------------------------------------------
(* Properties.                                                             *)

Migrating == {"checking", "migrating"}

Locked == {"opening", "beginning", "marking"} \cup Migrating

\* The types; a thread has the write lock exactly while it migrates, and that of
\* its process exactly while it opens the database.
StoreTypeOK ==
  /\ user_version \in Nat
  /\ applied \in Seq(Nat) /\ staged \in Seq(Nat)
  /\ writer \in Users \cup {None}
  /\ at \in [Users -> {"idle", "locking", "using", "failed"} \cup Locked]
  /\ held \in [Procs -> Threads \cup {None}]
  /\ ready \in [Procs -> BOOLEAN]
  /\ \A c \in Users : writer = c <=> at[c] \in Migrating
  /\ \A c \in Users : held[c[1]] = c[2] <=> at[c] \in Locked

(***************************************************************************)
(* Every step of the schema has been applied exactly once, in order, and   *)
(* as many as user_version says, whatever processes, threads and crashes   *)
(* come between the version that is read and the statements it selects     *)
(* (docs/operations.md: "Schema migrations run transactionally").          *)
(***************************************************************************)
MigratedOnce ==
  /\ Len(applied) = user_version
  /\ \A i \in DOMAIN applied : applied[i] = i

(***************************************************************************)
(* No thread works on tables that its release does not find there: who is  *)
(* past _ensure has a schema at least as new as its own, also when another *)
(* thread of its process failed or another process migrated meanwhile.     *)
(***************************************************************************)
NoUseBeforeSchema ==
  \A c \in Users : at[c] = "using" => user_version >= Schema[c[1]]
=============================================================================

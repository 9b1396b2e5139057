---------------------------- MODULE WatchDiscovery ----------------------------
(***************************************************************************)
(* The discovery half of `mailboxd watch` (watch.py): the threads that     *)
(* watch one mailbox, the folder on the IMAP server that other clients and *)
(* the mail transport change meanwhile, and the table "cursors" with the   *)
(* notifications that enqueue_notifications commits together with it.  A   *)
(* second watcher exists while a deployment overlaps.                      *)
(*                                                                         *)
(* The notifications are kept as the set of the messages that have one:    *)
(* their rows (one per recipient) are DeliveryQueue's subject, and the     *)
(* event identifier is a hash of exactly (mailbox, folder, UIDVALIDITY,    *)
(* UID), so that inserting them again changes nothing.                     *)
(***************************************************************************)
EXTENDS Integers, FiniteSets, FiniteSetsExt

CONSTANTS
  Watchers,      \* the watcher threads of the mailbox
  MaxUid,        \* bound: UIDs the server hands out under one UIDVALIDITY
  MaxValidity,   \* bound: values UIDVALIDITY takes
  FirstRun,      \* whether the state volume starts without a cursor
  None           \* no row, or no value yet

ASSUME DiscoveryAssumption ==
  /\ MaxUid \in Nat
  /\ MaxValidity \in Nat \ {0}
  /\ FirstRun \in BOOLEAN

VARIABLES
  \* the folder on the server
  uidvalidity, uidnext,
  present,       \* the UIDs of its messages
  \* the state store
  cursor,        \* the watch cursor of this mailbox and folder
  queued,        \* the messages with notifications, as <<UIDVALIDITY, UID>>
  \* the watcher threads
  pc,            \* where the thread is in watch_mailbox
  selected,      \* the UIDVALIDITY its SELECT returned
  told,          \* the highest UID the server announced to its session
  last_uid,      \* the local last_uid of process_new (the top of _current before)
  new,           \* the UIDs that process_new has yet to notify
  \* history
  baseline       \* per UIDVALIDITY, the position notifications start after

serverVars == <<uidvalidity, uidnext, present>>
storeVars == <<cursor, queued>>
threadVars == <<pc, selected, told, last_uid, new>>
vars == <<uidvalidity, uidnext, present, cursor, queued,
          pc, selected, told, last_uid, new, baseline>>

Validities == 1..MaxValidity
Uids == 1..MaxUid
Cursors == [uidvalidity : Validities, last_uid : 0..MaxUid]
ASSUME NoneAssumption == None \notin Cursors /\ None \notin Nat
Places == {"offline", "selecting", "reconciling", "baselining", "searching",
           "fetching", "storing", "waiting", "draining"}

Top(uids) == Max(uids \cup {0})

Init ==
  /\ uidvalidity = 1
  /\ uidnext = 1
  /\ present = {}
  /\ cursor = IF FirstRun THEN None ELSE [uidvalidity |-> 1, last_uid |-> 0]
  /\ queued = {}
  /\ pc = [w \in Watchers |-> "offline"]
  /\ selected = [w \in Watchers |-> None]
  /\ told = [w \in Watchers |-> 0]
  /\ last_uid = [w \in Watchers |-> 0]
  /\ new = [w \in Watchers |-> {}]
  /\ baseline = [v \in Validities |-> IF v = 1 /\ ~FirstRun THEN 0 ELSE None]

-----------------------------------------------------------------------------
(* The server's folder, changed by others.                                 *)

Arrive ==
  /\ uidnext <= MaxUid
  /\ present' = present \cup {uidnext}
  /\ uidnext' = uidnext + 1
  /\ UNCHANGED <<uidvalidity, storeVars, threadVars, baseline>>

Expunge(u) ==
  /\ u \in present
  /\ present' = present \ {u}
  /\ UNCHANGED <<uidvalidity, uidnext, storeVars, threadVars, baseline>>

\* The folder is created anew or renumbered: another UIDVALIDITY, and as many
\* messages as the server then has in it, numbered from 1.
Renumber ==
  /\ uidvalidity < MaxValidity
  /\ uidvalidity' = uidvalidity + 1
  /\ \E n \in 0..Cardinality(present) :
       present' = 1..n /\ uidnext' = n + 1
  /\ UNCHANGED <<storeVars, threadVars, baseline>>

-----------------------------------------------------------------------------
(* watch_mailbox: connect, check the folder, wait, check again.            *)

Step(w, from, to) ==
  /\ pc[w] = from
  /\ pc' = [pc EXCEPT ![w] = to]

\* A session opened before the folder was renumbered is of no use any more.
Live(w) == selected[w] = uidvalidity

Connect(w) ==
  /\ Step(w, "offline", "selecting")
  /\ UNCHANGED <<serverVars, storeVars, selected, told, last_uid, new, baseline>>

\* _current: SELECT, then SEARCH ALL.
Current(w) ==
  /\ Step(w, "selecting", "reconciling")
  /\ selected' = [selected EXCEPT ![w] = uidvalidity]
  /\ last_uid' = [last_uid EXCEPT ![w] = Top(present)]
  /\ told' = [told EXCEPT ![w] = uidnext - 1]
  /\ UNCHANGED <<serverVars, storeVars, new, baseline>>

\* Fault: a cursor is taken for granted whatever numbering it is of.
KnownWhatever(w) == cursor # None

\* check_folder reads the cursor; it is of this numbering or there is none.
Known(w) == cursor # None /\ cursor.uidvalidity = selected[w]

Resume(w) ==
  /\ Step(w, "reconciling", "searching")
  /\ Known(w)
  /\ last_uid' = [last_uid EXCEPT ![w] = cursor.last_uid]
  /\ UNCHANGED <<serverVars, storeVars, selected, told, new, baseline>>

StartFromNow(w) ==
  /\ Step(w, "reconciling", "baselining")
  /\ ~Known(w)
  /\ UNCHANGED <<serverVars, storeVars, selected, told, last_uid, new, baseline>>

\* set_cursor, in a transaction of its own.
SetCursor(w) ==
  /\ Step(w, "baselining", "waiting")
  /\ cursor' = [uidvalidity |-> selected[w], last_uid |-> last_uid[w]]
  /\ baseline' = [baseline EXCEPT ![selected[w]] =
                    IF @ = None THEN last_uid[w] ELSE @]
  /\ UNCHANGED <<serverVars, queued, selected, told, last_uid, new>>

\* process_new: SEARCH UID last_uid+1:*, without the highest UID it may return
\* although it is lower.
Unseen(uids, last) == {u \in uids : u > last}

SearchNew(w) ==
  /\ Live(w)
  /\ LET found == Unseen(present, last_uid[w])
     IN /\ Step(w, "searching", IF found = {} THEN "waiting" ELSE "fetching")
        /\ new' = [new EXCEPT ![w] = found]
  /\ told' = [told EXCEPT ![w] = uidnext - 1]
  /\ UNCHANGED <<serverVars, storeVars, selected, last_uid, baseline>>

\* fetch_message of the next UID; the server may announce new mail beside the
\* answer, which imaplib sets aside.
FetchHeader(w) ==
  /\ Step(w, "fetching", "storing")
  /\ Live(w)
  /\ Min(new[w]) \in present
  /\ told' \in {told, [told EXCEPT ![w] = uidnext - 1]}
  /\ UNCHANGED <<serverVars, storeVars, selected, last_uid, new, baseline>>

\* Fault: the upsert without MAX.
Overwritten(cur, validity, uid) == [uidvalidity |-> validity, last_uid |-> uid]

\* The cursor row after the upsert of enqueue_notifications.
Advanced(cur, validity, uid) ==
  [uidvalidity |-> validity,
   last_uid |-> IF cur # None /\ cur.uidvalidity = validity
                THEN Max({cur.last_uid, uid}) ELSE uid]

\* Fault: the checkpoint moves past the whole batch with its first message.
EnqueueBatch(w) ==
  LET uid == Min(new[w])
  IN /\ Step(w, "storing", IF new[w] = {uid} THEN "waiting" ELSE "fetching")
     /\ queued' = queued \cup {<<selected[w], uid>>}
     /\ cursor' = Advanced(cursor, selected[w], Max(new[w]))
     /\ last_uid' = [last_uid EXCEPT ![w] = uid]
     /\ new' = [new EXCEPT ![w] = @ \ {uid}]
     /\ UNCHANGED <<serverVars, selected, told, baseline>>

\* enqueue_notifications: the rows and the cursor in one transaction.
EnqueueNotifications(w) ==
  LET uid == Min(new[w])
  IN /\ Step(w, "storing", IF new[w] = {uid} THEN "waiting" ELSE "fetching")
     /\ queued' = queued \cup {<<selected[w], uid>>}
     /\ cursor' = Advanced(cursor, selected[w], uid)
     /\ last_uid' = [last_uid EXCEPT ![w] = uid]
     /\ new' = [new EXCEPT ![w] = @ \ {uid}]
     /\ UNCHANGED <<serverVars, selected, told, baseline>>

\* idle_wait returns because the server announced new mail.
IdleWake(w) ==
  /\ Step(w, "waiting", "selecting")
  /\ Live(w)
  /\ told[w] < uidnext - 1
  /\ UNCHANGED <<serverVars, storeVars, selected, told, last_uid, new, baseline>>

\* Fault: IDLE is issued again without a look at the folder.
ReissueBlindly(w) ==
  /\ Step(w, "waiting", "waiting")
  /\ UNCHANGED <<serverVars, storeVars, selected, told, last_uid, new, baseline>>

\* idle_wait returns because of IDLE_REISSUE_SECONDS or an untagged EXPUNGE or
\* FETCH; without IDLE, poll_seconds have passed.
Reissue(w) ==
  /\ Step(w, "waiting", "selecting")
  /\ UNCHANGED <<serverVars, storeVars, selected, told, last_uid, new, baseline>>

\* The session ends and the thread connects again: nothing local survives.
Drop(w) ==
  /\ pc' = [pc EXCEPT ![w] = "offline"]
  /\ selected' = [selected EXCEPT ![w] = None]
  /\ told' = [told EXCEPT ![w] = 0]
  /\ last_uid' = [last_uid EXCEPT ![w] = 0]
  /\ new' = [new EXCEPT ![w] = {}]
  /\ UNCHANGED <<serverVars, storeVars, baseline>>

\* The message is gone when its header is fetched (fetch_raw raises), or the
\* folder was renumbered under the session and the server refuses the command.
RequestFails(w) ==
  /\ \/ pc[w] \in {"searching", "fetching"} /\ ~Live(w)
     \/ pc[w] = "fetching" /\ Min(new[w]) \notin present
  /\ Drop(w)

\* The connection breaks with an error, a transaction fails (its exception ends
\* the thread, and with it the process), or the process is killed; it is started
\* again.
Disconnect(w) ==
  /\ pc[w] # "offline"
  /\ Drop(w)

\* The server closes the connection in good order during IDLE.  readline then
\* returns b"" without an error, so idle_wait reads for the tagged line for ever;
\* only the end of the process gets the thread out of there.
CloseInIdle(w) ==
  /\ Step(w, "waiting", "draining")
  /\ UNCHANGED <<serverVars, storeVars, selected, told, last_uid, new, baseline>>

-----------------------------------------------------------------------------

Progress(w) ==
  \/ Connect(w) \/ Current(w) \/ Resume(w) \/ StartFromNow(w) \/ SetCursor(w)
  \/ SearchNew(w) \/ FetchHeader(w) \/ EnqueueNotifications(w)
  \/ RequestFails(w) \/ IdleWake(w) \/ Reissue(w)

\* Everything but the orderly close of a connection in IDLE.
Steady ==
  \/ Arrive \/ Renumber
  \/ \E u \in Uids : Expunge(u)
  \/ \E w \in Watchers : Progress(w) \/ Disconnect(w)

Next == Steady \/ \E w \in Watchers : CloseInIdle(w)

Spec == Init /\ [][Next]_vars

\* A watcher thread keeps running (IDLE is reissued, a failed connection is tried
\* again), and connections stop breaking, except that requests may be refused.
Calm ==
  /\ \A w \in Watchers : WF_vars(Progress(w))
  /\ <>[][\A w \in Watchers : Disconnect(w) => RequestFails(w)]_vars

FairSpec == Spec /\ Calm

\* Besides, no server closes a connection in good order during IDLE: it may have no
\* IDLE, so that the thread polls.
NoCloseSpec == Init /\ [][Steady]_vars /\ Calm

-----------------------------------------------------------------------------
(* Properties                                                              *)

\* The types of the folder, the cursor row, the threads and the history.
TypeOK ==
  /\ uidvalidity \in Validities
  /\ uidnext \in 1..MaxUid + 1
  /\ present \in SUBSET (1..uidnext - 1)
  /\ cursor \in Cursors \cup {None}
  /\ queued \in SUBSET (Validities \X Uids)
  /\ pc \in [Watchers -> Places]
  /\ selected \in [Watchers -> Validities \cup {None}]
  /\ told \in [Watchers -> 0..MaxUid]
  /\ last_uid \in [Watchers -> 0..MaxUid]
  /\ new \in [Watchers -> SUBSET Uids]
  /\ baseline \in [Validities -> 0..MaxUid \cup {None}]

\* A message the watch is to announce: it came after the watch began with this
\* numbering of the folder.
Awaited(v, u) == baseline[v] # None /\ u > baseline[v]

\* The checkpoint never moves past a message that is in the folder and has no
\* notification, whatever crashes, reconnections, deletions, renumberings and
\* other watchers come between the search and the commit (enqueue_notifications
\* keeps rows and cursor together, check_folder starts over on a renumbering).
NeverSkips ==
  cursor # None /\ cursor.uidvalidity = uidvalidity =>
    \A u \in present :
      Awaited(uidvalidity, u) /\ u <= cursor.last_uid
        => <<uidvalidity, u>> \in queued

\* Mail that was there before the watch began, or when the server renumbered the
\* folder, is never announced (check_folder's first branch).
NoHistoryReplayed == \A m \in queued : Awaited(m[1], m[2])

\* Within one numbering the checkpoint never moves back, also when two watchers
\* store their messages in any order (the MAX of the upsert).
OnlyForward ==
  [][ /\ cursor # None /\ cursor'.uidvalidity = cursor.uidvalidity
      => cursor'.last_uid >= cursor.last_uid]_cursor

\* Every message that arrives while the folder is watched is notified in the end,
\* unless it is deleted or renumbered first, even when its announcement was
\* swallowed before IDLE began.
EventuallyQueued ==
  \A v \in Validities, u \in Uids :
    uidvalidity = v /\ u \in present /\ Awaited(v, u) ~>
      <<v, u>> \in queued \/ u \notin present \/ uidvalidity # v
=============================================================================

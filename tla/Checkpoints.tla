------------------------------ MODULE Checkpoints -----------------------------
(***************************************************************************)
(* Reading "new mail only" with a named checkpoint: inbox and search of    *)
(* services.py, for one token, name, mailbox and folder.  Calls that use   *)
(* the checkpoint may run at once, in any worker process: each reads the   *)
(* cursor, asks the IMAP server in a session of its own (in two, if the    *)
(* folder was renumbered) and then stores its position without comparing   *)
(* it with what is there.  All of them ask for the same mail.              *)
(***************************************************************************)
EXTENDS SearchPage

CONSTANTS
  Readers,       \* the callers; each makes one call after the other
  MaxUid,        \* bound: UIDs the server hands out under one UIDVALIDITY
  MaxValidity,   \* bound: values UIDVALIDITY takes
  Limit          \* the page size

ASSUME CheckpointsAssumption ==
  /\ MaxUid \in Nat
  /\ MaxValidity \in Nat \ {0}
  /\ Limit \in Nat \ {0}

VARIABLES
  \* the folder on the server
  uidvalidity, uidnext,
  kind,          \* per UID: no match or no message, a match, a match to be listed
  \* the state store
  cursor,
  \* the calls
  pc,            \* where the call is
  pos,           \* the position it read
  result,        \* the page it got
  \* history
  given,         \* the UIDs, as numbered now, on pages whose position was stored
  baseline,      \* the highest position, as numbered now, of a call that found none
  overtaken      \* another call stored its position since this one read the cursor

folderVars == <<uidvalidity, uidnext, kind>>
callVars == <<pc, pos, result>>
historyVars == <<given, baseline, overtaken>>
vars == <<uidvalidity, uidnext, kind, cursor, pc, pos, result,
          given, baseline, overtaken>>

Uids == 1..MaxUid
Validities == 1..MaxValidity
Kinds == {"none", "filtered", "wanted"}
Cursors == [uidvalidity : Validities, last_uid : 0..MaxUid]
Results == [page : SUBSET Uids, next : Cursors]

found == {u \in Uids : kind[u] # "none"}
wanted == {u \in Uids : kind[u] = "wanted"}

Init ==
  /\ uidvalidity = 1
  /\ uidnext = 1
  /\ kind = [u \in Uids |-> "none"]
  /\ cursor = None
  /\ pc = [r \in Readers |-> "idle"]
  /\ pos = [r \in Readers |-> None]
  /\ result = [r \in Readers |-> None]
  /\ given = {}
  /\ baseline = 0
  /\ overtaken = [r \in Readers |-> FALSE]

-----------------------------------------------------------------------------
(* The folder, changed by others.                                          *)

Arrive(k) ==
  /\ uidnext <= MaxUid
  /\ uidnext' = uidnext + 1
  /\ kind' = [kind EXCEPT ![uidnext] = k]
  /\ UNCHANGED <<uidvalidity, cursor, callVars, historyVars>>

Expunge(u) ==
  /\ u \in found
  /\ kind' = [kind EXCEPT ![u] = "none"]
  /\ UNCHANGED <<uidvalidity, uidnext, cursor, callVars, historyVars>>

\* Another UIDVALIDITY, and some of the messages, numbered from 1.
Renumber ==
  /\ uidvalidity < MaxValidity
  /\ uidvalidity' = uidvalidity + 1
  /\ \E n \in 0..Cardinality(found) :
       /\ uidnext' = n + 1
       /\ kind' \in [Uids -> Kinds]
       /\ {u \in Uids : kind'[u] # "none"} = 1..n
  /\ given' = {}
  /\ baseline' = 0
  /\ UNCHANGED <<cursor, callVars, overtaken>>

-----------------------------------------------------------------------------
(* One call.                                                               *)

Step(r, from, to) ==
  /\ pc[r] = from
  /\ pc' = [pc EXCEPT ![r] = to]

\* get_cursor.
GetCursor(r) ==
  /\ Step(r, "idle", "searching")
  /\ pos' = [pos EXCEPT ![r] = cursor]
  /\ UNCHANGED <<folderVars, cursor, result, historyVars>>

\* The call has a page of the folder as it is, and the position after it.
Got(r, page, next_after) ==
  result' = [result EXCEPT ![r] =
    [page |-> page, next |-> [uidvalidity |-> uidvalidity, last_uid |-> next_after]]]

\* _page without a position: the newest mail.
SearchNewest(r) ==
  LET res == Listing(found, wanted, Limit, None)
  IN /\ Step(r, "searching", "storing")
     /\ pos[r] = None
     /\ Got(r, res.page, res.next_after)
     /\ UNCHANGED <<folderVars, cursor, pos, historyVars>>

\* _page with a position of the folder's numbering: the oldest mail after it.
SearchAfter(r) ==
  LET res == Following(found, wanted, Limit, pos[r].last_uid)
  IN /\ Step(r, "searching", "storing")
     /\ pos[r] # None /\ pos[r].uidvalidity = uidvalidity
     /\ Got(r, res.page, res.next_after)
     /\ UNCHANGED <<folderVars, cursor, pos, historyVars>>

\* _page with a position of another numbering: the first session was for nothing.
FindRenumbered(r) ==
  /\ Step(r, "searching", "restarting")
  /\ pos[r] # None /\ pos[r].uidvalidity # uidvalidity
  /\ UNCHANGED <<folderVars, cursor, pos, result, historyVars>>

\* The second session of _page: from the start of the folder, whatever numbering
\* it has by now.
SearchAgain(r) ==
  LET res == Following(found, wanted, Limit, 0)
  IN /\ Step(r, "restarting", "storing")
     /\ Got(r, res.page, res.next_after)
     /\ UNCHANGED <<folderVars, cursor, pos, historyVars>>

\* set_cursor.  A position of an older numbering says nothing about the mail there
\* is now.
SetCursor(r) ==
  LET next == result[r].next
      current == next.uidvalidity = uidvalidity
  IN /\ Step(r, "storing", "idle")
     /\ cursor' = next
     /\ given' = IF current THEN given \cup result[r].page ELSE given
     /\ baseline' = IF current /\ pos[r] = None THEN Highest({baseline, next.last_uid})
                    ELSE baseline
     /\ overtaken' = [s \in Readers |-> s # r /\ pc[s] # "idle"]
     /\ pos' = [pos EXCEPT ![r] = None]
     /\ result' = [result EXCEPT ![r] = None]
     /\ UNCHANGED folderVars

\* The call fails before it stores its position: an IMAP error, a folder that is
\* renumbered within a session, an SQLite error, the death of the worker.
Fail(r) ==
  /\ pc[r] # "idle"
  /\ pc' = [pc EXCEPT ![r] = "idle"]
  /\ pos' = [pos EXCEPT ![r] = None]
  /\ result' = [result EXCEPT ![r] = None]
  /\ overtaken' = [overtaken EXCEPT ![r] = FALSE]
  /\ UNCHANGED <<folderVars, cursor, given, baseline>>

-----------------------------------------------------------------------------

Progress(r) ==
  \/ GetCursor(r) \/ SearchNewest(r) \/ SearchAfter(r) \/ FindRenumbered(r)
  \/ SearchAgain(r) \/ SetCursor(r)

Next ==
  \/ \E k \in Kinds : Arrive(k)
  \/ \E u \in Uids : Expunge(u)
  \/ Renumber
  \/ \E r \in Readers : Progress(r) \/ Fail(r)

Spec == Init /\ [][Next]_vars

\* Clients keep calling, every call ends, and calls stop failing (a call that stores
\* what was there already takes the same step as one that fails).
FairSpec ==
  /\ Spec
  /\ \A r \in Readers : WF_vars(Progress(r))
  /\ <>[][\A r \in Readers : Fail(r) => SetCursor(r)]_vars

-----------------------------------------------------------------------------
(* Properties                                                              *)

\* The types of the folder, the cursor, the calls and the history.
TypeOK ==
  /\ uidvalidity \in Validities /\ uidnext \in 1..MaxUid + 1
  /\ kind \in [Uids -> Kinds]
  /\ cursor \in Cursors \cup {None}
  /\ pc \in [Readers -> {"idle", "searching", "restarting", "storing"}]
  /\ pos \in [Readers -> Cursors \cup {None}]
  /\ result \in [Readers -> Results \cup {None}]
  /\ given \subseteq Uids
  /\ baseline \in 0..MaxUid
  /\ overtaken \in [Readers -> BOOLEAN]

\* The checkpoint never moves past a message that no page held, whatever calls
\* overtake each other, fail or find the folder renumbered: only mail older than a
\* first call (one that found no position) is passed over (inbox, search, _page).
NeverSkips ==
  cursor # None /\ cursor.uidvalidity = uidvalidity =>
    \A u \in wanted :
      baseline < u /\ u <= cursor.last_uid => u \in given

\* Within one numbering the checkpoint goes back, so that mail is given again, only
\* in a call that another call overtook (set_cursor has no MAX).
OnlyOvertakenGoBack ==
  [][ /\ cursor # None /\ cursor'.uidvalidity = cursor.uidvalidity
      /\ cursor'.last_uid < cursor.last_uid
      => \E r \in Readers : pc[r] = "storing" /\ pc'[r] = "idle" /\ overtaken[r]]_cursor

\* Every message that is listed at all is given in the end, unless it is removed or
\* renumbered first or is older than a first call, also if calls keep overtaking
\* each other.
EventuallyGiven ==
  \A u \in Uids :
    cursor # None /\ u \in wanted ~> u \in given \/ u <= baseline \/ u \notin wanted

\* A page of a listing is exactly the wanted messages between the UID it starts
\* below and the UID the next page starts below, whatever was delivered or removed
\* between the pages: no message that stays is listed twice or left out
\* (search_page with before_uid).
PagesAdjoin ==
  \A before \in Uids \cup {MaxUid + 1} :
    LET res == Listing(found, wanted, Limit, before)
    IN res.page = {u \in wanted :
                     u < before /\ (res.next_before # None => u >= res.next_before)}
=============================================================================

-------------------------------- MODULE Folders -------------------------------
(***************************************************************************)
(* How calls change the folders of one account: delete, move,              *)
(* create_draft, update_draft and delete_draft of services.py, through the *)
(* Session of imap_client.py.  No call is atomic: it is a sequence of IMAP *)
(* commands, update_draft's in two sessions, and other calls, other IMAP   *)
(* clients and the mail transport come between any two of them.            *)
(*                                                                         *)
(* A message is its text and its \Deleted flag.  Copies of a message have  *)
(* the same text; an edited draft has a new one.                           *)
(***************************************************************************)
EXTENDS Integers, FiniteSets

CONSTANTS
  Calls,         \* the calls; each is made once, a retry is another one
  Boxes,         \* the folders; Trash and Drafts are two of them
  Trash, Drafts,
  Texts,
  MaxUid,        \* bound: UIDs of a folder under one UIDVALIDITY
  MaxValidity,   \* bound: values of UIDVALIDITY
  Renumbered,    \* bound: the folders that may be renumbered
  None

Messages == [text : Texts, deleted : {"no", "ours", "theirs"}]
Ops == {"move", "delete", "erase", "create_draft", "update_draft", "delete_draft"}

ASSUME FoldersAssumption ==
  /\ {Trash, Drafts} \subseteq Boxes /\ Trash # Drafts
  /\ Renumbered \subseteq Boxes
  /\ MaxUid \in Nat
  /\ MaxValidity \in Nat \ {0}
  /\ None \notin Boxes \cup Texts \cup Messages \cup Ops

VARIABLES
  \* the server
  caps,          \* the capabilities the code asks for
  uidvalidity, uidnext,
  mail,          \* per folder and UID the message, or None
  \* the calls
  pc,            \* where the call is
  job,           \* what it is to do
  \* history
  seen,          \* the texts there have been
  condemned,     \* those somebody asked to be rid of, or that an edit replaced
  misled,        \* the edits that found their folder renumbered
  mistaken       \* the texts that those removed

serverVars == <<caps, uidvalidity, uidnext, mail>>
historyVars == <<seen, condemned, misled, mistaken>>
vars == <<caps, uidvalidity, uidnext, mail, pc, job, seen, condemned, misled, mistaken>>

Uids == 1..MaxUid
Validities == 1..MaxValidity
Places == {"new", "appending", "reselecting", "moving", "flagging",
           "expunging", "done"}

\* The folder a call works on, the UIDs it was given, where it moves them, the text
\* it replaces, and the UIDVALIDITY of the folder its session has selected.
Jobs == [op : Ops, box : Boxes, uids : SUBSET Uids, dest : Boxes \cup {None},
         text : Texts \cup {None}, selected : Validities]
NoJob == [op |-> None, box |-> None, uids |-> {}, dest |-> None, text |-> None,
          selected |-> None]

Init ==
  /\ caps \in SUBSET {"MOVE", "UIDPLUS"}
  /\ uidvalidity = [f \in Boxes |-> 1]
  /\ uidnext = [f \in Boxes |-> 1]
  /\ mail = [f \in Boxes |-> [u \in Uids |-> None]]
  /\ pc = [c \in Calls |-> "new"]
  /\ job = [c \in Calls |-> NoJob]
  /\ seen = {} /\ condemned = {} /\ misled = {} /\ mistaken = {}

-----------------------------------------------------------------------------
(* Folders as functions from UIDs to messages.                             *)

Held(f, us) == {u \in us : mail[f][u] # None}
TextsAt(f, us) == {mail[f][u].text : u \in Held(f, us)}

Nth(us, k) == CHOOSE u \in us : Cardinality({v \in us : v <= u}) = k

\* A folder after the messages at us of another one were appended to it.
Joined(folder, next, from, us) ==
  [u \in Uids |-> IF u \in next..next + Cardinality(us) - 1
                  THEN from[Nth(us, u - next + 1)] ELSE folder[u]]

Without(folder, us) == [u \in Uids |-> IF u \in us THEN None ELSE folder[u]]

\* All folders after the messages at us of f were appended to d and, if moved, removed.
Transferred(f, d, us, moved) ==
  LET placed == [mail EXCEPT ![d] = Joined(@, uidnext[d], mail[f], us)]
  IN IF moved THEN [placed EXCEPT ![f] = Without(@, us)] ELSE placed

Flagged(folder, us, who) ==
  [u \in Uids |-> IF u \in us /\ folder[u] # None
                  THEN [folder[u] EXCEPT !.deleted = who] ELSE folder[u]]

\* There is room within the bound.
Room(f, n) == uidnext[f] + n <= MaxUid + 1

Bumped(f, n) == uidnext' = [uidnext EXCEPT ![f] = @ + n]

-----------------------------------------------------------------------------
(* Others: the mail transport and other IMAP clients.                      *)

Arrive(f, t) ==
  /\ Room(f, 1) /\ t \notin seen
  /\ mail' = [mail EXCEPT ![f][uidnext[f]] = [text |-> t, deleted |-> "no"]]
  /\ Bumped(f, 1)
  /\ seen' = seen \cup {t}
  /\ UNCHANGED <<caps, uidvalidity, pc, job, condemned, misled, mistaken>>

FlagDeleted(f, u) ==
  /\ mail[f][u] # None /\ mail[f][u].deleted = "no"
  /\ mail' = [mail EXCEPT ![f] = Flagged(@, {u}, "theirs")]
  /\ UNCHANGED <<caps, uidvalidity, uidnext, pc, job, historyVars>>

\* A folder-wide EXPUNGE by another client, which condemns what it flagged itself.
ExpungeAll(f) ==
  LET out == {u \in Held(f, Uids) : mail[f][u].deleted # "no"}
  IN /\ out # {}
     /\ mail' = [mail EXCEPT ![f] = Without(@, out)]
     /\ condemned' = condemned \cup
          {mail[f][u].text : u \in {v \in out : mail[f][v].deleted = "theirs"}}
     /\ UNCHANGED <<caps, uidvalidity, uidnext, pc, job, seen, misled, mistaken>>

\* A folder gets a later UIDVALIDITY than any has, and its messages new UIDs.
Renumber(f) ==
  LET held == Held(f, Uids)
      n == Cardinality(held)
  IN /\ f \in Renumbered
     /\ \E v \in Validities :
          /\ \A g \in Boxes : uidvalidity[g] < v
          /\ uidvalidity' = [uidvalidity EXCEPT ![f] = v]
     /\ uidnext' = [uidnext EXCEPT ![f] = n + 1]
     /\ \E order \in [1..n -> held] :
          /\ \A u \in held : \E i \in 1..n : order[i] = u
          /\ mail' = [mail EXCEPT ![f] =
               [u \in Uids |-> IF u <= n THEN mail[f][order[u]] ELSE None]]
     /\ UNCHANGED <<caps, pc, job, historyVars>>

-----------------------------------------------------------------------------
(* The start of a call.                                                    *)

Goto(c, place) == pc' = [pc EXCEPT ![c] = place]

\* The call ends, with an answer or without one.
Finish(c) ==
  /\ Goto(c, "done")
  /\ job' = [job EXCEPT ![c] = NoJob]

\* The session selects the folder; the UIDs are ones the client was told of.
Select(c, place, op, f, us, dest, text) ==
  /\ pc[c] = "new"
  /\ us # {} /\ us \subseteq 1..uidnext[f] - 1
  /\ Goto(c, place)
  /\ job' = [job EXCEPT ![c] =
       [op |-> op, box |-> f, uids |-> us, dest |-> dest, text |-> text,
        selected |-> uidvalidity[f]]]

\* move: the destination exists.
Move(c, f, us, d) ==
  /\ Select(c, "moving", "move", f, us, d, None)
  /\ UNCHANGED <<serverVars, historyVars>>

\* Fault: what is in the trash already is moved there once more.
DeleteAnywhere(c, f, us) ==
  /\ Select(c, "moving", "delete", f, us, Trash, None)
  /\ UNCHANGED <<serverVars, historyVars>>

\* delete: to the trash, but not from there.
Delete(c, f, us) ==
  /\ f # Trash
  /\ Select(c, "moving", "delete", f, us, Trash, None)
  /\ UNCHANGED <<serverVars, historyVars>>

\* delete with permanent: only in the trash, and only with UIDPLUS.
DeletePermanent(c, us) ==
  /\ "UIDPLUS" \in caps
  /\ Select(c, "flagging", "erase", Trash, us, None, None)
  /\ condemned' = condemned \cup TextsAt(Trash, us)
  /\ UNCHANGED <<serverVars, seen, misled, mistaken>>

DeleteDraft(c, u) ==
  /\ Select(c, "flagging", "delete_draft", Drafts, {u}, None, None)
  /\ condemned' = condemned \cup TextsAt(Drafts, {u})
  /\ UNCHANGED <<serverVars, seen, misled, mistaken>>

\* update_draft: _read_draft in a session of its own, then the new message is built.
ReadDraft(c, u) ==
  /\ mail[Drafts][u] # None
  /\ Select(c, "appending", "update_draft", Drafts, {u}, None, mail[Drafts][u].text)
  /\ UNCHANGED <<serverVars, historyVars>>

CreateDraft(c) ==
  /\ pc[c] = "new"
  /\ Goto(c, "appending")
  /\ job' = [job EXCEPT ![c] =
       [op |-> "create_draft", box |-> Drafts, uids |-> {}, dest |-> None,
        text |-> None, selected |-> uidvalidity[Drafts]]]
  /\ UNCHANGED <<serverVars, historyVars>>

\* A conflict, a folder or a draft that does not exist, an invalid request.
Refuse(c) ==
  /\ pc[c] = "new"
  /\ Goto(c, "done")
  /\ UNCHANGED <<serverVars, job, historyVars>>

-----------------------------------------------------------------------------
(* The commands of a call.                                                 *)

\* The session survives only as long as its folder's numbering.
Live(c) == job[c].selected = uidvalidity[job[c].box]

\* Session.move with MOVE.
MoveMessages(c) ==
  LET f == job[c].box
      held == Held(f, job[c].uids)
      n == Cardinality(held)
  IN /\ pc[c] = "moving" /\ Live(c)
     /\ "MOVE" \in caps
     /\ Room(job[c].dest, n)
     /\ mail' = Transferred(f, job[c].dest, held, TRUE)
     /\ Bumped(job[c].dest, n)
     /\ Finish(c)
     /\ UNCHANGED <<caps, uidvalidity, historyVars>>

\* Fault: COPY also on a server with MOVE.
CopyAlways(c) ==
  LET f == job[c].box
      held == Held(f, job[c].uids)
      n == Cardinality(held)
  IN /\ pc[c] = "moving" /\ Live(c)
     /\ Room(job[c].dest, n)
     /\ mail' = Transferred(f, job[c].dest, held, FALSE)
     /\ Bumped(job[c].dest, n)
     /\ Goto(c, "flagging")
     /\ UNCHANGED <<caps, uidvalidity, job, historyVars>>

\* Without it: COPY first.
CopyMessages(c) ==
  LET f == job[c].box
      held == Held(f, job[c].uids)
      n == Cardinality(held)
  IN /\ pc[c] = "moving" /\ Live(c)
     /\ "MOVE" \notin caps
     /\ Room(job[c].dest, n)
     /\ mail' = Transferred(f, job[c].dest, held, FALSE)
     /\ Bumped(job[c].dest, n)
     /\ Goto(c, "flagging")
     /\ UNCHANGED <<caps, uidvalidity, job, historyVars>>

\* _save_draft: APPEND of the new message; only then is the old one condemned.
AppendDraft(c, t) ==
  /\ pc[c] = "appending"
  /\ Room(Drafts, 1) /\ t \notin seen
  /\ mail' = [mail EXCEPT ![Drafts][uidnext[Drafts]] = [text |-> t, deleted |-> "no"]]
  /\ Bumped(Drafts, 1)
  /\ seen' = seen \cup {t}
  /\ condemned' = condemned \cup ({job[c].text} \ {None})
  /\ IF job[c].op = "create_draft" THEN Finish(c)
     ELSE Goto(c, "reselecting") /\ UNCHANGED job
  /\ UNCHANGED <<caps, uidvalidity, misled, mistaken>>

\* The second session selects Drafts for writing, and does not look at UIDVALIDITY.
Reselect(c) ==
  /\ pc[c] = "reselecting"
  /\ job' = [job EXCEPT ![c].selected = uidvalidity[Drafts]]
  /\ misled' = IF Live(c) THEN misled ELSE misled \cup {c}
  /\ Goto(c, "flagging")
  /\ UNCHANGED <<serverVars, seen, condemned, mistaken>>

\* A misled edit flags or removes what has come to be at its UIDs, also after Reselect.
Mistake(c, us) ==
  mistaken' = IF c \in misled THEN mistaken \cup TextsAt(job[c].box, us) ELSE mistaken

\* STORE +FLAGS \Deleted.
StoreDeleted(c) ==
  /\ pc[c] = "flagging" /\ Live(c)
  /\ mail' = [mail EXCEPT ![job[c].box] = Flagged(@, job[c].uids, "ours")]
  /\ Mistake(c, job[c].uids)
  /\ Goto(c, "expunging")
  /\ UNCHANGED <<caps, uidvalidity, uidnext, job, seen, condemned, misled>>

\* Fault: a folder-wide EXPUNGE.
AllFlagged(c) == {u \in Held(job[c].box, Uids) : mail[job[c].box][u].deleted # "no"}

\* What UID EXPUNGE removes.
Expunged(c) == {u \in Held(job[c].box, job[c].uids) : mail[job[c].box][u].deleted # "no"}

\* expunge_uids: nothing is removed without UIDPLUS.
ExpungeUids(c) ==
  /\ pc[c] = "expunging" /\ Live(c)
  /\ IF "UIDPLUS" \in caps
     THEN /\ mail' = [mail EXCEPT ![job[c].box] = Without(@, Expunged(c))]
          /\ Mistake(c, Expunged(c))
     ELSE UNCHANGED <<mail, mistaken>>
  /\ Finish(c)
  /\ UNCHANGED <<caps, uidvalidity, uidnext, seen, condemned, misled>>

\* A command fails, the connection breaks, the folder was renumbered under the
\* session, or the worker dies.  The server may have obeyed, also in part.
Fail(c) ==
  LET f == job[c].box
  IN /\ pc[c] \notin {"new", "done"}
     /\ Finish(c)
     /\ \/ UNCHANGED <<mail, uidnext, seen, mistaken>>
        \/ /\ pc[c] = "moving" /\ Live(c) /\ Room(job[c].dest, Cardinality(job[c].uids))
           /\ \E us \in SUBSET Held(f, job[c].uids) :
                /\ "MOVE" \notin caps => us = Held(f, job[c].uids)
                /\ mail' = Transferred(f, job[c].dest, us, "MOVE" \in caps)
                /\ Bumped(job[c].dest, Cardinality(us))
           /\ UNCHANGED <<seen, mistaken>>
        \/ /\ pc[c] = "appending" /\ Room(Drafts, 1)
           /\ \E t \in Texts \ seen :
                /\ mail' = [mail EXCEPT
                     ![Drafts][uidnext[Drafts]] = [text |-> t, deleted |-> "no"]]
                /\ seen' = seen \cup {t}
           /\ Bumped(Drafts, 1)
           /\ UNCHANGED mistaken
        \/ /\ pc[c] = "flagging" /\ Live(c)
           /\ \E us \in SUBSET job[c].uids :
                /\ mail' = [mail EXCEPT ![f] = Flagged(@, us, "ours")]
                /\ Mistake(c, us)
           /\ UNCHANGED <<uidnext, seen>>
        \/ /\ pc[c] = "expunging" /\ Live(c) /\ "UIDPLUS" \in caps
           /\ \E us \in SUBSET Expunged(c) :
                /\ mail' = [mail EXCEPT ![f] = Without(@, us)]
                /\ Mistake(c, us)
           /\ UNCHANGED <<uidnext, seen>>
     /\ UNCHANGED <<caps, uidvalidity, condemned, misled>>

-----------------------------------------------------------------------------

Others ==
  \E f \in Boxes :
    \/ \E t \in Texts : Arrive(f, t)
    \/ \E u \in Uids : FlagDeleted(f, u)
    \/ ExpungeAll(f)
    \/ Renumber(f)

Start(c) ==
  \/ \E us \in SUBSET Uids :
       \/ \E f, d \in Boxes : Move(c, f, us, d)
       \/ \E f \in Boxes : Delete(c, f, us)
       \/ DeletePermanent(c, us)
  \/ \E u \in Uids : DeleteDraft(c, u) \/ ReadDraft(c, u)
  \/ CreateDraft(c)
  \/ Refuse(c)

Command(c) ==
  \/ MoveMessages(c) \/ CopyMessages(c)
  \/ \E t \in Texts : AppendDraft(c, t)
  \/ Reselect(c) \/ StoreDeleted(c) \/ ExpungeUids(c)
  \/ Fail(c)

Next == Others \/ \E c \in Calls : Start(c) \/ Command(c)

Spec == Init /\ [][Next]_vars

-----------------------------------------------------------------------------
(* Properties                                                              *)

\* The types of the server's state and the calls; UIDs are handed out once, and
\* nothing is deleted into the trash from the trash or erased elsewhere.
TypeOK ==
  /\ caps \subseteq {"MOVE", "UIDPLUS"}
  /\ uidvalidity \in [Boxes -> Validities]
  /\ uidnext \in [Boxes -> 1..MaxUid + 1]
  /\ mail \in [Boxes -> [Uids -> Messages \cup {None}]]
  /\ \A f \in Boxes, u \in Uids : u >= uidnext[f] => mail[f][u] = None
  /\ pc \in [Calls -> Places]
  /\ job \in [Calls -> Jobs \cup {NoJob}]
  /\ \A c \in Calls : job[c].op = "erase" <=> job[c].box = Trash /\ job[c].dest = None
  /\ \A c \in Calls : job[c].op = "delete" => job[c].dest = Trash /\ job[c].box # Trash
  /\ condemned \cup mistaken \subseteq seen /\ seen \subseteq Texts
  /\ misled \subseteq Calls

Present == UNION {TextsAt(f, Uids) : f \in Boxes}

\* No message is lost that nobody asked to be rid of: whatever calls race, fail
\* between two commands or are repeated, and whatever other clients expunge
\* meanwhile, it is in some folder (the order of Session.move and _save_draft, no
\* folder-wide EXPUNGE).  Only an edit that found the drafts renumbered between its two
\* sessions may remove another message.
NothingLost == seen \subseteq Present \cup condemned \cup mistaken

Duplicates(t) == {p \in Boxes \X Uids : p[2] \in Held(p[1], Uids) /\ mail[p[1]][p[2]].text = t}

\* On a server with MOVE no message is ever doubled: not by a move or a deletion that
\* breaks off and is made again, nor by two that race.  Without MOVE a retry copies
\* once more what is still there.  (Session.move)
NeverDoubled == "MOVE" \in caps => \A t \in seen : Cardinality(Duplicates(t)) <= 1
=============================================================================

-------------------------------- MODULE Sending -------------------------------
(***************************************************************************)
(* How mail leaves: send, reply and send_draft of services.py down to      *)
(* _deliver, for one mailbox.  Requests are the calls of concurrent        *)
(* clients, in any worker process.  Each runs through the same sequence,   *)
(* and other requests, other IMAP clients and crashes come between any two *)
(* of its steps: quota (one transaction), claim of the draft (one INSERT), *)
(* SMTP, copy in Sent, then the \Answered flag and the removal of the      *)
(* draft in one more IMAP session.                                         *)
(*                                                                         *)
(* The quota here is a set of rows that leave the window at any time;      *)
(* RateLimit has its clock and its two counts.                             *)
(***************************************************************************)
EXTENDS Integers, FiniteSets, Functions

CONSTANTS
  Requests,          \* the calls; each is made once, a retry is another one
  Drafts,            \* the messages that get into the Drafts folder
  Originals,         \* the messages of the folder that calls answer
  MaxUid,            \* bound: UIDs of the Drafts folder
  MaxValidity,       \* bound: a UIDVALIDITY; both folders are renumbered less often
  PerHour,           \* the quota; 0 is unlimited
  SaveSent,          \* smtp.save_sent, and the mailbox has IMAP
  UidPlus,           \* the server can expunge single UIDs
  Other,             \* a message of that folder that no call answers
  None

ASSUME SendingAssumption ==
  /\ MaxUid \in Nat
  /\ MaxValidity \in Nat \ {0}
  /\ PerHour \in Nat
  /\ {SaveSent, UidPlus} \subseteq BOOLEAN
  /\ IsFiniteSet(Originals)
  /\ None \notin Drafts \cup Originals \cup {Other}
  /\ Other \notin Originals

VARIABLES
  \* the Drafts folder on the server
  uidvalidity, uidnext,
  folder,        \* the draft at each UID
  \* the folder of the originals
  inboxvalidity,
  inbox,         \* the message at each UID an original has at the start
  \* the state store
  send_log,      \* the requests whose quota row is in the window
  draft_sends,   \* the claims, as <<UIDVALIDITY, UID>>
  \* the requests
  pc,            \* where the call is in _deliver
  source,        \* the <<UIDVALIDITY, UID>> send_draft read, or None
  draft,         \* the draft it read there, or None
  answers,       \* the <<UIDVALIDITY, UID>> of the original to flag, or None
  original,      \* the message the call read there, or None
  warnings, outcome,
  \* history
  tried,         \* requests that began an SMTP transaction
  mailed,        \* those whose message the SMTP server may have accepted, for one
                 \* recipient or more
  filed,         \* those with a copy in Sent
  flagged,       \* which call flagged which message \Answered
  discarded      \* drafts that a client removed by intent

draftsVars == <<uidvalidity, uidnext, folder>>
inboxVars == <<inboxvalidity, inbox>>
folderVars == <<draftsVars, inboxVars>>
storeVars == <<send_log, draft_sends>>
callVars == <<source, draft, answers, original>>
historyVars == <<tried, mailed, filed, flagged, discarded>>
vars == <<uidvalidity, uidnext, folder, inboxvalidity, inbox, send_log, draft_sends,
          pc, source, draft, answers, original, warnings, outcome,
          tried, mailed, filed, flagged, discarded>>

Uids == 1..MaxUid
Validities == 1..MaxValidity
Keys == Validities \X Uids
InboxUids == 1..Cardinality(Originals)
InboxKeys == Validities \X InboxUids
Places == {"new", "ready", "claiming", "sending", "filing", "answering",
           "removing", "done"}
Outcomes == {"none", "ok", "dry_run", "rate_limited", "conflict", "smtp_error",
             "no_recipients", "error", "lost"}
Warnings == {"sent_copy_failed", "answered_flag_failed", "draft_not_removed"}

Init ==
  /\ uidvalidity = 1 /\ uidnext = 1
  /\ folder = [u \in Uids |-> None]
  /\ inboxvalidity = 1
  /\ inbox \in [InboxUids -> Originals] /\ Range(inbox) = Originals
  /\ send_log = {} /\ draft_sends = {}
  /\ pc = [r \in Requests |-> "new"]
  /\ source = [r \in Requests |-> None]
  /\ draft = [r \in Requests |-> None]
  /\ answers = [r \in Requests |-> None]
  /\ original = [r \in Requests |-> None]
  /\ warnings = [r \in Requests |-> {}]
  /\ outcome = [r \in Requests |-> "none"]
  /\ tried = {} /\ mailed = {} /\ filed = {} /\ flagged = {} /\ discarded = {}

Held == Range(folder) \ {None}

-----------------------------------------------------------------------------
(* The Drafts folder, changed by others.                                   *)

SaveDraft(d) ==
  /\ uidnext <= MaxUid
  /\ d \notin Held \cup discarded /\ \A r \in Requests : draft[r] # d
  /\ folder' = [folder EXCEPT ![uidnext] = d]
  /\ uidnext' = uidnext + 1
  /\ UNCHANGED <<uidvalidity, inboxVars, storeVars, pc, callVars, warnings, outcome,
                 historyVars>>

\* delete_draft, update_draft or another IMAP client.
Discard(u) ==
  /\ folder[u] # None
  /\ folder' = [folder EXCEPT ![u] = None]
  /\ discarded' = discarded \cup {folder[u]}
  /\ UNCHANGED <<uidvalidity, uidnext, inboxVars, storeVars, pc, callVars, warnings,
                 outcome, tried, mailed, filed, flagged>>

\* The server gives the drafts that are there new UIDs under a new UIDVALIDITY.
Renumber ==
  /\ uidvalidity + inboxvalidity <= MaxValidity
  /\ uidvalidity' = uidvalidity + 1
  /\ uidnext' = Cardinality(Held) + 1
  /\ \E order \in [1..Cardinality(Held) -> Held] :
       /\ Range(order) = Held
       /\ folder' = [u \in Uids |-> IF u \in DOMAIN order THEN order[u] ELSE None]
  /\ UNCHANGED <<inboxVars, storeVars, pc, callVars, warnings, outcome, historyVars>>

\* A message of the other folder is moved away or expunged, by any client; the server
\* renumbers the folder, and any message there gets the UID an original had.
LoseMessage(u) ==
  /\ inbox[u] # None
  /\ inbox' = [inbox EXCEPT ![u] = None]
  /\ UNCHANGED <<draftsVars, inboxvalidity, storeVars, pc, callVars, warnings, outcome,
                 historyVars>>

RenumberInbox ==
  /\ uidvalidity + inboxvalidity <= MaxValidity
  /\ inboxvalidity' = inboxvalidity + 1
  /\ inbox' \in [InboxUids -> (Originals \cap Range(inbox)) \cup {Other, None}]
  /\ \A u, v \in InboxUids : inbox'[u] = inbox'[v] /\ inbox'[u] \in Originals => u = v
  /\ UNCHANGED <<draftsVars, storeVars, pc, callVars, warnings, outcome, historyVars>>

-----------------------------------------------------------------------------
(* Before _deliver.                                                        *)

Goto(r, place) == pc' = [pc EXCEPT ![r] = place]

\* The call ends with an answer to its client.
Finish(r, answer) ==
  /\ Goto(r, "done")
  /\ outcome' = [outcome EXCEPT ![r] = answer]

\* The call goes on to another place, or ends with success.
Proceed(r, place) ==
  IF place = "done" THEN Finish(r, "ok")
  ELSE Goto(r, place) /\ UNCHANGED outcome

\* The message this call answers, if any, as it is found in its folder.
FindOriginal(r) ==
  \/ UNCHANGED <<answers, original>>
  \/ \E u \in InboxUids :
       /\ inbox[u] \in Originals
       /\ answers' = [answers EXCEPT ![r] = <<inboxvalidity, u>>]
       /\ original' = [original EXCEPT ![r] = inbox[u]]

\* send builds a message, reply reads its original and answers that.
Compose(r) ==
  /\ pc[r] = "new"
  /\ Goto(r, "ready")
  /\ FindOriginal(r)
  /\ UNCHANGED <<folderVars, storeVars, source, draft, warnings, outcome, historyVars>>

\* send_draft selects Drafts, fetches the draft and looks for the message it
\* answers; a search that fails counts as none (_find_original).
ReadDraft(r, u) ==
  /\ pc[r] = "new"
  /\ folder[u] # None
  /\ Goto(r, "ready")
  /\ source' = [source EXCEPT ![r] = <<uidvalidity, u>>]
  /\ draft' = [draft EXCEPT ![r] = folder[u]]
  /\ FindOriginal(r)
  /\ UNCHANGED <<folderVars, storeVars, warnings, outcome, historyVars>>

\* A missing draft, an identity that is not allowed, an invalid request.
Refuse(r) ==
  /\ pc[r] = "new"
  /\ Finish(r, "error")
  /\ UNCHANGED <<folderVars, storeVars, callVars, warnings, historyVars>>

-----------------------------------------------------------------------------
(* _deliver.                                                               *)

DryRun(r) ==
  /\ pc[r] = "ready"
  /\ Finish(r, "dry_run")
  /\ UNCHANGED <<folderVars, storeVars, callVars, warnings, historyVars>>

QuotaLeft == PerHour = 0 \/ Cardinality(send_log) < PerHour

\* check_and_record_send, then the claim if there is a draft.
RecordSend(r) ==
  /\ pc[r] = "ready"
  /\ QuotaLeft
  /\ send_log' = send_log \cup {r}
  /\ Goto(r, IF source[r] = None THEN "sending" ELSE "claiming")
  /\ UNCHANGED <<folderVars, draft_sends, callVars, warnings, outcome, historyVars>>

\* Fault: the draft is claimed before the quota is asked.
RateLimitedAfterClaim(r) ==
  /\ pc[r] = "ready"
  /\ ~QuotaLeft
  /\ Finish(r, "rate_limited")
  /\ draft_sends' = draft_sends \cup ({source[r]} \ {None})
  /\ UNCHANGED <<folderVars, send_log, callVars, warnings, historyVars>>

RateLimited(r) ==
  /\ pc[r] = "ready"
  /\ ~QuotaLeft
  /\ Finish(r, "rate_limited")
  /\ UNCHANGED <<folderVars, storeVars, callVars, warnings, historyVars>>

\* Fault: the INSERT ignores a claim that is there.
ClaimAnyway(r) ==
  /\ pc[r] = "claiming"
  /\ draft_sends' = draft_sends \cup {source[r]}
  /\ Goto(r, "sending")
  /\ UNCHANGED <<folderVars, send_log, callVars, warnings, outcome, historyVars>>

\* claim_draft: the INSERT, or its primary key refuses.
ClaimDraft(r) ==
  /\ pc[r] = "claiming"
  /\ source[r] \notin draft_sends
  /\ draft_sends' = draft_sends \cup {source[r]}
  /\ Goto(r, "sending")
  /\ UNCHANGED <<folderVars, send_log, callVars, warnings, outcome, historyVars>>

ClaimRefused(r) ==
  /\ pc[r] = "claiming"
  /\ source[r] \in draft_sends
  /\ Finish(r, "conflict")
  /\ UNCHANGED <<folderVars, storeVars, callVars, warnings, historyVars>>

\* What follows SMTP, and what follows the copy in Sent.
AfterFiling(r) ==
  IF answers[r] # None THEN "answering" ELSE IF source[r] # None THEN "removing" ELSE "done"
AfterSmtp(r) == IF SaveSent THEN "filing" ELSE AfterFiling(r)

\* The server takes the mail for at least one recipient; the others, whom it may
\* refuse, are in the answer of smtplib, which send_message drops.
SmtpAccepts(r) ==
  /\ pc[r] = "sending"
  /\ tried' = tried \cup {r}
  /\ mailed' = mailed \cup {r}
  /\ Proceed(r, AfterSmtp(r))
  /\ UNCHANGED <<folderVars, storeVars, callVars, warnings, filed, flagged, discarded>>

\* Fault: a failed delivery is cleaned up after like a successful one.
SmtpFailsOn(r) ==
  /\ pc[r] = "sending"
  /\ tried' = tried \cup {r}
  /\ Proceed(r, AfterFiling(r))
  /\ UNCHANGED <<folderVars, storeVars, callVars, warnings, mailed, filed, flagged,
                 discarded>>

\* SmtpError; when the answer to DATA is lost, the message may have left.
SmtpFails(r) ==
  /\ pc[r] = "sending"
  /\ tried' = tried \cup {r}
  /\ mailed' \in {mailed, mailed \cup {r}}
  /\ Finish(r, "smtp_error")
  /\ UNCHANGED <<folderVars, storeVars, callVars, warnings, filed, flagged, discarded>>

\* send_message refuses a draft without recipients before it connects.
NoRecipients(r) ==
  /\ pc[r] = "sending"
  /\ source[r] # None
  /\ Finish(r, "no_recipients")
  /\ UNCHANGED <<folderVars, storeVars, callVars, warnings, historyVars>>

FileCopy(r) ==
  /\ pc[r] = "filing"
  /\ filed' = filed \cup {r}
  /\ Proceed(r, AfterFiling(r))
  /\ UNCHANGED <<folderVars, storeVars, callVars, warnings, tried, mailed, flagged,
                 discarded>>

\* An IMAP error while the copy is filed (the copy may be there all the same).
FilingFails(r) ==
  /\ pc[r] = "filing"
  /\ warnings' = [warnings EXCEPT ![r] = @ \cup {"sent_copy_failed"}]
  /\ filed' \in {filed, filed \cup {r}}
  /\ Proceed(r, AfterFiling(r))
  /\ UNCHANGED <<folderVars, storeVars, callVars, tried, mailed, flagged, discarded>>

\* imaplib raises UnicodeEncodeError for a folder name that is not ASCII, which
\* _IMAP_ERRORS does not hold: the call ends with an internal error.  What the Sent
\* folder is called is left open, from call to call.
FilingRaises(r) ==
  /\ pc[r] = "filing"
  /\ Finish(r, "error")
  /\ UNCHANGED <<folderVars, storeVars, callVars, warnings, historyVars>>

\* STORE +FLAGS \Answered, by UID, in a new session that does not compare the
\* UIDVALIDITY: whatever has the UID now is flagged, and it is no error if nothing has.
Marked(r) == flagged \cup ({r} \X ({inbox[answers[r][2]]} \ {None}))

MarkAnswered(r) ==
  /\ pc[r] = "answering"
  /\ flagged' = Marked(r)
  /\ Proceed(r, IF source[r] # None THEN "removing" ELSE "done")
  /\ UNCHANGED <<folderVars, storeVars, callVars, warnings, tried, mailed, filed,
                 discarded>>

\* _remove: STORE \Deleted and UID EXPUNGE on whatever the folder now has at the
\* UID; without UIDPLUS it stays, flagged.  The folder is selected again and its
\* UIDVALIDITY is not compared.
Removed(r) == IF UidPlus THEN [folder EXCEPT ![source[r][2]] = None] ELSE folder

RemoveDraft(r) ==
  /\ pc[r] = "removing"
  /\ folder' = Removed(r)
  /\ Finish(r, "ok")
  /\ UNCHANGED <<uidvalidity, uidnext, inboxVars, storeVars, callVars, warnings, historyVars>>

\* Fault: the last step fails in silence.
CleanupFailsSilently(r) ==
  /\ pc[r] \in {"answering", "removing"}
  /\ Finish(r, "ok")
  /\ UNCHANGED <<folderVars, storeVars, callVars, warnings, historyVars>>

\* An IMAP error in that session ends it, with one warning for both steps; the
\* server may have done what it was asked before.
CleanupFails(r) ==
  /\ \/ /\ pc[r] = "answering"
        /\ flagged' \in {flagged, Marked(r)}
        /\ UNCHANGED folder
     \/ /\ pc[r] = "removing"
        /\ folder' \in {folder, Removed(r)}
        /\ UNCHANGED flagged
  /\ warnings' = [warnings EXCEPT ![r] = @ \cup
       {IF answers[r] # None THEN "answered_flag_failed" ELSE "draft_not_removed"}]
  /\ Finish(r, "ok")
  /\ UNCHANGED <<uidvalidity, uidnext, inboxVars, storeVars, callVars, tried, mailed,
                 filed, discarded>>

-----------------------------------------------------------------------------

\* The worker dies, or SQLite fails: the call is given up where it is.  In the
\* middle of SMTP nobody knows whether the message left.
Crash(r) ==
  /\ pc[r] \notin {"new", "done"}
  /\ Finish(r, "lost")
  /\ \/ UNCHANGED <<tried, mailed>>
     \/ /\ pc[r] = "sending"
        /\ tried' = tried \cup {r}
        /\ mailed' \in {mailed, mailed \cup {r}}
  /\ UNCHANGED <<folderVars, storeVars, callVars, warnings, filed, flagged, discarded>>

\* A quota row gets older than the window.
Expire(r) ==
  /\ r \in send_log
  /\ send_log' = send_log \ {r}
  /\ UNCHANGED <<folderVars, draft_sends, pc, callVars, warnings, outcome, historyVars>>

Next ==
  \/ \E d \in Drafts : SaveDraft(d)
  \/ \E u \in Uids : Discard(u)
  \/ Renumber
  \/ \E u \in InboxUids : LoseMessage(u)
  \/ RenumberInbox
  \/ \E r \in Requests, u \in Uids : ReadDraft(r, u)
  \/ \E r \in Requests :
       \/ Compose(r) \/ Refuse(r)
       \/ DryRun(r) \/ RecordSend(r) \/ RateLimited(r) \/ ClaimDraft(r) \/ ClaimRefused(r)
       \/ SmtpAccepts(r) \/ SmtpFails(r) \/ NoRecipients(r)
       \/ FileCopy(r) \/ FilingFails(r) \/ FilingRaises(r)
       \/ MarkAnswered(r) \/ RemoveDraft(r) \/ CleanupFails(r)
       \/ Crash(r) \/ Expire(r)

Spec == Init /\ [][Next]_vars

-----------------------------------------------------------------------------
(* Properties                                                              *)

\* The types of the folder, the tables, the calls and the history.
TypeOK ==
  /\ uidvalidity \in Validities /\ uidnext \in 1..MaxUid + 1
  /\ folder \in [Uids -> Drafts \cup {None}]
  /\ inboxvalidity \in Validities
  /\ inbox \in [InboxUids -> Originals \cup {Other, None}]
  /\ send_log \subseteq Requests /\ draft_sends \subseteq Keys
  /\ pc \in [Requests -> Places]
  /\ source \in [Requests -> Keys \cup {None}]
  /\ draft \in [Requests -> Drafts \cup {None}]
  /\ answers \in [Requests -> InboxKeys \cup {None}]
  /\ original \in [Requests -> Originals \cup {None}]
  /\ warnings \in [Requests -> SUBSET Warnings]
  /\ outcome \in [Requests -> Outcomes]
  /\ {tried, mailed, filed} \subseteq SUBSET Requests
  /\ flagged \subseteq Requests \X (Originals \cup {Other})
  /\ discarded \subseteq Drafts

\* One draft, by UIDVALIDITY and UID, goes into at most one SMTP transaction, even
\* if calls race, fail with an unknown outcome, are given up or are repeated
\* (claim_draft before send_message).
DraftSentOnce ==
  \A r, s \in tried : source[r] # None /\ source[r] = source[s] => r = s

\* A claim is spent only on a send that was tried, whose call was given up, or whose
\* draft names no recipient: a draft that was rate limited, in conflict or dry run can
\* be sent later (the order in _deliver).
ClaimMeansAttempt ==
  \A k \in draft_sends :
    \E r \in Requests :
      /\ source[r] = k
      /\ pc[r] = "sending" \/ r \in tried \/ outcome[r] \in {"lost", "no_recipients"}

\* The draft at u leaves the folder, and not because the folder is renumbered.
Vanishes(u) ==
  folder[u] # None /\ folder'[u] = None /\ uidvalidity' = uidvalidity

Disposed(d) == d \in discarded' \/ \E r \in mailed : draft[r] = d

\* A draft leaves the folder only because a client removed it by intent or a call
\* that read this very draft has mailed it: failures before or in SMTP, crashes and
\* other calls lose no draft (the order in _deliver, _remove).
DraftKeptUntilSent ==
  [][\A u \in Uids : Vanishes(u) => Disposed(folder[u])]_vars

\* What the cleanup by UID may hit, if not what the call sent and answered: only what
\* got the UID in a renumbering after the call had read it, and only for a call whose
\* mail has left.  Nothing else loses a draft or flags a message (_deliver, _remove).
OnlyRenumberingHitsOthers ==
  [][/\ \A u \in Uids : Vanishes(u) =>
          \/ Disposed(folder[u])
          \/ \E r \in mailed :
               pc[r] = "removing" /\ source[r][1] # uidvalidity /\ source[r][2] = u
     /\ \A r \in Requests, m \in Originals \cup {Other} : <<r, m>> \in flagged' \ flagged =>
          r \in mailed /\ (m = original[r] \/ answers[r][1] # inboxvalidity)]_vars

\* The original is no longer where the call read it.
Displaced(r) ==
  answers[r][1] # inboxvalidity \/ inbox[answers[r][2]] # original[r]

\* Success without warnings means that every step was done: mailed (for at least one
\* recipient), filed in Sent if configured, original flagged and draft removed if they
\* were where the call had read them (_deliver).
SilentSuccessIsComplete ==
  \A r \in Requests : outcome[r] = "ok" /\ warnings[r] = {} =>
    /\ r \in mailed
    /\ SaveSent => r \in filed
    /\ answers[r] # None => <<r, original[r]>> \in flagged \/ Displaced(r)
    /\ (source[r] # None /\ UidPlus /\ source[r][1] = uidvalidity)
         => folder[source[r][2]] = None
=============================================================================

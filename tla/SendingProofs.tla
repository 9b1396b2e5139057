----------------------------- MODULE SendingProofs ----------------------------
(***************************************************************************)
(* Proofs about Sending: a draft goes into at most one SMTP transaction,   *)
(* and no claim is spent without an attempt.  Both follow from one         *)
(* inductive invariant: who is in SMTP, or was, owns the claim of its      *)
(* draft, and nobody else does.  A second invariant follows the pipeline   *)
(* after SMTP: what success without a warning means, and which drafts are  *)
(* lost.                                                                   *)
(***************************************************************************)
EXTENDS Sending, FiniteSetTheorems, TLAPS

CallTypeOK ==
  /\ uidvalidity \in Validities /\ inboxvalidity \in Validities
  /\ pc \in [Requests -> Places]
  /\ source \in [Requests -> Keys \cup {None}]
  /\ outcome \in [Requests -> Outcomes]
  /\ tried \subseteq Requests

\* What the place of a call says about its source and its history.
PlaceOK ==
  \A r \in Requests :
    /\ pc[r] = "new" => source[r] = None
    /\ pc[r] = "claiming" => source[r] # None
    /\ pc[r] \in {"new", "ready", "claiming", "sending"} => r \notin tried
    /\ outcome[r] \in {"lost", "no_recipients"} => pc[r] = "done"

\* The call is at, or was at, the only place where the draft goes out.
Owns(r) == source[r] # None /\ (pc[r] = "sending" \/ r \in tried)

OwnersClaimed == \A r \in Requests : Owns(r) => source[r] \in draft_sends

OneOwner ==
  \A r, s \in Requests : Owns(r) /\ Owns(s) /\ source[r] = source[s] => r = s

IInv ==
  CallTypeOK /\ PlaceOK /\ OwnersClaimed /\ OneOwner
    /\ None \notin draft_sends /\ ClaimMeansAttempt

-----------------------------------------------------------------------------

\* Nothing has been claimed or tried at the start.
LEMMA InitInv == Init => IInv
  BY SendingAssumption DEF Init, IInv, CallTypeOK, PlaceOK, OwnersClaimed, OneOwner,
     Owns, ClaimMeansAttempt, Validities, Places, Outcomes

\* A step that leaves the claims and every call as they are, except that calls may
\* move between places of the same kind, cannot disturb the invariant: the steps
\* of others on the folder, and the expiry of quota rows.
LEMMA OthersKeepInv ==
  ASSUME IInv, uidvalidity' \in Validities, inboxvalidity' \in Validities,
         UNCHANGED <<draft_sends, pc, source, outcome, tried>>
  PROVE  IInv'
  BY DEF IInv, CallTypeOK, PlaceOK, OwnersClaimed, OneOwner, Owns, ClaimMeansAttempt,
     Keys

\* A call that moves on before SMTP without a claim (it may reach SMTP when there is
\* no draft to claim), or after SMTP.
LEMMA CallKeepsInv ==
  ASSUME IInv, NEW r \in Requests, NEW place \in Places, NEW answer \in Outcomes,
         pc' = [pc EXCEPT ![r] = place],
         outcome' = [outcome EXCEPT ![r] = answer],
         UNCHANGED <<uidvalidity, inboxvalidity, draft_sends, source, tried>>,
         pc[r] # "sending", place # "new",
         place = "claiming" => source[r] # None,
         place = "sending" => source[r] = None,
         pc[r] \notin {"new", "ready", "claiming"}
           => place \notin {"ready", "claiming", "sending"},
         answer \in {"lost", "no_recipients"} => place = "done",
         outcome[r] \in {"lost", "no_recipients"} => answer = outcome[r]
  PROVE  IInv'
<1>1. CallTypeOK'
  BY DEF IInv, CallTypeOK, Keys, Validities
<1>2. PlaceOK'
  BY DEF IInv, CallTypeOK, PlaceOK
<1>3. OwnersClaimed' /\ OneOwner'
  BY DEF IInv, CallTypeOK, OwnersClaimed, OneOwner, Owns
<1>4. ClaimMeansAttempt'
  BY DEF IInv, CallTypeOK, ClaimMeansAttempt
<1> QED
  BY <1>1, <1>2, <1>3, <1>4 DEF IInv

\* A call that leaves SMTP after it tried.
LEMMA TryKeepsInv ==
  ASSUME IInv, NEW r \in Requests, NEW place \in Places, NEW answer \in Outcomes,
         pc' = [pc EXCEPT ![r] = place],
         outcome' = [outcome EXCEPT ![r] = answer],
         UNCHANGED <<uidvalidity, inboxvalidity, draft_sends, source>>,
         tried' = tried \cup {r},
         pc[r] = "sending",
         place \notin {"new", "ready", "claiming", "sending"},
         answer \in {"lost", "no_recipients"} => place = "done"
  PROVE  IInv'
<1>1. CallTypeOK'
  BY DEF IInv, CallTypeOK, Keys, Validities
<1>2. PlaceOK'
  BY DEF IInv, CallTypeOK, PlaceOK
<1>3. OwnersClaimed' /\ OneOwner'
  BY DEF IInv, CallTypeOK, OwnersClaimed, OneOwner, Owns
<1>4. ClaimMeansAttempt'
  BY DEF IInv, CallTypeOK, ClaimMeansAttempt
<1> QED
  BY <1>1, <1>2, <1>3, <1>4 DEF IInv

\* A call that leaves SMTP without a try: it died first, or there was no recipient.
LEMMA GiveUpKeepsInv ==
  ASSUME IInv, NEW r \in Requests, NEW answer \in {"lost", "no_recipients"},
         pc' = [pc EXCEPT ![r] = "done"],
         outcome' = [outcome EXCEPT ![r] = answer],
         UNCHANGED <<uidvalidity, inboxvalidity, draft_sends, source, tried>>
  PROVE  IInv'
<1>1. CallTypeOK'
  BY DEF IInv, CallTypeOK, Keys, Validities, Places, Outcomes
<1>2. PlaceOK'
  BY DEF IInv, CallTypeOK, PlaceOK
<1>3. OwnersClaimed' /\ OneOwner'
  BY DEF IInv, CallTypeOK, OwnersClaimed, OneOwner, Owns
<1>4. ClaimMeansAttempt'
  BY DEF IInv, CallTypeOK, ClaimMeansAttempt
<1> QED
  BY <1>1, <1>2, <1>3, <1>4 DEF IInv

\* The one step that makes an owner: it needs a key nobody has claimed.
LEMMA ClaimKeepsInv ==
  ASSUME IInv, NEW r \in Requests, ClaimDraft(r)
  PROVE  IInv'
<1> USE DEF ClaimDraft, Goto, folderVars, draftsVars, inboxVars, callVars, historyVars
<1>1. CallTypeOK'
  BY DEF IInv, CallTypeOK, Keys, Validities, Places
<1>2. PlaceOK'
  BY DEF IInv, CallTypeOK, PlaceOK
<1>3. OwnersClaimed'
  BY DEF IInv, CallTypeOK, OwnersClaimed, Owns
<1>4. OneOwner'
  BY DEF IInv, CallTypeOK, OneOwner, OwnersClaimed, Owns
<1>5. ClaimMeansAttempt' /\ None \notin draft_sends'
  BY DEF IInv, CallTypeOK, PlaceOK, ClaimMeansAttempt
<1> QED
  BY <1>1, <1>2, <1>3, <1>4, <1>5 DEF IInv

\* A call becomes one of send_draft: it had no source, and was no owner.
LEMMA ReadKeepsInv ==
  ASSUME IInv, NEW r \in Requests, NEW u \in Uids, ReadDraft(r, u)
  PROVE  IInv'
<1> USE DEF ReadDraft, Goto, folderVars, draftsVars, inboxVars, storeVars, historyVars
<1>1. CallTypeOK'
  BY DEF IInv, CallTypeOK, Keys, Places
<1>2. PlaceOK'
  BY DEF IInv, CallTypeOK, PlaceOK
<1>3. OwnersClaimed' /\ OneOwner'
  BY DEF IInv, CallTypeOK, PlaceOK, OwnersClaimed, OneOwner, Owns
<1>4. ClaimMeansAttempt' /\ None \notin draft_sends'
  BY DEF IInv, CallTypeOK, PlaceOK, ClaimMeansAttempt
<1> QED
  BY <1>1, <1>2, <1>3, <1>4 DEF IInv

LEMMA NextKeepsInv == IInv /\ [Next]_vars => IInv'
<1> SUFFICES ASSUME IInv, [Next]_vars PROVE IInv'
  OBVIOUS
<1> USE DEF folderVars, draftsVars, inboxVars, storeVars, callVars, historyVars
<1>1. CASE UNCHANGED vars
  BY <1>1, OthersKeepInv DEF vars, IInv, CallTypeOK
<1>2. CASE \E d \in Drafts : SaveDraft(d)
  BY <1>2, OthersKeepInv DEF SaveDraft, IInv, CallTypeOK
<1>3. CASE \E u \in Uids : Discard(u)
  BY <1>3, OthersKeepInv DEF Discard, IInv, CallTypeOK
<1>4. CASE Renumber
  <2>1. uidvalidity' \in Validities
    BY <1>4, SendingAssumption DEF Renumber, IInv, CallTypeOK, Validities
  <2> QED
    BY <1>4, <2>1, OthersKeepInv DEF Renumber, IInv, CallTypeOK
<1>4a. CASE (\E u \in InboxUids : LoseMessage(u)) \/ RenumberInbox
  <2>1. inboxvalidity' \in Validities
    BY <1>4a, SendingAssumption DEF LoseMessage, RenumberInbox, IInv, CallTypeOK, Validities
  <2> QED
    BY <1>4a, <2>1, OthersKeepInv DEF LoseMessage, RenumberInbox, IInv, CallTypeOK
<1>5. ASSUME NEW r \in Requests, NEW u \in Uids, ReadDraft(r, u) PROVE IInv'
  BY <1>5, ReadKeepsInv
<1>6. ASSUME NEW r \in Requests, Expire(r) PROVE IInv'
  BY <1>6, OthersKeepInv DEF Expire, IInv, CallTypeOK
<1>7. ASSUME NEW r \in Requests, ClaimDraft(r) PROVE IInv'
  BY <1>7, ClaimKeepsInv
<1>8. ASSUME NEW r \in Requests, NoRecipients(r) PROVE IInv'
  BY <1>8, GiveUpKeepsInv DEF NoRecipients, Finish, Goto
<1>9. ASSUME NEW r \in Requests,
             SmtpAccepts(r) \/ SmtpFails(r) \/ (Crash(r) /\ tried' = tried \cup {r}
                                                /\ pc[r] = "sending")
      PROVE  IInv'
  <2>1. pc[r] = "sending" /\ tried' = tried \cup {r}
        /\ UNCHANGED <<uidvalidity, inboxvalidity, draft_sends, source>>
    BY <1>9 DEF SmtpAccepts, SmtpFails, Crash
  <2>2. outcome = [outcome EXCEPT ![r] = outcome[r]] /\ outcome[r] \in Outcomes
    BY DEF IInv, CallTypeOK
  <2>3. outcome[r] \notin {"lost", "no_recipients"}
    BY <2>1 DEF IInv, PlaceOK
  <2>4. PICK place \in {"filing", "answering", "removing", "done"}, answer \in Outcomes :
          /\ pc' = [pc EXCEPT ![r] = place]
          /\ outcome' = [outcome EXCEPT ![r] = answer]
          /\ answer \in {"lost", "no_recipients"} => place = "done"
    <3>1. CASE SmtpAccepts(r)
      <4>1. AfterSmtp(r) \in {"filing", "answering", "removing", "done"}
        BY DEF AfterSmtp, AfterFiling
      <4> QED
        BY <3>1, <2>2, <2>3, <4>1 DEF SmtpAccepts, Proceed, Finish, Goto, Outcomes
    <3>2. CASE SmtpFails(r)
      BY <3>2 DEF SmtpFails, Finish, Goto, Outcomes
    <3>3. CASE Crash(r)
      BY <3>3 DEF Crash, Finish, Goto, Outcomes
    <3> QED
      BY <1>9, <3>1, <3>2, <3>3
  <2> QED
    BY <2>1, <2>4, TryKeepsInv DEF Places
<1>10. ASSUME NEW r \in Requests, Crash(r),
              ~(tried' = tried \cup {r} /\ pc[r] = "sending")
       PROVE  IInv'
  BY <1>10, GiveUpKeepsInv DEF Crash, Finish, Goto
<1>11. ASSUME NEW r \in Requests,
              \/ Compose(r) \/ Refuse(r) \/ DryRun(r) \/ RecordSend(r) \/ RateLimited(r)
              \/ ClaimRefused(r) \/ FileCopy(r) \/ FilingFails(r) \/ FilingRaises(r)
              \/ MarkAnswered(r) \/ RemoveDraft(r) \/ CleanupFails(r)
       PROVE  IInv'
  <2>1. /\ pc[r] \notin {"sending", "done"}
        /\ UNCHANGED <<uidvalidity, inboxvalidity, draft_sends, source, tried>>
    BY <1>11 DEF Compose, Refuse, DryRun, RecordSend, RateLimited, ClaimRefused, FileCopy,
       FilingFails, FilingRaises, MarkAnswered, RemoveDraft, CleanupFails
  <2>2. outcome = [outcome EXCEPT ![r] = outcome[r]] /\ outcome[r] \in Outcomes
    BY DEF IInv, CallTypeOK
  <2>3. outcome[r] \notin {"lost", "no_recipients"}
    BY <2>1 DEF IInv, PlaceOK
  <2>4. PICK place \in Places \ {"new"}, answer \in Outcomes \ {"lost", "no_recipients"} :
          /\ pc' = [pc EXCEPT ![r] = place]
          /\ outcome' = [outcome EXCEPT ![r] = answer]
          /\ place = "claiming" => source[r] # None
          /\ place = "sending" => source[r] = None
          /\ pc[r] \notin {"new", "ready", "claiming"}
               => place \notin {"ready", "claiming", "sending"}
    <3> USE <2>2, <2>3 DEF Goto, Finish, Places, Outcomes
    <3>1. CASE Compose(r)
      BY <3>1 DEF Compose
    <3>2. CASE Refuse(r) \/ DryRun(r) \/ RateLimited(r) \/ ClaimRefused(r) \/ FilingRaises(r)
      BY <3>2 DEF Refuse, DryRun, RateLimited, ClaimRefused, FilingRaises
    <3>3. CASE RecordSend(r)
      BY <3>3 DEF RecordSend
    <3>4. CASE FileCopy(r) \/ FilingFails(r)
      <4>1. AfterFiling(r) \in {"answering", "removing", "done"}
        BY DEF AfterFiling
      <4> QED
        BY <3>4, <4>1 DEF FileCopy, FilingFails, Proceed
    <3>5. CASE MarkAnswered(r)
      BY <3>5 DEF MarkAnswered, Proceed
    <3>6. CASE RemoveDraft(r) \/ CleanupFails(r)
      BY <3>6 DEF RemoveDraft, CleanupFails
    <3> QED
      BY <1>11, <3>1, <3>2, <3>3, <3>4, <3>5, <3>6
  <2> QED
    BY <2>1, <2>3, <2>4, CallKeepsInv
<1> QED
  BY <1>1, <1>2, <1>3, <1>4, <1>5, <1>6, <1>7, <1>8, <1>9, <1>10, <1>11, <1>4a DEF Next

\* IInv holds in every reachable state.
LEMMA Invariance == Spec => []IInv
  BY InitInv, NextKeepsInv, PTL DEF Spec

\* For any number of calls, drafts and UIDs, however calls race, crash and are
\* repeated: a claim key goes into at most one SMTP transaction.
THEOREM SentOnce == Spec => []DraftSentOnce
<1>1. IInv => DraftSentOnce
  BY DEF IInv, CallTypeOK, OneOwner, Owns, DraftSentOnce
<1> QED
  BY <1>1, Invariance, PTL

\* Every claim was followed by an SMTP transaction, or its call was given up, or
\* the draft had no recipients: no refusal makes a draft unsendable.
THEOREM ClaimNeverWasted == Spec => []ClaimMeansAttempt
<1>1. IInv => ClaimMeansAttempt
  BY DEF IInv
<1> QED
  BY <1>1, Invariance, PTL

-----------------------------------------------------------------------------
(* The pipeline after SMTP.                                                *)

\* Above uidnext the folder is empty.
EmptyAbove == \A u \in Uids : u >= uidnext => folder[u] = None

\* Where a call read its draft there is this draft or none, while the numbering lasts.
SourceInv(r) ==
  source[r] # None =>
    /\ source[r] \in Keys /\ source[r][1] <= uidvalidity
    /\ source[r][1] = uidvalidity =>
         source[r][2] < uidnext /\ folder[source[r][2]] \in {None, draft[r]}

\* And where it found its original there is this message or none.
OriginalInv(r) ==
  answers[r] # None =>
    /\ answers[r] \in InboxKeys /\ original[r] \in Originals
    /\ answers[r][1] <= inboxvalidity
    /\ answers[r][1] = inboxvalidity => inbox[answers[r][2]] \in {None, original[r]}

\* A call that is past a stage has its effect or a warning.
Past(r, places) == pc[r] \in places \/ outcome[r] = "ok"
StageInv(r) ==
  /\ outcome[r] = "ok" => pc[r] = "done"
  /\ pc[r] = "new" => source[r] = None
  /\ pc[r] = "claiming" => source[r] # None
  /\ pc[r] = "answering" => answers[r] # None
  /\ pc[r] = "removing" => source[r] # None
  /\ Past(r, {"filing", "answering", "removing"}) => r \in mailed
  /\ Past(r, {"answering", "removing"}) /\ SaveSent => r \in filed \/ warnings[r] # {}
  /\ Past(r, {"removing"}) /\ answers[r] # None =>
       <<r, original[r]>> \in flagged \/ Displaced(r) \/ warnings[r] # {}
  /\ outcome[r] = "ok" /\ source[r] # None /\ UidPlus /\ source[r][1] = uidvalidity =>
       folder[source[r][2]] = None \/ warnings[r] # {}

PipelineInv ==
  TypeOK /\ EmptyAbove /\ \A r \in Requests : SourceInv(r) /\ OriginalInv(r) /\ StageInv(r)

LEMMA PipelineInit == Init => PipelineInv
<1> SUFFICES ASSUME Init PROVE PipelineInv
  OBVIOUS
<1>1. TypeOK
  BY SendingAssumption DEF Init, TypeOK, Validities, Uids, Places, Outcomes
<1>2. EmptyAbove /\ \A r \in Requests : SourceInv(r) /\ OriginalInv(r) /\ StageInv(r)
  BY DEF Init, EmptyAbove, SourceInv, OriginalInv, StageInv, Past
<1> QED
  BY <1>1, <1>2 DEF PipelineInv

\* As many messages as the folder has, it has UIDs for.
LEMMA HeldFinite ==
  ASSUME folder \in [Uids -> Drafts \cup {None}]
  PROVE  Cardinality(Held) \in 0..MaxUid
<1>1. IsFiniteSet(Uids) /\ Cardinality(Uids) = MaxUid /\ MaxUid \in Nat
  BY SendingAssumption, FS_Interval DEF Uids
<1>2. folder \in Surjection(Uids, Range(folder))
  BY DEF Surjection, Range
<1>3. IsFiniteSet(Range(folder)) /\ Cardinality(Range(folder)) <= MaxUid
  BY <1>1, <1>2, FS_Surjection
<1>4. Held \subseteq Range(folder)
  BY DEF Held
<1>5. IsFiniteSet(Held) /\ Cardinality(Held) <= Cardinality(Range(folder))
  BY <1>3, <1>4, FS_Subset
<1>6. Cardinality(Held) \in Nat /\ Cardinality(Range(folder)) \in Nat
  BY <1>3, <1>5, FS_CardinalityType
<1> QED
  BY <1>1, <1>3, <1>5, <1>6

LEMMA FolderKeepsPipeline ==
  ASSUME PipelineInv,
         (\E d \in Drafts : SaveDraft(d)) \/ (\E u \in Uids : Discard(u)) \/ Renumber
  PROVE  PipelineInv'
<1> USE DEF PipelineInv, inboxVars, storeVars, callVars, historyVars
<1>0. /\ uidnext \in 1..MaxUid + 1 /\ MaxUid \in Nat /\ uidvalidity \in Validities
      /\ folder \in [Uids -> Drafts \cup {None}] /\ discarded \subseteq Drafts
      /\ inboxvalidity \in Validities
  BY SendingAssumption DEF TypeOK
<1>1. ASSUME NEW d \in Drafts, SaveDraft(d) PROVE PipelineInv'
  <2>1. /\ uidnext \in Uids /\ uidnext' = uidnext + 1
        /\ folder' = [folder EXCEPT ![uidnext] = d]
        /\ UNCHANGED <<uidvalidity, inboxvalidity, inbox, send_log, draft_sends, pc,
                       source, draft, answers, original, warnings, outcome, tried, mailed,
                       filed, flagged, discarded>>
    BY <1>0, <1>1 DEF SaveDraft, Uids
  <2>2. TypeOK'
    BY <1>0, <2>1 DEF TypeOK, Uids
  <2>3. EmptyAbove'
    BY <1>0, <2>1 DEF EmptyAbove, Uids
  <2>4. ASSUME NEW r \in Requests PROVE (SourceInv(r) /\ OriginalInv(r) /\ StageInv(r))'
    <3>1. source[r] # None /\ source[r][1] = uidvalidity =>
            /\ source[r][2] \in Uids /\ source[r][2] < uidnext
            /\ folder'[source[r][2]] = folder[source[r][2]]
      BY <1>0, <2>1 DEF SourceInv, Keys, Uids
    <3>2. SourceInv(r)'
      BY <1>0, <2>1, <3>1 DEF SourceInv, Keys, Uids
    <3>3. OriginalInv(r)' /\ StageInv(r)'
      BY <2>1, <3>1 DEF OriginalInv, StageInv, Displaced, Past
    <3> QED
      BY <3>2, <3>3
  <2> QED
    BY <2>2, <2>3, <2>4
<1>2. ASSUME NEW u \in Uids, Discard(u) PROVE PipelineInv'
  <2>1. /\ folder' = [folder EXCEPT ![u] = None] /\ discarded' = discarded \cup {folder[u]}
        /\ folder[u] \in Drafts
        /\ UNCHANGED <<uidvalidity, uidnext, inboxvalidity, inbox, send_log, draft_sends,
                       pc, source, draft, answers, original, warnings, outcome, tried,
                       mailed, filed, flagged>>
    BY <1>0, <1>2 DEF Discard
  <2>2. TypeOK'
    BY <1>0, <2>1 DEF TypeOK
  <2>3. EmptyAbove'
    BY <1>0, <2>1 DEF EmptyAbove
  <2>4. ASSUME NEW r \in Requests PROVE (SourceInv(r) /\ OriginalInv(r) /\ StageInv(r))'
    <3>1. \A x \in Uids : folder'[x] \in {None, folder[x]}
      BY <1>0, <2>1
    <3>2. source[r] # None => source[r] \in Keys /\ source[r][2] \in Uids
      BY DEF SourceInv, Keys
    <3> QED
      BY <2>1, <3>1, <3>2 DEF SourceInv, OriginalInv, StageInv, Displaced, Past
  <2> QED
    BY <2>2, <2>3, <2>4
<1>3. CASE Renumber
  <2> DEFINE n == Cardinality(Held)
  <2>1. n \in 0..MaxUid
    BY <1>0, HeldFinite
  <2>2. PICK order \in [1..n -> Held] :
          folder' = [u \in Uids |-> IF u \in DOMAIN order THEN order[u] ELSE None]
    BY <1>3 DEF Renumber
  <2>3. /\ uidvalidity' = uidvalidity + 1 /\ uidnext' = n + 1 /\ uidvalidity' \in Validities
        /\ UNCHANGED <<inboxvalidity, inbox, send_log, draft_sends, pc, source, draft, answers,
                       original, warnings, outcome, tried, mailed, filed, flagged, discarded>>
    BY <1>0, <1>3, SendingAssumption DEF Renumber, Validities
  <2>4. folder' \in [Uids -> Drafts \cup {None}]
    <3>1. Held \subseteq Drafts
      BY <1>0 DEF Held, Range
    <3> QED
      BY <2>2, <3>1
  <2>5. TypeOK'
    BY <1>0, <2>1, <2>3, <2>4 DEF TypeOK
  <2>6. EmptyAbove'
    BY <2>1, <2>2, <2>3 DEF EmptyAbove, Uids
  <2>7. ASSUME NEW r \in Requests PROVE (SourceInv(r) /\ OriginalInv(r) /\ StageInv(r))'
    <3>1. source[r] # None => source[r] \in Keys /\ source[r][1] < uidvalidity'
      BY <1>0, <2>3 DEF SourceInv, Keys, Validities
    <3> QED
      BY <1>0, <2>3, <3>1
         DEF SourceInv, OriginalInv, StageInv, Displaced, Past, Keys, Validities
  <2> QED
    BY <2>5, <2>6, <2>7
<1> QED
  BY <1>1, <1>2, <1>3

\* The steps of others on the folder of the originals: what a call found is there
\* still, or is displaced for good.
LEMMA InboxKeepsPipeline ==
  ASSUME PipelineInv, (\E u \in InboxUids : LoseMessage(u)) \/ RenumberInbox
  PROVE  PipelineInv'
<1> USE DEF PipelineInv, draftsVars, storeVars, callVars, historyVars
<1>0. /\ uidvalidity \in Validities /\ inboxvalidity \in Validities /\ MaxValidity \in Nat
      /\ inbox \in [InboxUids -> Originals \cup {Other, None}] /\ None \notin Originals
  BY SendingAssumption DEF TypeOK
<1>1. /\ UNCHANGED <<uidvalidity, uidnext, folder, send_log, draft_sends, pc, source, draft,
                     answers, original, warnings, outcome, tried, mailed, filed, flagged,
                     discarded>>
      /\ inboxvalidity' \in Validities
      /\ inbox' \in [InboxUids -> Originals \cup {Other, None}]
      /\ \/ inboxvalidity' = inboxvalidity + 1
         \/ inboxvalidity' = inboxvalidity
              /\ \A u \in InboxUids : inbox'[u] \in {None, inbox[u]}
  <2>1. CASE \E u \in InboxUids : LoseMessage(u)
    BY <1>0, <2>1 DEF LoseMessage
  <2>2. CASE RenumberInbox
    <3>1. inbox' \in [InboxUids -> Originals \cup {Other, None}]
      BY <2>2 DEF RenumberInbox
    <3> QED
      BY <1>0, <2>2, <3>1 DEF RenumberInbox, Validities
  <2> QED
    BY <2>1, <2>2
<1>2. TypeOK' /\ EmptyAbove'
  BY <1>1 DEF TypeOK, EmptyAbove
<1>3. ASSUME NEW r \in Requests PROVE (SourceInv(r) /\ OriginalInv(r) /\ StageInv(r))'
  <2>1. OriginalInv(r)' /\ (answers[r] # None /\ Displaced(r) => Displaced(r)')
    BY <1>0, <1>1 DEF OriginalInv, Displaced, InboxKeys, Validities
  <2>2. SourceInv(r)'
    BY <1>1 DEF SourceInv
  <2>3. StageInv(r)'
    BY <1>1, <2>1 DEF StageInv, Past
  <2> QED
    BY <2>1, <2>2, <2>3
<1> QED
  BY <1>2, <1>3

\* What a step of one call leaves alone for the others.
LEMMA CallFrame ==
  ASSUME PipelineInv, NEW r \in Requests,
         TypeOK', SourceInv(r)', OriginalInv(r)', StageInv(r)',
         UNCHANGED <<uidvalidity, uidnext, inboxvalidity, inbox>>,
         \A u \in Uids : folder'[u] \in {None, folder[u]},
         mailed \subseteq mailed', filed \subseteq filed', flagged \subseteq flagged',
         \A s \in Requests \ {r} :
           /\ pc'[s] = pc[s] /\ source'[s] = source[s] /\ draft'[s] = draft[s]
           /\ answers'[s] = answers[s] /\ original'[s] = original[s]
           /\ warnings'[s] = warnings[s] /\ outcome'[s] = outcome[s]
  PROVE  PipelineInv'
<1>1. EmptyAbove'
  BY DEF PipelineInv, EmptyAbove
<1>2. ASSUME NEW s \in Requests \ {r} PROVE (SourceInv(s) /\ OriginalInv(s) /\ StageInv(s))'
  <2>1. SourceInv(s) /\ OriginalInv(s) /\ StageInv(s)
    BY DEF PipelineInv
  <2>2. source[s] # None => source[s][2] \in Uids
    BY <2>1 DEF SourceInv, Keys
  <2>3. SourceInv(s)' /\ OriginalInv(s)'
    BY <2>1, <2>2 DEF SourceInv, OriginalInv
  <2>4. StageInv(s)'
    BY <2>1, <2>2 DEF StageInv, Displaced, Past
  <2> QED
    BY <2>3, <2>4
<1> QED
  BY <1>1, <1>2 DEF PipelineInv

\* The steps of a call up to SMTP, and the ends it may have short of success.
LEMMA EarlyKeepsPipeline ==
  ASSUME PipelineInv, NEW r \in Requests,
         \/ Compose(r) \/ (\E u \in Uids : ReadDraft(r, u)) \/ Refuse(r)
         \/ DryRun(r) \/ RecordSend(r) \/ RateLimited(r) \/ ClaimDraft(r) \/ ClaimRefused(r)
         \/ SmtpFails(r) \/ NoRecipients(r) \/ FilingRaises(r) \/ Crash(r) \/ Expire(r)
  PROVE  PipelineInv'
<1> USE DEF folderVars, draftsVars, inboxVars, storeVars, callVars, historyVars
<1>0. TypeOK /\ SourceInv(r) /\ OriginalInv(r) /\ StageInv(r)
  BY DEF PipelineInv
<1>0a. ASSUME FindOriginal(r), UNCHANGED <<inboxvalidity, inbox>>
      PROVE  /\ answers' \in [Requests -> InboxKeys \cup {None}]
             /\ original' \in [Requests -> Originals \cup {None}]
             /\ \A s \in Requests \ {r} : answers'[s] = answers[s] /\ original'[s] = original[s]
             /\ OriginalInv(r)'
  <2>0. /\ answers \in [Requests -> InboxKeys \cup {None}] /\ inboxvalidity \in Nat
        /\ original \in [Requests -> Originals \cup {None}] /\ inboxvalidity \in Validities
    BY <1>0 DEF TypeOK, Validities
  <2>1. CASE UNCHANGED <<answers, original>>
    BY <1>0, <1>0a, <2>0, <2>1 DEF OriginalInv
  <2>2. ASSUME NEW u \in InboxUids, inbox[u] \in Originals,
               answers' = [answers EXCEPT ![r] = <<inboxvalidity, u>>],
               original' = [original EXCEPT ![r] = inbox[u]]
        PROVE  /\ answers' \in [Requests -> InboxKeys \cup {None}]
               /\ original' \in [Requests -> Originals \cup {None}]
               /\ \A s \in Requests \ {r} :
                    answers'[s] = answers[s] /\ original'[s] = original[s]
               /\ OriginalInv(r)'
    <3>1. <<inboxvalidity, u>> \in InboxKeys
      BY <2>0 DEF InboxKeys
    <3> QED
      BY <1>0a, <2>0, <2>2, <3>1 DEF OriginalInv
  <2> QED
    BY <1>0a, <2>1, <2>2 DEF FindOriginal
<1>1. ASSUME Compose(r) PROVE PipelineInv'
  <2>1. TypeOK'
    BY <1>0, <1>1, <1>0a DEF Compose, Goto, TypeOK, Places
  <2>2. (SourceInv(r) /\ OriginalInv(r) /\ StageInv(r))'
    BY <1>0, <1>1, <1>0a
       DEF Compose, Goto, TypeOK, SourceInv, OriginalInv, StageInv, Displaced, Past
  <2> QED
    BY <1>0, <1>1, <1>0a, <2>1, <2>2, CallFrame DEF Compose, Goto, TypeOK
<1>2. ASSUME NEW u \in Uids, ReadDraft(r, u) PROVE PipelineInv'
  <2>1. folder[u] \in Drafts /\ u < uidnext /\ <<uidvalidity, u>> \in Keys /\ uidvalidity \in Nat
    BY <1>0, <1>2 DEF PipelineInv, EmptyAbove, ReadDraft, TypeOK, Keys, Validities, Uids
  <2>2. TypeOK'
    BY <1>0, <1>2, <1>0a, <2>1 DEF ReadDraft, Goto, TypeOK, Places
  <2>3. SourceInv(r)'
    BY <1>0, <1>2, <2>1 DEF ReadDraft, TypeOK, SourceInv
  <2>4. StageInv(r)'
    BY <1>0, <1>2, <2>1 DEF ReadDraft, Goto, TypeOK, StageInv, Displaced, Past
  <2> QED
    BY <1>0, <1>2, <1>0a, <2>2, <2>3, <2>4, CallFrame DEF ReadDraft, Goto, TypeOK
<1>3. ASSUME \/ Refuse(r) \/ DryRun(r) \/ RateLimited(r) \/ ClaimRefused(r)
             \/ SmtpFails(r) \/ NoRecipients(r) \/ FilingRaises(r) \/ Crash(r)
      PROVE  PipelineInv'
  <2>1. PICK answer \in Outcomes \ {"ok"} :
          /\ pc' = [pc EXCEPT ![r] = "done"] /\ outcome' = [outcome EXCEPT ![r] = answer]
          /\ tried' \in {tried, tried \cup {r}} /\ mailed' \in {mailed, mailed \cup {r}}
          /\ UNCHANGED <<uidvalidity, uidnext, folder, inboxvalidity, inbox, send_log, draft_sends,
                         source, draft, answers, original, warnings, filed, flagged, discarded>>
    BY <1>3 DEF Refuse, DryRun, RateLimited, ClaimRefused, SmtpFails, NoRecipients,
       FilingRaises, Crash, Finish, Goto, Outcomes
  <2>2. TypeOK'
    BY <1>0, <2>1 DEF TypeOK, Places
  <2>3. (SourceInv(r) /\ OriginalInv(r) /\ StageInv(r))'
    BY <1>0, <2>1 DEF TypeOK, SourceInv, OriginalInv, StageInv, Displaced, Past
  <2> QED
    BY <1>0, <2>1, <2>2, <2>3, CallFrame DEF TypeOK
<1>4. ASSUME RecordSend(r) \/ ClaimDraft(r) PROVE PipelineInv'
  <2>1. PICK place \in {"claiming", "sending"} :
          /\ pc' = [pc EXCEPT ![r] = place]
          /\ send_log' \in {send_log, send_log \cup {r}}
          /\ draft_sends' \in {draft_sends, draft_sends \cup {source[r]}}
          /\ draft_sends' # draft_sends => pc[r] = "claiming"
          /\ pc[r] \in {"ready", "claiming"}
          /\ place = "claiming" => source[r] # None
          /\ UNCHANGED <<uidvalidity, uidnext, folder, inboxvalidity, inbox, source, draft, answers,
                         original, warnings, outcome, tried, mailed, filed, flagged, discarded>>
    BY <1>4 DEF RecordSend, ClaimDraft, Goto
  <2>2. pc[r] = "claiming" => source[r] # None
    BY <1>0 DEF StageInv
  <2>3. TypeOK'
    BY <1>0, <2>1, <2>2 DEF TypeOK, Places
  <2>4. (SourceInv(r) /\ OriginalInv(r) /\ StageInv(r))'
    BY <1>0, <2>1 DEF TypeOK, SourceInv, OriginalInv, StageInv, Displaced, Past
  <2> QED
    BY <1>0, <2>1, <2>3, <2>4, CallFrame DEF TypeOK
<1>5. ASSUME Expire(r) PROVE PipelineInv'
  <2>1. TypeOK'
    BY <1>0, <1>5 DEF Expire, TypeOK
  <2>2. (SourceInv(r) /\ OriginalInv(r) /\ StageInv(r))'
    BY <1>0, <1>5 DEF Expire, SourceInv, OriginalInv, StageInv, Displaced, Past
  <2> QED
    BY <1>0, <1>5, <2>1, <2>2, CallFrame DEF Expire, TypeOK
<1> QED
  BY <1>1, <1>2, <1>3, <1>4, <1>5

\* The steps of a call after SMTP accepted its mail.
LEMMA LateKeepsPipeline ==
  ASSUME PipelineInv, NEW r \in Requests,
         \/ SmtpAccepts(r) \/ FileCopy(r) \/ FilingFails(r)
         \/ MarkAnswered(r) \/ RemoveDraft(r) \/ CleanupFails(r)
  PROVE  PipelineInv'
<1> USE DEF folderVars, draftsVars, inboxVars, storeVars, callVars, historyVars
<1>0. /\ TypeOK /\ SourceInv(r) /\ OriginalInv(r) /\ StageInv(r)
      /\ pc \in [Requests -> Places] /\ outcome \in [Requests -> Outcomes]
  BY DEF PipelineInv, TypeOK
<1>0a. pc[r] = "answering" =>
        /\ Marked(r) \subseteq Requests \X (Originals \cup {Other})
        /\ flagged \subseteq Marked(r)
        /\ <<r, original[r]>> \in Marked(r) \/ Displaced(r)
  <2> SUFFICES ASSUME pc[r] = "answering"
               PROVE  /\ Marked(r) \subseteq Requests \X (Originals \cup {Other})
                      /\ flagged \subseteq Marked(r)
                      /\ <<r, original[r]>> \in Marked(r) \/ Displaced(r)
    OBVIOUS
  <2>1. /\ answers[r] # None /\ answers[r][2] \in InboxUids
        /\ original[r] \in Originals /\ None \notin Originals
        /\ inbox \in [InboxUids -> Originals \cup {Other, None}]
        /\ flagged \subseteq Requests \X (Originals \cup {Other})
    BY <1>0, SendingAssumption DEF StageInv, OriginalInv, InboxKeys, TypeOK
  <2>2. inbox[answers[r][2]] \in Originals \cup {Other, None}
    BY <2>1
  <2> QED
    BY <2>1, <2>2 DEF Marked, Displaced
<1>1. ASSUME SmtpAccepts(r) \/ FileCopy(r) \/ FilingFails(r) \/ MarkAnswered(r)
      PROVE  PipelineInv'
  <2>1. PICK place \in {"filing", "answering", "removing", "done"} :
          /\ Proceed(r, place)
          /\ SmtpAccepts(r) => place = AfterSmtp(r)
          /\ FileCopy(r) \/ FilingFails(r) => place = AfterFiling(r)
          /\ MarkAnswered(r) => place = IF source[r] # None THEN "removing" ELSE "done"
    BY <1>1 DEF SmtpAccepts, FileCopy, FilingFails, MarkAnswered, AfterSmtp, AfterFiling
  <2>2. PICK answer \in Outcomes :
          /\ pc' = [pc EXCEPT ![r] = place] /\ outcome' = [outcome EXCEPT ![r] = answer]
          /\ answer = IF place = "done" THEN "ok" ELSE outcome[r]
    BY <1>0, <2>1 DEF Proceed, Finish, Goto, Outcomes
  <2>3. /\ UNCHANGED <<uidvalidity, uidnext, folder, inboxvalidity, inbox, send_log, draft_sends,
                       source, draft, answers, original, discarded>>
        /\ tried' \in {tried, tried \cup {r}} /\ mailed' \in {mailed, mailed \cup {r}}
        /\ filed' \in {filed, filed \cup {r}}
        /\ warnings' \in {warnings, [warnings EXCEPT ![r] = @ \cup {"sent_copy_failed"}]}
    BY <1>1 DEF SmtpAccepts, FileCopy, FilingFails, MarkAnswered
  <2>3a. flagged \subseteq flagged' /\ flagged' \subseteq Requests \X (Originals \cup {Other})
    <3>1. flagged \subseteq Requests \X (Originals \cup {Other})
      BY <1>0 DEF TypeOK
    <3>2. flagged' = flagged \/ (pc[r] = "answering" /\ flagged' = Marked(r))
      BY <1>1 DEF SmtpAccepts, FileCopy, FilingFails, MarkAnswered
    <3> QED
      BY <1>0a, <3>1, <3>2
  <2>4. TypeOK'
    BY <1>0, <2>2, <2>3, <2>3a DEF TypeOK, Places, Warnings
  <2>5. /\ warnings'[r] \in {warnings[r], warnings[r] \cup {"sent_copy_failed"}}
        /\ pc'[r] = place
        /\ outcome'[r] = IF place = "done" THEN "ok" ELSE outcome[r]
        /\ pc[r] # "done" /\ pc[r] # "new" /\ outcome[r] # "ok"
    BY <1>0, <1>1, <2>2, <2>3
       DEF TypeOK, StageInv, SmtpAccepts, FileCopy, FilingFails, MarkAnswered
  <2>6. SourceInv(r)' /\ OriginalInv(r)'
    BY <1>0, <2>3 DEF SourceInv, OriginalInv
  <2>7. StageInv(r)'
    <3>1. CASE SmtpAccepts(r)
      BY <1>0, <2>1, <2>3, <2>5, <3>1
         DEF SmtpAccepts, AfterSmtp, AfterFiling, StageInv, Displaced, Past
    <3>2. CASE FileCopy(r)
      BY <1>0, <2>1, <2>3, <2>5, <3>2 DEF FileCopy, AfterFiling, StageInv, Displaced, Past
    <3>3. CASE FilingFails(r)
      <4>1. warnings'[r] # {}
        BY <1>0, <3>3 DEF FilingFails, TypeOK
      <4> QED
        BY <1>0, <2>1, <2>3, <2>5, <3>3, <4>1
           DEF FilingFails, AfterFiling, StageInv, Displaced, Past
    <3>4. CASE MarkAnswered(r)
      <4>1. /\ flagged' = Marked(r) /\ pc[r] = "answering" /\ r \in mailed
            /\ <<r, original[r]>> \in flagged' \/ Displaced(r)'
            /\ UNCHANGED <<mailed, filed, warnings>>
        BY <1>0, <1>0a, <2>3, <3>4 DEF MarkAnswered, StageInv, Displaced, Past
      <4> QED
        BY <1>0, <2>1, <2>3, <2>5, <3>4, <4>1 DEF MarkAnswered, StageInv, Past
    <3> QED
      BY <1>1, <3>1, <3>2, <3>3, <3>4
  <2> QED
    BY <1>0, <2>2, <2>3, <2>4, <2>6, <2>7, <2>3a, CallFrame DEF TypeOK
<1>2. ASSUME RemoveDraft(r) \/ CleanupFails(r) PROVE PipelineInv'
  <2>1. /\ pc' = [pc EXCEPT ![r] = "done"] /\ outcome' = [outcome EXCEPT ![r] = "ok"]
        /\ pc[r] \in {"answering", "removing"}
        /\ folder' \in {folder, Removed(r)} /\ (folder' # folder => pc[r] = "removing")
        /\ UNCHANGED <<uidvalidity, uidnext, inboxvalidity, inbox, send_log, draft_sends, source,
                       draft, answers, original, tried, mailed, filed, discarded>>
    BY <1>2 DEF RemoveDraft, CleanupFails, Finish, Goto
  <2>3a. flagged \subseteq flagged' /\ flagged' \subseteq Requests \X (Originals \cup {Other})
    <3>1. flagged \subseteq Requests \X (Originals \cup {Other})
      BY <1>0 DEF TypeOK
    <3>2. flagged' = flagged \/ (pc[r] = "answering" /\ flagged' = Marked(r))
      BY <1>2 DEF RemoveDraft, CleanupFails
    <3> QED
      BY <1>0a, <3>1, <3>2
  <2>2. pc[r] = "removing" => source[r] # None /\ source[r][2] \in Uids
    BY <1>0 DEF StageInv, SourceInv, Keys
  <2>3. folder' \in [Uids -> Drafts \cup {None}]
        /\ \A u \in Uids : folder'[u] \in {None, folder[u]}
    BY <1>0, <2>1, <2>2 DEF TypeOK, Removed
  <2>4. /\ warnings' \in [Requests -> SUBSET Warnings]
        /\ \A q \in Requests \ {r} : warnings'[q] = warnings[q]
        /\ CleanupFails(r) => warnings'[r] # {}
    <3>0. warnings \in [Requests -> SUBSET Warnings]
      BY <1>0 DEF TypeOK
    <3>1. CASE RemoveDraft(r) /\ ~CleanupFails(r)
      BY <3>0, <3>1 DEF RemoveDraft
    <3>2. CASE CleanupFails(r)
      BY <3>0, <3>2 DEF CleanupFails, Warnings
    <3> QED
      BY <1>2, <3>1, <3>2
  <2>5. TypeOK'
    <3>1. pc' \in [Requests -> Places] /\ outcome' \in [Requests -> Outcomes]
      BY <1>0, <2>1 DEF Places, Outcomes
    <3>3. UNCHANGED <<uidvalidity, uidnext, inboxvalidity, inbox, send_log, draft_sends, source,
                      draft, answers, original, tried, mailed, filed, discarded>>
      BY <2>1
    <3> QED
      BY <1>0, <2>3, <2>4, <2>3a, <3>1, <3>3 DEF TypeOK
  <2>6. SourceInv(r)' /\ OriginalInv(r)'
    BY <1>0, <2>1, <2>3 DEF SourceInv, OriginalInv, Keys
  <2>7. StageInv(r)'
    <3>1. pc'[r] = "done" /\ outcome'[r] = "ok"
      BY <1>0, <2>1
    <3>2. CASE CleanupFails(r)
      BY <1>0, <2>1, <2>4, <2>3a, <3>1, <3>2 DEF StageInv, Displaced, Past
    <3>3. CASE RemoveDraft(r)
      <4>1. /\ pc[r] = "removing" /\ (UidPlus => folder'[source[r][2]] = None)
            /\ warnings' = warnings
        BY <1>0, <2>2, <3>3 DEF RemoveDraft, Removed, TypeOK
      <4> QED
        BY <1>0, <2>1, <2>4, <2>3a, <3>1, <3>3, <4>1 DEF StageInv, Displaced, Past
    <3> QED
      BY <1>2, <3>2, <3>3
  <2> QED
    BY <1>0, <2>1, <2>3, <2>4, <2>5, <2>6, <2>7, <2>3a, CallFrame DEF TypeOK
<1> QED
  BY <1>1, <1>2

LEMMA NextKeepsPipeline == PipelineInv /\ [Next]_vars => PipelineInv'
<1>1. PipelineInv /\ Next => PipelineInv'
  BY FolderKeepsPipeline, InboxKeepsPipeline, EarlyKeepsPipeline, LateKeepsPipeline DEF Next
<1>2. PipelineInv /\ UNCHANGED vars => PipelineInv'
  BY DEF vars, PipelineInv, TypeOK, EmptyAbove, SourceInv, OriginalInv, StageInv, Displaced,
     Past
<1> QED
  BY <1>1, <1>2

LEMMA PipelineInvariance == Spec => []PipelineInv
  BY PipelineInit, NextKeepsPipeline, PTL DEF Spec

\* The folder, the tables, the calls and the history have their types.
THEOREM SendingTyped == Spec => []TypeOK
<1>1. PipelineInv => TypeOK
  BY DEF PipelineInv
<1> QED
  BY <1>1, PipelineInvariance, PTL

\* However steps fail, "ok" without a warning means that the mail has left for at least
\* one recipient and has its copy in Sent, that its original is flagged, unless it is no
\* longer where the call read it, and that its draft is gone.
THEOREM SilentSuccess == Spec => []SilentSuccessIsComplete
<1>1. PipelineInv => SilentSuccessIsComplete
  BY DEF PipelineInv, StageInv, Past, SilentSuccessIsComplete
<1> QED
  BY <1>1, PipelineInvariance, PTL

\* Only a call that cleans up by a UID it read under another numbering takes a draft
\* that nobody discarded or mailed, or flags a message it does not answer; and only a
\* call whose mail has left flags anything.
THEOREM OnlyRenumbering == Spec => OnlyRenumberingHitsOthers
<1> DEFINE Excused(u) ==
      \/ Disposed(folder[u])
      \/ \E r \in mailed :
           pc[r] = "removing" /\ source[r][1] # uidvalidity /\ source[r][2] = u
    Marks(r, m) == <<r, m>> \in flagged' \ flagged
    Earned(r, m) == r \in mailed /\ (m = original[r] \/ answers[r][1] # inboxvalidity)
<1>1. ASSUME PipelineInv, Next, NEW u \in Uids, Vanishes(u) PROVE Excused(u)
  <2>0. /\ folder \in [Uids -> Drafts \cup {None}] /\ uidnext \in Nat
        /\ folder[u] # None /\ folder'[u] = None /\ uidvalidity' = uidvalidity
        /\ uidvalidity \in Nat /\ None \notin Drafts
    BY <1>1, SendingAssumption DEF PipelineInv, TypeOK, Vanishes, Validities
  <2>1. ASSUME NEW d \in Drafts, SaveDraft(d) PROVE FALSE
    BY <2>0, <2>1 DEF SaveDraft
  <2>2. ASSUME NEW x \in Uids, Discard(x) PROVE Disposed(folder[u])
    BY <2>0, <2>2 DEF Discard, Disposed
  <2>3. CASE Renumber
    BY <2>0, <2>3 DEF Renumber
  <2>4. ASSUME NEW r \in Requests, RemoveDraft(r) \/ CleanupFails(r) PROVE Excused(u)
    <3>1. SourceInv(r) /\ StageInv(r)
      BY <1>1 DEF PipelineInv
    <3>2. pc[r] = "removing" /\ u = source[r][2] /\ mailed' = mailed
      BY <2>0, <2>4 DEF RemoveDraft, CleanupFails, Removed, historyVars
    <3>3. source[r] # None /\ r \in mailed
      BY <3>1, <3>2 DEF StageInv, Past
    <3>4. source[r][1] = uidvalidity => folder[u] = draft[r]
      BY <2>0, <3>1, <3>2, <3>3 DEF SourceInv
    <3> QED
      BY <3>2, <3>3, <3>4 DEF Disposed
  <2>5. ASSUME UNCHANGED folder PROVE FALSE
    BY <2>0, <2>5
  <2> QED
    BY <1>1, <2>1, <2>2, <2>3, <2>4, <2>5
       DEF Next, folderVars, draftsVars, LoseMessage, RenumberInbox, Compose, ReadDraft,
           Refuse, DryRun, RecordSend, RateLimited, ClaimDraft, ClaimRefused, SmtpAccepts,
           SmtpFails, NoRecipients, FileCopy, FilingFails, FilingRaises, MarkAnswered, Crash,
           Expire
<1>2. ASSUME PipelineInv, Next, NEW r \in Requests, NEW m \in Originals \cup {Other},
             Marks(r, m)
      PROVE  Earned(r, m)
  <2>1. PICK q \in Requests : MarkAnswered(q) \/ CleanupFails(q)
    BY <1>2
       DEF Next, historyVars, SaveDraft, Discard, Renumber, LoseMessage, RenumberInbox,
           Compose, ReadDraft, Refuse, DryRun, RecordSend, RateLimited, ClaimDraft,
           ClaimRefused, SmtpAccepts, SmtpFails, NoRecipients, FileCopy, FilingFails,
           FilingRaises, RemoveDraft, Crash, Expire
  <2>2. /\ pc[q] = "answering"
        /\ q = r /\ m = inbox[answers[r][2]] /\ m # None
    BY <1>2, <2>1 DEF MarkAnswered, CleanupFails, Marked
  <2>3. OriginalInv(r) /\ StageInv(r)
    BY <1>2 DEF PipelineInv
  <2>4. r \in mailed /\ answers[r] # None
    BY <2>2, <2>3 DEF StageInv, Past
  <2> QED
    BY <2>2, <2>3, <2>4 DEF OriginalInv
<1>3. PipelineInv /\ [Next]_vars =>
        [/\ \A u \in Uids : Vanishes(u) => Excused(u)
         /\ \A r \in Requests, m \in Originals \cup {Other} :
              Marks(r, m) => Earned(r, m)]_vars
  BY <1>1, <1>2
<1>4. [](PipelineInv) /\ [][Next]_vars =>
        [][/\ \A u \in Uids : Vanishes(u) => Excused(u)
           /\ \A r \in Requests, m \in Originals \cup {Other} :
                Marks(r, m) => Earned(r, m)]_vars
  BY <1>3, PTL
<1> QED
  BY <1>4, PipelineInvariance, PTL DEF Spec, OnlyRenumberingHitsOthers
=============================================================================

----------------------------- MODULE ServiceProofs -----------------------------
(***************************************************************************)
(* The calls.  Whatever is configured and whoever calls, nothing is done   *)
(* to a mailbox or shown of it without the scope for it and the right to   *)
(* see it.  The argument: the work of a call begins when none of its       *)
(* checks fails, and each operation has among its checks those that its    *)
(* deeds call for.                                                         *)
(*                                                                         *)
(* The mail.  Whatever arrives, a reply reaches whom it should and is      *)
(* found again.  The argument: what a reply keeps of the message it        *)
(* answers, and, for the groups, what a union-find joins.  The folds of    *)
(* the model are first shown to be computed element by element: an         *)
(* induction, for which it is enough that a nonempty set of numbers has a  *)
(* least element.                                                          *)
(***************************************************************************)
EXTENDS Service, FiniteSetTheorems, SequenceTheorems, WellFoundedInduction, TLAPS

\* Every nonempty set of numbers has a least one.
LEMMA LeastNumber ==
  ASSUME NEW T \in SUBSET Nat, T # {}
  PROVE  \E n \in T : \A m \in T : n <= m
<1> DEFINE R == OpToRel(<, Nat)
<1>1. IsWellFoundedOn(R, Nat)
  BY NatLessThanWellFounded
<1>2. \E x \in T : \A y \in T : ~(<<y, x>> \in R)
  <2> HIDE DEF R
  <2> QED
    BY <1>1, WFMin
<1>3. \A x, y \in Nat : <<y, x>> \in R <=> y < x
  BY DEF OpToRel
<1> HIDE DEF R
<1>4. PICK n \in T : \A m \in T : ~(<<m, n>> \in R)
  BY <1>2
<1>5. \A m \in T : ~(m < n)
  BY <1>3, <1>4
<1>6. \A m \in T : n <= m
  BY <1>5
<1> QED
  BY <1>6

\* What CHOOSE takes as the first of some positions is the first.
LEMMA FirstOf ==
  ASSUME NEW S \in SUBSET Nat, S # {}
  PROVE  /\ (CHOOSE i \in S : \A j \in S : i <= j) \in S
         /\ \A j \in S : (CHOOSE i \in S : \A k \in S : i <= k) <= j
<1>1. PICK i \in S : \A j \in S : i <= j
  BY LeastNumber
<1> QED
  BY <1>1

\* A name that resolves does so to a mailbox that the token sees.
LEMMA ResolvedIsSeen ==
  ASSUME NEW t \in Tokens, NEW ident, Resolve(t, ident) # None
  PROVE  Sees(t, Resolve(t, ident)) /\ Resolve(t, ident) \in Mailboxes
<1> DEFINE hits == Hits(t, ident)
           first == CHOOSE k \in hits : \A j \in hits : k <= j
<1>1. hits # {} /\ hits \in SUBSET Nat
  BY AccessAssumption DEF Resolve, Hits
<1>2. first \in hits
  BY <1>1, FirstOf
<1>3. Resolve(t, ident) = Configured[first]
  BY <1>1 DEF Resolve
<1> QED
  BY <1>2, <1>3 DEF Hits, Mailboxes

CheckAt(op, i, check) == i \in DOMAIN CheckOrder(op) /\ CheckOrder(op)[i] = check

\* Where the methods ask for the mailbox and for the scope, and where for the right to
\* read what is attached.
LEMMA ReadingChecks ==
  ASSUME NEW op \in DOMAIN ReadingRoutes \ {"inbox"}
  PROVE  CheckAt(op, 1, "mailbox") /\ CheckAt(op, 2, "scope")
<1>1. CASE op = "identities"
  BY <1>1 DEF CheckAt, CheckOrder, ReadingOrder
<1>2. CASE op \in {"get_message", "get_raw", "get_attachment"}
  BY <1>2 DEF CheckAt, CheckOrder, ReadingOrder
<1>3. CASE op \in {"folders", "list_messages", "search", "thread", "threads", "stats"}
  BY <1>3 DEF CheckAt, CheckOrder, ReadingOrder
<1> QED
  BY <1>1, <1>2, <1>3 DEF ReadingRoutes

LEMMA OrganizingChecks ==
  ASSUME NEW op \in DOMAIN OrganizingTools
  PROVE  CheckAt(op, 1, "mailbox") /\ \E i \in 1..4 : CheckAt(op, i, "scope")
<1>1. CASE op = "set_labels"
  BY <1>1 DEF CheckAt, CheckOrder, OrganizingOrder
<1>2. CASE op = "create_folder"
  BY <1>2 DEF CheckAt, CheckOrder, OrganizingOrder
<1>3. CASE op \in {"delete", "mark_seen", "move"}
  BY <1>3 DEF CheckAt, CheckOrder, OrganizingOrder
<1> QED
  BY <1>1, <1>2, <1>3 DEF OrganizingTools

LEMMA ComposingChecks ==
  ASSUME NEW op \in DOMAIN ComposingRoutes \ {"list_drafts"}
  PROVE  /\ CheckAt(op, 1, "mailbox") /\ \E i \in 1..4 : CheckAt(op, i, "scope")
         /\ op \notin {"delete_draft", "send_draft"} => \E i \in 1..6 : CheckAt(op, i, "attachments")
<1>1. CASE op = "send"
  BY <1>1 DEF CheckAt, CheckOrder, ComposingOrder
<1>2. CASE op = "reply"
  BY <1>2 DEF CheckAt, CheckOrder, ComposingOrder
<1>3. CASE op = "create_draft"
  BY <1>3 DEF CheckAt, CheckOrder, ComposingOrder
<1>4. CASE op = "update_draft"
  BY <1>4 DEF CheckAt, CheckOrder, ComposingOrder
<1>5. CASE op = "delete_draft"
  BY <1>5 DEF CheckAt, CheckOrder, ComposingOrder
<1>6. CASE op = "send_draft"
  BY <1>6 DEF CheckAt, CheckOrder, ComposingOrder
<1> QED
  BY <1>1, <1>2, <1>3, <1>4, <1>5, <1>6 DEF ComposingRoutes

LEMMA OtherChecks ==
  /\ CheckAt("list_drafts", 1, "mailbox") /\ CheckAt("list_drafts", 2, "scope")
  /\ CheckAt("inbox", 1, "scope") /\ CheckAt("health_deep", 1, "scope") /\ CheckAt("audit_log", 1, "scope")
  /\ CheckAt("webhook_deliveries", 1, "scope") /\ CheckAt("webhook_deliveries", 2, "mailbox")
  /\ CheckAt("replay_webhook", 1, "mailbox") /\ CheckAt("replay_webhook", 2, "scope")
<1>1. CheckAt("list_drafts", 1, "mailbox") /\ CheckAt("list_drafts", 2, "scope") /\ CheckAt("inbox", 1, "scope")
  BY DEF CheckAt, CheckOrder, ReadingOrder
<1>2. CheckAt("health_deep", 1, "scope") /\ CheckAt("audit_log", 1, "scope")
  BY DEF CheckAt, CheckOrder, AdminOrder
<1>3. CheckAt("webhook_deliveries", 1, "scope") /\ CheckAt("webhook_deliveries", 2, "mailbox")
  BY DEF CheckAt, CheckOrder, AdminOrder
<1>4. CheckAt("replay_webhook", 1, "mailbox") /\ CheckAt("replay_webhook", 2, "scope")
  BY DEF CheckAt, CheckOrder, AdminOrder
<1> QED
  BY <1>1, <1>2, <1>3, <1>4

\* What it means that no check of a request fails.
LEMMA Passed ==
  ASSUME NEW r, Failing(r) = {}, NEW i, NEW check, CheckAt(r.op, i, check)
  PROVE  Passes(check, r)
  BY DEF Failing, CheckAt

\* What Authorised asks of one deed of a request.
Permits(r, d) ==
  /\ Sees(r.token, d.mailbox) /\ d.mailbox # None
  /\ d.scope = "list" \/ Demanded(r, d) \in ScopesOf[r.token]

LEMMA PermitsScope ==
  ASSUME NEW r, NEW s \in Scopes, s \in ScopesOf[r.token], NEW m, Sees(r.token, m), m # None
  PROVE  Permits(r, Deed(s, m))
<1> DEFINE d == Deed(s, m)
<1>1. d.scope = s /\ d.mailbox = m
  BY DEF Deed
<1>2. s # "own"
  BY DEF Scopes
<1> HIDE DEF d
<1>3. Demanded(r, d) = s
  BY <1>1, <1>2 DEF Demanded
<1>4. Permits(r, d)
  BY <1>1, <1>3 DEF Permits
<1> QED
  BY <1>4 DEF d

LEMMA TargetSeen ==
  ASSUME NEW r \in Request, r.token \in Tokens, Failing(r) = {}, NEW i, CheckAt(r.op, i, "mailbox")
  PROVE  Sees(r.token, Target(r)) /\ Target(r) # None
<1>1. Target(r) # None
  BY Passed DEF Passes
<1> QED
  BY <1>1, ResolvedIsSeen DEF Target

LEMMA ScopeHeld ==
  ASSUME NEW r, Failing(r) = {}, NEW i, CheckAt(r.op, i, "scope")
  PROVE  Needed(r) \in ScopesOf[r.token]
  BY Passed DEF Passes

\* Only what answers or sends a message, or edits one, reads it without the scope to.
LEMMA WorkOfOthers ==
  ASSUME NEW r, r.op \notin {"reply", "send_draft", "update_draft"}
  PROVE  Work(r) = DeedsOf(r) \cup AttachedDeed(r)
  BY DEF Work, OwnDeed

\* Work begins when nothing fails, and then all of it is permitted.
LEMMA WorkPermitted ==
  ASSUME NEW r \in Request, r.token \in Tokens, Failing(r) = {}
  PROVE  \A d \in Work(r) : Permits(r, d)
<1>1. CASE r.op \in DOMAIN ReadingRoutes \ {"inbox"} \/ r.op = "list_drafts"
  <2>1. CheckAt(r.op, 1, "mailbox") /\ CheckAt(r.op, 2, "scope")
    BY <1>1, ReadingChecks, OtherChecks
  <2>2. Needed(r) = "read" /\ Work(r) = {Deed("read", Target(r))}
    <3>1. r.op \notin {"reply", "send_draft", "update_draft"}
      BY <1>1 DEF ReadingRoutes
    <3>2. Needed(r) = "read" /\ DeedsOf(r) \cup AttachedDeed(r) = {Deed("read", Target(r))}
      BY <1>1 DEF Needed, DeedsOf, AttachedDeed, Sends, ReadingRoutes, OrganizingRoutes, OrganizingTools
    <3> QED
      BY <3>1, <3>2, WorkOfOthers
  <2> QED
    BY <2>1, <2>2, TargetSeen, ScopeHeld, PermitsScope DEF Scopes
<1>2. CASE r.op \in DOMAIN OrganizingTools
  <2>1. PICK i \in 1..4 : CheckAt(r.op, 1, "mailbox") /\ CheckAt(r.op, i, "scope")
    BY <1>2, OrganizingChecks
  <2>2. Work(r) = {Deed(Needed(r), Target(r))} /\ Needed(r) \in {"organize", "delete"}
    <3>1. Work(r) = DeedsOf(r)
      <4>1. r.op \in {"delete", "mark_seen", "set_labels", "move", "create_folder"}
        BY <1>2 DEF OrganizingTools
      <4>2. AttachedDeed(r) = {} /\ r.op \notin {"reply", "send_draft", "update_draft"}
        BY <4>1 DEF AttachedDeed
      <4> QED
        BY <4>2, WorkOfOthers
    <3>2. CASE r.op = "delete"
      BY <3>1, <3>2 DEF Needed, DeedsOf, Sends, OrganizingTools, OrganizingRoutes
    <3>3. CASE r.op \in {"mark_seen", "set_labels", "move", "create_folder"}
      <4>1. Needed(r) = "organize"
        BY <3>3 DEF Needed, OrganizingRoutes
      <4>2. DeedsOf(r) = {Deed("organize", Target(r))}
        BY <3>3 DEF DeedsOf, Sends, OrganizingTools
      <4> QED
        BY <3>1, <4>1, <4>2
    <3> QED
      BY <1>2, <3>2, <3>3 DEF OrganizingTools
  <2> QED
    BY <2>1, <2>2, TargetSeen, ScopeHeld, PermitsScope DEF Scopes
<1>3. CASE r.op \in DOMAIN ComposingRoutes \ {"list_drafts"}
  <2>1. PICK i \in 1..4 : CheckAt(r.op, 1, "mailbox") /\ CheckAt(r.op, i, "scope")
    BY <1>3, ComposingChecks
  <2>2. Needed(r) \in ScopesOf[r.token] /\ Sees(r.token, Target(r)) /\ Target(r) # None
    BY <2>1, TargetSeen, ScopeHeld
  <2>3. DeedsOf(r) \subseteq {Deed(Needed(r), Target(r))} /\ Needed(r) \in {"send", "draft"}
    <3>1. CASE Sends(r)
      <4>1. Needed(r) = "send"
        BY <3>1 DEF Needed, Sends, OrganizingRoutes
      <4>2. DeedsOf(r) \subseteq {Deed("send", Target(r))}
        BY <3>1 DEF DeedsOf, Sends, OrganizingTools
      <4> QED
        BY <4>1, <4>2
    <3>2. CASE ~Sends(r)
      <4>1. \/ r.op \in {"create_draft", "update_draft", "delete_draft"}
            \/ r.op = "reply" /\ "draft" \in r.options
        <5>1. r.op \in {"send", "reply", "create_draft", "update_draft", "delete_draft", "send_draft"}
          BY <1>3 DEF ComposingRoutes
        <5> QED
          BY <3>2, <5>1 DEF Sends
      <4>2. Needed(r) = "draft"
        BY <4>1 DEF Needed, OrganizingRoutes
      <4>3. DeedsOf(r) = {Deed("draft", Target(r))}
        BY <3>2, <4>1 DEF DeedsOf, Sends, OrganizingTools
      <4> QED
        BY <4>2, <4>3
    <3> QED
      BY <3>1, <3>2
  <2>4. ASSUME NEW d \in AttachedDeed(r) PROVE Permits(r, d)
    <3>1. "attached" \in r.options /\ r.op \notin {"delete_draft", "send_draft"}
      BY DEF AttachedDeed
    <3>2. PICK j \in 1..6 : CheckAt(r.op, j, "attachments")
      BY <1>3, <3>1, ComposingChecks
    <3>3. "read" \in ScopesOf[r.token]
      BY <3>1, <3>2, Passed DEF Passes
    <3> QED
      BY <2>2, <3>3, PermitsScope DEF AttachedDeed, Scopes
  <2>5. ASSUME NEW d \in OwnDeed(r) PROVE Permits(r, d)
    <3>1. d = Deed("own", Target(r)) /\ r.op \in {"reply", "send_draft", "update_draft"}
      BY <2>5 DEF OwnDeed
    <3>2. Demanded(r, d) = Needed(r)
      BY <3>1 DEF Demanded, Needed, Deed, OrganizingRoutes
    <3> QED
      BY <2>2, <3>1, <3>2 DEF Permits, Deed
  <2>6. \A d \in DeedsOf(r) : Permits(r, d)
    BY <2>2, <2>3, PermitsScope DEF Scopes
  <2> QED
    BY <2>4, <2>5, <2>6 DEF Work
<1>4. CASE r.op = "inbox"
  <2>1. Needed(r) = "read" /\ Work(r) = {Deed("read", m) : m \in Targets(r)}
    <3>1. Needed(r) = "read" /\ AttachedDeed(r) = {}
      BY <1>4 DEF Needed, AttachedDeed, OrganizingRoutes
    <3>2. DeedsOf(r) = {Deed("read", m) : m \in Targets(r)}
      BY <1>4 DEF DeedsOf, Sends, OrganizingTools
    <3> QED
      BY <1>4, <3>1, <3>2, WorkOfOthers
  <2>2. "read" \in ScopesOf[r.token]
    BY <1>4, <2>1, OtherChecks, ScopeHeld
  <2>3. ASSUME NEW m \in Targets(r) PROVE Sees(r.token, m) /\ m # None
    <3>1. CASE r.ident = None
      BY <3>1, AccessAssumption DEF Targets, Visible
    <3>2. CASE r.ident # None
      <4>1. m = Resolve(r.token, r.ident) /\ m \in WithImap
        BY <3>2 DEF Targets, Target
      <4>2. m # None
        BY <4>1, AccessAssumption
      <4> QED
        BY <4>1, <4>2, ResolvedIsSeen
    <3> QED
      BY <3>1, <3>2
  <2> QED
    BY <2>1, <2>2, <2>3, PermitsScope DEF Scopes
<1>5. CASE r.op \in {"health_deep", "audit_log", "webhook_deliveries", "replay_webhook"}
  <2>1. Needed(r) = "admin" /\ Work(r) = DeedsOf(r)
    BY <1>5, WorkOfOthers DEF Needed, AttachedDeed, OrganizingRoutes
  <2>2. "admin" \in ScopesOf[r.token]
    BY <1>5, <2>1, OtherChecks, ScopeHeld
  <2>3. CASE r.op = "health_deep"
    <3>1. DeedsOf(r) = {Deed("admin", m) : m \in Visible(r.token)}
      BY <2>3 DEF DeedsOf, Sends, OrganizingTools
    <3> QED
      BY <2>1, <2>2, <3>1, AccessAssumption, PermitsScope DEF Visible, Scopes
  <2>4. CASE r.op = "audit_log"
    <3>1. Work(r) = {Deed("admin", audit[i].mailbox) : i \in Listed(r)} \ {Deed("admin", None)}
      BY <2>1, <2>4 DEF DeedsOf, Sends, OrganizingTools
    <3>2. \A i \in Listed(r) : Sees(r.token, audit[i].mailbox)
      BY DEF Listed, Sees
    <3>3. \A i \in Listed(r) : Deed("admin", audit[i].mailbox) # Deed("admin", None)
                                => Permits(r, Deed("admin", audit[i].mailbox))
      BY <2>2, <3>2, PermitsScope DEF Deed, Scopes
    <3> QED
      BY <3>1, <3>3
  <2>5. CASE r.op \in {"webhook_deliveries", "replay_webhook"}
    <3>1. Work(r) = {Deed("admin", Target(r))}
      BY <2>1, <2>5 DEF DeedsOf, Sends, OrganizingTools
    <3>2. Sees(r.token, Target(r)) /\ Target(r) # None
      BY <2>5, OtherChecks, TargetSeen
    <3> QED
      BY <2>2, <3>1, <3>2, PermitsScope DEF Scopes
  <2> QED
    BY <1>5, <2>3, <2>4, <2>5
<1>6. CASE r.op = "mailboxes"
  <2>1. Work(r) = {Deed("list", m) : m \in Visible(r.token)}
    BY <1>6, WorkOfOthers DEF DeedsOf, AttachedDeed, Sends, OrganizingTools
  <2> QED
    BY <2>1, AccessAssumption DEF Visible, Permits, Deed
<1>7. r.op \in Operations
  BY DEF Request
<1> QED
  BY <1>1, <1>2, <1>3, <1>4, <1>5, <1>6, <1>7
  DEF Operations, ReadingTools, ComposingTools, AdminTools, ReadingRoutes, ComposingRoutes

-----------------------------------------------------------------------------
\* The work of a call starts when nothing of it fails, and what it did was permitted.
Underway == {"front", "service", "working", "auditing"}
AccessInv ==
  \A c \in Calls :
    /\ pc[c] = "new" => deeds[c] = {}
    /\ pc[c] # "new" => call[c] \in Request
    /\ pc[c] \in Underway => call[c].token \in Tokens
    /\ pc[c] = "working" => Failing(call[c]) = {}
    /\ \A d \in deeds[c] : Permits(call[c], d)

Domains == DOMAIN pc = Calls /\ DOMAIN call = Calls /\ DOMAIN deeds = Calls

\* A step that only moves one call on, to a place where nothing is asked of it.
LEMMA OnlyMoves ==
  ASSUME AccessInv, Domains, NEW c \in Calls, NEW place, Goto(c, place),
         call' = call, deeds' = deeds, pc[c] \in Underway, place # "new",
         place = "working" => Failing(call[c]) = {}
  PROVE  AccessInv' /\ Domains'
<1>1. Domains'
  BY DEF Domains, Goto
<1>2. ASSUME NEW e \in Calls PROVE pc'[e] = IF e = c THEN place ELSE pc[e]
  BY DEF Domains, Goto
<1>3. ASSUME NEW e \in Calls
      PROVE  /\ pc'[e] = "new" => deeds'[e] = {}
             /\ pc'[e] # "new" => call'[e] \in Request
             /\ pc'[e] \in Underway => call'[e].token \in Tokens
             /\ pc'[e] = "working" => Failing(call'[e]) = {}
             /\ \A d \in deeds'[e] : Permits(call'[e], d)
  BY <1>2 DEF AccessInv, Underway
<1> QED
  BY <1>1, <1>3 DEF AccessInv

\* The same for one that does some of its work.
LEMMA DoesPermitted ==
  ASSUME AccessInv, Domains, NEW c \in Calls, pc[c] = "working",
         NEW done \in SUBSET Work(call[c]), deeds' = [deeds EXCEPT ![c] = done],
         NEW place \in {"auditing", "done"}, Goto(c, place), call' = call
  PROVE  AccessInv' /\ Domains'
<1>1. Domains'
  BY DEF Domains, Goto
<1>2. \A d \in done : Permits(call[c], d)
  BY WorkPermitted DEF AccessInv, Underway
<1>3. ASSUME NEW e \in Calls
      PROVE  /\ pc'[e] = IF e = c THEN place ELSE pc[e]
             /\ deeds'[e] = IF e = c THEN done ELSE deeds[e]
  BY DEF Domains, Goto
<1> QED
  BY <1>1, <1>2, <1>3 DEF AccessInv, Underway

LEMMA AccessStep == AccessInv /\ Domains /\ [Next]_vars => AccessInv' /\ Domains'
<1> SUFFICES ASSUME AccessInv, Domains, [Next]_vars PROVE AccessInv' /\ Domains'
  OBVIOUS
<1>0. CASE UNCHANGED vars
  BY <1>0 DEF vars, AccessInv, Domains
<1>1. ASSUME NEW c \in Calls, Receive(c) PROVE AccessInv' /\ Domains'
  <2>1. PICK r \in Asked(c) :
          /\ call' = [call EXCEPT ![c] = r]
          /\ IF r.token = None THEN Leave(c, "unauthorized", None)
             ELSE Goto(c, "front") /\ UNCHANGED <<answer, outcome>>
    BY <1>1 DEF Receive
  <2>2. r \in Request /\ pc[c] = "new" /\ deeds' = deeds /\ deeds[c] = {}
    BY <1>1, AskedAssumption DEF Receive, AccessInv
  <2>3. r.token \in Tokens \cup {None}
    BY <2>2 DEF Request
  <2>4. Goto(c, IF r.token = None THEN "done" ELSE "front")
    BY <2>1 DEF Leave
  <2>5. Domains'
    BY <2>1, <2>2, <2>4 DEF Domains, Goto
  <2>6. ASSUME NEW e \in Calls
        PROVE  /\ pc'[e] = IF e # c THEN pc[e] ELSE IF r.token = None THEN "done" ELSE "front"
               /\ call'[e] = IF e = c THEN r ELSE call[e]
    BY <2>1, <2>4 DEF Domains, Goto
  <2> QED
    BY <2>2, <2>3, <2>5, <2>6 DEF AccessInv, Underway
<1>2. ASSUME NEW c \in Calls, PassFront(c) PROVE AccessInv' /\ Domains'
  <2>1. PICK place \in {"service", "auditing", "done"} : Goto(c, place)
    BY <1>2 DEF PassFront, Leave
  <2>2. call' = call /\ deeds' = deeds /\ pc[c] \in Underway
    BY <1>2 DEF PassFront, Underway
  <2> QED
    BY <2>1, <2>2, OnlyMoves
<1>3. ASSUME NEW c \in Calls, PassChecks(c) PROVE AccessInv' /\ Domains'
  <2>1. call' = call /\ deeds' = deeds /\ pc[c] \in Underway
    BY <1>3 DEF PassChecks, Underway
  <2>2. CASE ServiceVerdict(call[c]) = Works
    <3>1. Goto(c, "working")
      BY <1>3, <2>2 DEF PassChecks
    <3>2. Failing(call[c]) = {}
      BY <2>2 DEF ServiceVerdict, Works, Refusal, CodeOf
    <3> QED
      BY <2>1, <3>1, <3>2, OnlyMoves
  <2>3. CASE ServiceVerdict(call[c]) # Works
    <3>1. PICK place \in {"auditing", "done"} : Goto(c, place)
      BY <1>3, <2>3 DEF PassChecks, Leave
    <3> QED
      BY <2>1, <3>1, OnlyMoves
  <2> QED
    BY <2>2, <2>3
<1>4. ASSUME NEW c \in Calls, Succeed(c) PROVE AccessInv' /\ Domains'
  <2>1. PICK place \in {"auditing", "done"} : Goto(c, place)
    BY <1>4 DEF Succeed, Leave
  <2> QED
    BY <1>4, <2>1, DoesPermitted DEF Succeed, Work
<1>5. ASSUME NEW c \in Calls, Fail(c) PROVE AccessInv' /\ Domains'
  <2>1. PICK place \in {"auditing", "done"} : Goto(c, place)
    BY <1>5 DEF Fail, Leave
  <2>2. PICK done \in SUBSET Work(call[c]) : deeds' = [deeds EXCEPT ![c] = done]
    BY <1>5 DEF Fail, Work
  <2> QED
    BY <1>5, <2>1, <2>2, DoesPermitted DEF Fail
<1>6. ASSUME NEW c \in Calls, WriteRow(c) PROVE AccessInv' /\ Domains'
  BY <1>6, OnlyMoves DEF WriteRow, Underway
<1>7. ASSUME NEW c \in Calls, WriteFails(c) PROVE AccessInv' /\ Domains'
  BY <1>7, OnlyMoves DEF WriteFails, Underway
<1>8. ASSUME NEW c \in Calls, Crash(c) PROVE AccessInv' /\ Domains'
  <2>1. Goto(c, "done") /\ call' = call
    BY <1>8 DEF Crash
  <2>2. CASE pc[c] = "working"
    <3>1. PICK done \in SUBSET Work(call[c]) : deeds' = [deeds EXCEPT ![c] = done]
      BY <1>8, <2>2 DEF Crash, Work
    <3> QED
      BY <2>1, <2>2, <3>1, DoesPermitted
  <2>3. CASE pc[c] # "working"
    BY <1>8, <2>1, <2>3, OnlyMoves DEF Crash, Underway
  <2> QED
    BY <2>2, <2>3
<1> QED
  BY <1>0, <1>1, <1>2, <1>3, <1>4, <1>5, <1>6, <1>7, <1>8 DEF Next

LEMMA AccessInvariant == Spec => [](AccessInv /\ Domains)
<1>1. Init => AccessInv /\ Domains
  BY DEF Init, AccessInv, Domains, Underway
<1> QED
  BY <1>1, AccessStep, PTL DEF Spec

\* No call does anything to a mailbox, or shows anything of it, without the right to see
\* the mailbox and the scope for it: that of the deed, and for the one message that a
\* call answers, sends or edits the scope of the call (Service, Principal, mcp_server.py).
THEOREM NothingUnauthorised == Spec => []Authorised
<1>1. AccessInv => Authorised
  BY DEF AccessInv, Permits, Authorised
<1> QED
  BY <1>1, AccessInvariant, PTL

-----------------------------------------------------------------------------
(* Hidden mailboxes.                                                       *)

LEMMA NobodyIsNobody == Nobody \in Idents /\ Named(Nobody) = {}
  BY AccessAssumption DEF Nobody, Named

LEMMA UnnamedMisses ==
  ASSUME NEW t, NEW ident, Named(ident) \cap Visible(t) = {}
  PROVE  Resolve(t, ident) = None
<1>1. Hits(t, ident) = {}
  BY DEF Hits, Named, Visible, Mailboxes
<1> QED
  BY <1>1 DEF Resolve

\* What is asked of a request whose mailbox was not found does not depend on how the
\* caller named it.
LEMMA HiddenVerdict ==
  ASSUME NEW r \in Request, r.token \in Tokens, r.ident # None,
         Named(r.ident) \cap Visible(r.token) = {}
  PROVE  Verdict(r) = Verdict([r EXCEPT !.ident = Nobody])
<1> DEFINE q == [r EXCEPT !.ident = Nobody]
<1>1. r \in [token : Tokens \cup {None}, surface : {"http", "mcp"}, op : Operations,
             ident : Idents \cup {None}, options : SUBSET Options, form : Forms]
  BY DEF Request
<1>2. /\ q.token = r.token /\ q.surface = r.surface /\ q.op = r.op /\ q.options = r.options
      /\ q.form = r.form /\ q.ident = Nobody
  BY <1>1
<1> HIDE DEF q
<1>3. Nobody # None
  BY NobodyIsNobody, AccessAssumption
<1>4. Target(r) = None /\ Target(q) = None
  BY <1>2, UnnamedMisses, NobodyIsNobody DEF Target
<1>5. Targets(r) = Targets(q)
  BY <1>2, <1>3, <1>4 DEF Targets
<1>6. Needed(r) = Needed(q)
  BY <1>2 DEF Needed
<1>7. ASSUME NEW check PROVE Passes(check, r) <=> Passes(check, q)
  BY <1>2, <1>3, <1>4, <1>5, <1>6 DEF Passes
<1>8. Failing(r) = Failing(q)
  BY <1>2, <1>7 DEF Failing
<1>9. ServiceVerdict(r) = ServiceVerdict(q)
  BY <1>2, <1>8 DEF ServiceVerdict, FirstFailing
<1>10. FrontVerdict(r) = FrontVerdict(q)
  BY <1>2 DEF FrontVerdict, ToolRefused
<1>11. Verdict(r) = Verdict(q)
  BY <1>9, <1>10 DEF Verdict
<1> QED
  BY <1>11 DEF q

\* A caller cannot tell a mailbox that its token does not see from one that is not
\* there: not from the answer and not from the audit row (Principal.resolve_mailbox).
THEOREM HiddenIsMissing == Spec => []HiddenLooksMissing
<1>1. AccessInv => HiddenLooksMissing
  <2> SUFFICES ASSUME AccessInv, NEW c \in Calls, pc[c] # "new", call[c].token # None,
                      call[c].ident # None,
                      Named(call[c].ident) \cap Visible(call[c].token) = {}
               PROVE  Verdict(call[c]) = Verdict([call[c] EXCEPT !.ident = Nobody])
    BY DEF HiddenLooksMissing
  <2>1. call[c] \in Request /\ call[c].token \in Tokens
    BY DEF AccessInv, Request
  <2> QED
    BY <2>1, HiddenVerdict
<1> QED
  BY <1>1, AccessInvariant, PTL

-----------------------------------------------------------------------------
(* The two surfaces.                                                       *)

LEMMA OrganizingRouteDomain ==
  DOMAIN OrganizingRoutes = {"create_folder", "delete", "mark_seen", "set_labels", "move"}
  BY DEF OrganizingRoutes

LEMMA ToolDomains ==
  /\ DOMAIN ReadingTools = {"inbox", "folders", "list_messages", "search", "get_message",
                            "get_raw", "get_attachment", "thread", "threads"}
  /\ DOMAIN OrganizingTools = {"delete", "mark_seen", "set_labels", "move", "create_folder"}
  /\ DOMAIN ComposingTools = {"identities", "send", "reply", "create_draft", "list_drafts",
                              "update_draft", "delete_draft", "send_draft"}
  /\ DOMAIN AdminTools = {"stats", "audit_log", "health_deep", "webhook_deliveries",
                          "replay_webhook"}
  BY DEF ReadingTools, OrganizingTools, ComposingTools, AdminTools

\* The groups of tools are disjoint, so the catalog is what each says.
LEMMA CatalogOf ==
  ASSUME NEW op
  PROVE  /\ op \in DOMAIN ReadingTools => Catalog(op) = Tool({"read"}, {}, FALSE)
         /\ op \in DOMAIN OrganizingTools => Catalog(op) = OrganizingTools[op]
         /\ op \in DOMAIN ComposingTools => Catalog(op) = ComposingTools[op]
         /\ op \in DOMAIN AdminTools => Catalog(op) = AdminTools[op]
         /\ op = "mailboxes" => Catalog(op) = Tool({}, {}, FALSE)
<1>1. CASE op \in DOMAIN ReadingTools
  <2>1. Catalog(op) = ReadingTools[op]
    BY <1>1, ToolDomains DEF Catalog
  <2>2. ReadingTools[op] = Tool({"read"}, {}, FALSE)
    BY <1>1, ToolDomains DEF ReadingTools
  <2> QED
    BY <1>1, <2>1, <2>2, ToolDomains
<1>2. CASE op \notin DOMAIN ReadingTools
  BY <1>2, ToolDomains DEF Catalog
<1> QED
  BY <1>1, <1>2

\* The catalog's scopes are those that the methods ask for.
LEMMA CatalogAsks ==
  ASSUME NEW r \in Request, "delete" # r.op \/ "permanent" \notin r.options
  PROVE  Catalog(r.op).scopes = {} \/ Needed(r) \in Catalog(r.op).scopes
<1>1. CASE r.op \in DOMAIN ReadingTools
  <2>1. Catalog(r.op).scopes = {"read"}
    BY <1>1, CatalogOf DEF Tool
  <2>2. Needed(r) = "read"
    BY <1>1, ToolDomains, OrganizingRouteDomain DEF Needed
  <2> QED
    BY <2>1, <2>2
<1>2. CASE r.op \in DOMAIN OrganizingTools
  <2>1. Catalog(r.op) = OrganizingTools[r.op]
    BY <1>2, CatalogOf
  <2>2. Catalog(r.op).scopes = {"organize"}
    BY <1>2, <2>1, ToolDomains DEF OrganizingTools, Tool
  <2>3. Needed(r) = "organize"
    BY <1>2, ToolDomains, OrganizingRouteDomain DEF Needed
  <2> QED
    BY <2>2, <2>3
<1>3. CASE r.op \in DOMAIN ComposingTools
  <2>1. Catalog(r.op) = ComposingTools[r.op]
    BY <1>3, CatalogOf
  <2>2. CASE r.op \in {"identities", "list_drafts"}
    <3>1. Catalog(r.op).scopes = {"read"}
      BY <2>1, <2>2 DEF ComposingTools, Tool
    <3>2. Needed(r) = "read"
      BY <2>2 DEF Needed, OrganizingRoutes
    <3> QED
      BY <3>1, <3>2
  <2>3. CASE r.op \in {"send", "send_draft"}
    <3>1. Catalog(r.op).scopes = {"send"}
      BY <2>1, <2>3 DEF ComposingTools, Tool
    <3>2. Needed(r) = "send"
      BY <2>3 DEF Needed, OrganizingRoutes
    <3> QED
      BY <3>1, <3>2
  <2>4. CASE r.op = "reply"
    <3>1. Catalog(r.op).scopes = {"send", "draft"}
      BY <2>1, <2>4 DEF ComposingTools, Tool
    <3>2. Needed(r) \in {"send", "draft"}
      BY <2>4 DEF Needed, OrganizingRoutes
    <3> QED
      BY <3>1, <3>2
  <2>5. CASE r.op \in {"create_draft", "update_draft", "delete_draft"}
    <3>1. Catalog(r.op).scopes = {"draft"}
      BY <2>1, <2>5 DEF ComposingTools, Tool
    <3>2. Needed(r) = "draft"
      BY <2>5 DEF Needed, OrganizingRoutes
    <3> QED
      BY <3>1, <3>2
  <2> QED
    BY <1>3, <2>2, <2>3, <2>4, <2>5 DEF ComposingTools
<1>4. CASE r.op \in DOMAIN AdminTools
  <2>1. Catalog(r.op) = AdminTools[r.op]
    BY <1>4, CatalogOf
  <2>2. CASE r.op = "stats"
    <3>1. Catalog(r.op).scopes = {"read"}
      BY <2>1, <2>2 DEF AdminTools, Tool
    <3>2. Needed(r) = "read"
      BY <2>2 DEF Needed, OrganizingRoutes
    <3> QED
      BY <3>1, <3>2
  <2>3. CASE r.op \in {"audit_log", "health_deep", "webhook_deliveries", "replay_webhook"}
    <3>1. Catalog(r.op).scopes = {"admin"}
      BY <2>1, <2>3 DEF AdminTools, Tool
    <3>2. Needed(r) = "admin"
      BY <2>3, OrganizingRouteDomain DEF Needed
    <3> QED
      BY <3>1, <3>2
  <2> QED
    BY <1>4, <2>2, <2>3 DEF AdminTools
<1>5. CASE r.op = "mailboxes"
  BY <1>5, CatalogOf DEF Tool
<1> QED
  BY <1>1, <1>2, <1>3, <1>4, <1>5 DEF Request, Operations

\* Every method but that of "mailboxes" asks for its scope.
LEMMA ScopeAsked ==
  ASSUME NEW r \in Request, Failing(r) = {}
  PROVE  r.op = "mailboxes" \/ Needed(r) \in ScopesOf[r.token]
<1>1. CASE r.op \in DOMAIN ReadingRoutes \ {"inbox"} \/ r.op = "list_drafts"
  BY <1>1, ReadingChecks, OtherChecks, ScopeHeld
<1>2. CASE r.op \in DOMAIN OrganizingTools
  BY <1>2, OrganizingChecks, ScopeHeld
<1>3. CASE r.op \in DOMAIN ComposingRoutes \ {"list_drafts"}
  BY <1>3, ComposingChecks, ScopeHeld
<1>4. CASE r.op \in {"inbox", "health_deep", "audit_log", "webhook_deliveries", "replay_webhook"}
  BY <1>4, OtherChecks, ScopeHeld
<1>5. r.op \in Operations
  BY DEF Request
<1> QED
  BY <1>1, <1>2, <1>3, <1>4, <1>5
  DEF Operations, ReadingTools, ComposingTools, AdminTools, ReadingRoutes, ComposingRoutes

\* The catalog never refuses what the method would do.
LEMMA NotRefused ==
  ASSUME NEW r \in Request, Failing(r) = {}, r.op # "delete" \/ "organize" \in ScopesOf[r.token]
  PROVE  ~ ToolRefused(r)
<1>1. CASE r.op = "mailboxes"
  BY <1>1, CatalogOf DEF ToolRefused, ToolAllowed, Tool
<1>2. CASE r.op = "delete" /\ "permanent" \in r.options
  <2>1. Catalog(r.op) = OrganizingTools[r.op]
    BY <1>2, CatalogOf, ToolDomains
  <2>2. Catalog(r.op).scopes = {"organize"}
    BY <1>2, <2>1, ToolDomains DEF OrganizingTools, Tool
  <2>3. Needed(r) = "delete"
    BY <1>2 DEF Needed
  <2> QED
    BY <1>2, <2>2, <2>3, ScopeAsked DEF ToolRefused, ToolAllowed
<1>3. CASE r.op # "mailboxes" /\ ("delete" # r.op \/ "permanent" \notin r.options)
  <2>1. Needed(r) \in ScopesOf[r.token]
    BY <1>3, ScopeAsked
  <2>2. ToolAllowed(r.op, r.token)
    BY <1>3, <2>1, CatalogAsks DEF ToolAllowed
  <2>3. r.op = "reply" /\ "draft" \notin r.options => Needed(r) = "send"
    BY DEF Needed, OrganizingRoutes
  <2> QED
    BY <1>3, <2>1, <2>2, <2>3 DEF ToolRefused
<1> QED
  BY <1>1, <1>2, <1>3

\* A tool works exactly when the route does, but for permanent deletion without the
\* scope organize; and tools/list offers what is not refused (mcp_server.py).
THEOREM SurfacesAgreeAlways == Spec => []SurfacesAgree
<1>1. AccessInv => SurfacesAgree
  <2> SUFFICES ASSUME AccessInv, NEW c \in Calls, pc[c] # "new", call[c].token # None,
                      call[c].surface = "mcp"
               PROVE  /\ Verdict(call[c]) = Works => Verdict(OnHttp(call[c])) = Works
                      /\ Verdict(OnHttp(call[c])) = Works =>
                           \/ Verdict(call[c]) = Works
                           \/ call[c].op = "delete" /\ "organize" \notin ScopesOf[call[c].token]
                      /\ Offered(call[c]) <=> ~ ToolRefused(call[c])
    BY DEF SurfacesAgree
  <2> DEFINE r == call[c]
             q == OnHttp(r)
  <2>1. r \in [token : Tokens \cup {None}, surface : {"http", "mcp"}, op : Operations,
               ident : Idents \cup {None}, options : SUBSET Options, form : Forms]
    BY DEF AccessInv, Request
  <2>2. /\ q.token = r.token /\ q.surface = "http" /\ q.op = r.op /\ q.options = r.options
        /\ q.form = r.form /\ q.ident = r.ident
    BY <2>1 DEF OnHttp
  <2> HIDE DEF q
  <2>3. Failing(r) = Failing(q)
    <3>1. Target(r) = Target(q) /\ Targets(r) = Targets(q)
      BY <2>2 DEF Target, Targets
    <3>2. Needed(r) = Needed(q)
      BY <2>2 DEF Needed
    <3>3. ASSUME NEW check PROVE Passes(check, r) <=> Passes(check, q)
      BY <2>2, <3>1, <3>2 DEF Passes
    <3> QED
      BY <2>2, <3>3 DEF Failing
  <2>4. ServiceVerdict(r) = ServiceVerdict(q)
    BY <2>2, <2>3 DEF ServiceVerdict, FirstFailing
  <2>5. /\ FrontVerdict(q) = Works <=> r.form \notin {"oversized", "malformed"}
        /\ FrontVerdict(r) = Works <=> r.form \notin {"oversized", "malformed"} /\ ~ ToolRefused(r)
    BY <2>2 DEF FrontVerdict, Works, Refusal
  <2>6. ASSUME NEW x PROVE Verdict(x) = Works <=> FrontVerdict(x) = Works /\ ServiceVerdict(x) = Works
    BY DEF Verdict
  <2>7. ServiceVerdict(r) = Works => Failing(r) = {}
    BY DEF ServiceVerdict, Works, Refusal, CodeOf
  <2>8. \/ r.op = "delete" /\ "organize" \notin ScopesOf[r.token]
        \/ Failing(r) = {} => ~ ToolRefused(r)
    BY <2>1, NotRefused DEF Request
  <2>9. Offered(r) <=> ~ ToolRefused(r)
    BY DEF Offered, ToolRefused
  <2>10. /\ Verdict(r) = Works => Verdict(q) = Works
         /\ Verdict(q) = Works =>
              \/ Verdict(r) = Works
              \/ r.op = "delete" /\ "organize" \notin ScopesOf[r.token]
    BY <2>4, <2>5, <2>6, <2>7, <2>8
  <2> QED
    BY <2>9, <2>10 DEF q
<1> QED
  BY <1>1, AccessInvariant, PTL

-----------------------------------------------------------------------------
(* The audit log.                                                          *)

LEMMA MutatingTools ==
  ASSUME NEW op \in Operations PROVE Catalog(op).mutating <=> op \in Mutations
<1>1. CASE op \in DOMAIN ReadingTools \/ op = "mailboxes"
  BY <1>1, CatalogOf, ToolDomains DEF Tool, Mutations
<1>2. CASE op \in DOMAIN OrganizingTools
  <2>1. OrganizingTools[op].mutating = TRUE
    BY <1>2, ToolDomains DEF OrganizingTools, Tool
  <2> QED
    BY <1>2, <2>1, CatalogOf, ToolDomains DEF Mutations
<1>3. CASE op \in DOMAIN ComposingTools
  <2>1. ComposingTools[op].mutating <=> op \notin {"identities", "list_drafts"}
    <3>1. CASE op \in {"identities", "list_drafts"}
      BY <3>1 DEF ComposingTools, Tool
    <3>2. CASE op \in {"send", "send_draft", "reply", "delete_draft"}
      BY <3>2 DEF ComposingTools, Tool
    <3>3. CASE op \in {"create_draft", "update_draft"}
      BY <3>3 DEF ComposingTools, Tool
    <3> QED
      BY <1>3, <3>1, <3>2, <3>3, ToolDomains
  <2> QED
    BY <1>3, <2>1, CatalogOf, ToolDomains DEF Mutations
<1>4. CASE op \in DOMAIN AdminTools
  <2>1. AdminTools[op].mutating <=> op = "replay_webhook"
    <3>1. CASE op = "replay_webhook"
      BY <3>1 DEF AdminTools, Tool
    <3>2. CASE op = "stats"
      BY <3>2 DEF AdminTools, Tool
    <3>3. CASE op \in {"audit_log", "health_deep", "webhook_deliveries"}
      BY <3>3 DEF AdminTools, Tool
    <3> QED
      BY <1>4, <3>1, <3>2, <3>3, ToolDomains
  <2> QED
    BY <1>4, <2>1, CatalogOf, ToolDomains DEF Mutations
<1> QED
  BY <1>1, <1>2, <1>3, <1>4 DEF Operations

\* The right to read what is attached is asked for after the scope.
LEMMA AttachmentsLast ==
  ASSUME NEW op \in Mutations, NEW i, NEW j, CheckAt(op, i, "attachments"), CheckAt(op, j, "scope")
  PROVE  j < i
<1>1. CASE op = "send"
  BY <1>1 DEF CheckAt, CheckOrder, ComposingOrder
<1>2. CASE op = "reply"
  BY <1>2 DEF CheckAt, CheckOrder, ComposingOrder
<1>3. CASE op = "create_draft"
  BY <1>3 DEF CheckAt, CheckOrder, ComposingOrder
<1>4. CASE op = "update_draft"
  BY <1>4 DEF CheckAt, CheckOrder, ComposingOrder
<1>5. CASE op = "delete_draft"
  BY <1>5 DEF CheckAt, CheckOrder, ComposingOrder
<1>6. CASE op = "send_draft"
  BY <1>6 DEF CheckAt, CheckOrder, ComposingOrder
<1>7. CASE op = "set_labels"
  BY <1>7 DEF CheckAt, CheckOrder, OrganizingOrder
<1>8. CASE op = "create_folder"
  BY <1>8 DEF CheckAt, CheckOrder, OrganizingOrder
<1>9. CASE op \in {"delete", "mark_seen", "move"}
  BY <1>9 DEF CheckAt, CheckOrder, OrganizingOrder
<1>10. CASE op = "replay_webhook"
  BY <1>10 DEF CheckAt, CheckOrder, AdminOrder
<1> QED
  BY <1>1, <1>2, <1>3, <1>4, <1>5, <1>6, <1>7, <1>8, <1>9, <1>10 DEF Mutations

LEMMA OrderIsSequence == ASSUME NEW op \in Operations PROVE DOMAIN CheckOrder(op) \subseteq Nat
<1>1. CASE op = "mailboxes" \/ op = "inbox" \/ op = "identities"
  BY <1>1 DEF CheckOrder, ReadingOrder
<1>2. CASE op \in {"get_message", "get_raw", "get_attachment"}
  BY <1>2 DEF CheckOrder, ReadingOrder
<1>3. CASE op \in {"folders", "list_messages", "search", "thread", "threads", "stats",
                   "list_drafts"}
  BY <1>3 DEF CheckOrder, ReadingOrder
<1>4. CASE op = "health_deep" \/ op = "audit_log"
  BY <1>4 DEF CheckOrder, AdminOrder
<1>5. CASE op = "webhook_deliveries" \/ op = "replay_webhook"
  BY <1>5 DEF CheckOrder, AdminOrder
<1>6. CASE op = "set_labels" \/ op = "create_folder"
  BY <1>6 DEF CheckOrder, OrganizingOrder
<1>7. CASE op \in {"delete", "mark_seen", "move"}
  BY <1>7 DEF CheckOrder, OrganizingOrder
<1>8. CASE op = "send" \/ op = "reply"
  BY <1>8 DEF CheckOrder, ComposingOrder
<1>9. CASE op = "create_draft" \/ op = "update_draft"
  BY <1>9 DEF CheckOrder, ComposingOrder
<1>10. CASE op = "delete_draft" \/ op = "send_draft"
  BY <1>10 DEF CheckOrder, ComposingOrder
<1> QED
  BY <1>1, <1>2, <1>3, <1>4, <1>5, <1>6, <1>7, <1>8, <1>9, <1>10, ToolDomains DEF Operations

\* What a refusal says in its row, if it has one.
Tells(v, r) ==
  /\ v.outcome \in {None, "denied", "error"}
  /\ v.outcome # None => (v.outcome = "denied" <=> v.code = "permission_denied")
  /\ r.op \in Mutations /\ v.code = "permission_denied" => v.outcome # None
  /\ v.code \in {"too_large", "permission_denied", "validation_error", "not_found", "conflict"}

LEMMA FrontTells ==
  ASSUME NEW r \in Request, FrontVerdict(r) # Works PROVE Tells(FrontVerdict(r), r)
<1>1. Catalog(r.op).mutating <=> r.op \in Mutations
  BY MutatingTools DEF Request
<1> QED
  BY <1>1, AccessAssumption DEF FrontVerdict, Tells, Refusal, Works, Outcomes

\* Every denial of a method that changes something is audited.
LEMMA ServiceTells ==
  ASSUME NEW r \in Request, ServiceVerdict(r) # Works PROVE Tells(ServiceVerdict(r), r)
<1> DEFINE i == FirstFailing(r)
           check == CheckOrder(r.op)[i]
           code == CodeOf(check)
<1>1. Failing(r) # {} /\ Failing(r) \in SUBSET Nat
  BY OrderIsSequence DEF ServiceVerdict, Failing, Request
<1>2. i \in Failing(r)
  BY <1>1, FirstOf DEF FirstFailing
<1>3. r.op \in Mutations /\ code = "permission_denied" => Audited(r.op, i)
  <2>1. code = "permission_denied" => check \in {"scope", "attachments"}
    BY DEF CodeOf
  <2>2. ASSUME r.op \in Mutations, check = "attachments", NEW j \in Indexes(r.op, "scope")
        PROVE  j < i
    BY <1>2, <2>2, AttachmentsLast DEF CheckAt, Failing, Indexes
  <2> QED
    BY <2>1, <2>2 DEF Audited
<1>4. ServiceVerdict(r) = Refusal(code, IF ~ Audited(r.op, i) THEN None
                                        ELSE IF code = "permission_denied" THEN "denied" ELSE "error")
  BY <1>1 DEF ServiceVerdict
<1>5. code \in {"permission_denied", "validation_error", "not_found", "conflict"}
  BY DEF CodeOf
<1> HIDE DEF code, i
<1>6. CASE Audited(r.op, i)
  <2>1. ServiceVerdict(r) = Refusal(code, IF code = "permission_denied" THEN "denied" ELSE "error")
    BY <1>4, <1>6
  <2> QED
    BY <1>5, <2>1, AccessAssumption DEF Tells, Refusal, Outcomes
<1>7. CASE ~ Audited(r.op, i)
  <2>1. ServiceVerdict(r) = Refusal(code, None)
    BY <1>4, <1>7
  <2> QED
    BY <1>3, <1>5, <1>7, <2>1 DEF Tells, Refusal
<1> QED
  BY <1>6, <1>7

\* Nothing is changed outside a _mutation block.
LEMMA ReadersChangeNothing ==
  ASSUME NEW r \in Request, r.op \notin Mutations, NEW d \in Work(r)
  PROVE  d.scope \in {"read", "admin", "list"}
<1>1. /\ r.op \in DOMAIN ReadingTools \/ r.op \in {"mailboxes", "identities", "list_drafts", "stats",
            "audit_log", "health_deep", "webhook_deliveries"}
      /\ r.op \notin {"send", "send_draft", "reply", "delete"}
  BY ToolDomains DEF Request, Operations, Mutations
<1>2. AttachedDeed(r) \subseteq {Deed("read", Target(r))}
  BY DEF AttachedDeed
<1>3. ~ Sends(r)
  BY <1>1 DEF Sends
<1>4. ASSUME NEW e \in DeedsOf(r) PROVE e.scope \in {"read", "admin", "list"}
  <2>1. CASE r.op = "mailboxes"
    <3>1. DeedsOf(r) = {Deed("list", m) : m \in Visible(r.token)}
      BY <2>1 DEF DeedsOf, Sends, OrganizingTools
    <3> QED
      BY <1>4, <3>1 DEF Deed
  <2>2. CASE r.op = "inbox"
    <3>1. DeedsOf(r) = {Deed("read", m) : m \in Targets(r)}
      BY <2>2 DEF DeedsOf, Sends, OrganizingTools
    <3> QED
      BY <1>4, <3>1 DEF Deed
  <2>3. CASE r.op = "health_deep"
    <3>1. DeedsOf(r) = {Deed("admin", m) : m \in Visible(r.token)}
      BY <2>3 DEF DeedsOf, Sends, OrganizingTools
    <3> QED
      BY <1>4, <3>1 DEF Deed
  <2>4. CASE r.op = "audit_log"
    <3>1. DeedsOf(r) \subseteq {Deed("admin", audit[i].mailbox) : i \in Listed(r)}
      BY <2>4 DEF DeedsOf, Sends, OrganizingTools
    <3> QED
      BY <1>4, <3>1 DEF Deed
  <2>5. CASE r.op = "webhook_deliveries"
    <3>1. DeedsOf(r) = {Deed("admin", Target(r))}
      BY <2>5 DEF DeedsOf, Sends, OrganizingTools
    <3> QED
      BY <1>4, <3>1 DEF Deed
  <2>6. CASE r.op \in (DOMAIN ReadingTools \ {"inbox"}) \cup {"identities", "list_drafts", "stats"}
    <3>1. DeedsOf(r) = {Deed("read", Target(r))}
      BY <1>3, <2>6, ToolDomains DEF DeedsOf
    <3> QED
      BY <1>4, <3>1 DEF Deed
  <2> QED
    BY <1>1, <2>1, <2>2, <2>3, <2>4, <2>5, <2>6
<1>5. Work(r) = DeedsOf(r) \cup AttachedDeed(r)
  BY WorkOfOthers DEF Mutations
<1> QED
  BY <1>2, <1>4, <1>5 DEF Deed

LEMMA DrySendsNothing ==
  ASSUME NEW r, Sends(r), Dry(r), NEW d \in Work(r) PROVE d.scope # "send"
<1>1. DeedsOf(r) = {}
  BY ToolDomains DEF DeedsOf, Sends
<1> QED
  BY <1>1 DEF Work, AttachedDeed, OwnDeed, Deed

\* A row, and what a row with this outcome would truly say of the call.
RowSet == [call : Calls, token : Tokens, action : Operations, outcome : Outcomes,
           mailbox : Idents \cup {None}]
Consistent(c, out) ==
  /\ out \in Outcomes
  /\ out = "denied" <=> answer[c] = "permission_denied"
  /\ out \in {"denied", "dry_run"} => \A d \in deeds[c] : d.scope # "send"
  /\ out = "denied" => deeds[c] = {}

\* What is true of a call that leaves no row.
Silent(c) ==
  /\ Rows(c) = {}
  /\ call[c].op \in Mutations => answer[c] \notin {"ok", "permission_denied"}
  /\ Changed(c) => answer[c] \in {"lost", "internal_error"}

CallAudit(c) ==
  /\ pc[c] \in Places
  /\ pc[c] \in {"new", "front", "service", "working"} => deeds[c] = {}
  /\ pc[c] # "done" => Rows(c) = {}
  /\ pc[c] = "auditing" => Consistent(c, outcome[c])
  /\ pc[c] = "done" => \/ Silent(c)
                       \/ \E i : Rows(c) = {i} /\ Consistent(c, audit[i].outcome)

AuditInv ==
  /\ DOMAIN answer = Calls /\ DOMAIN outcome = Calls /\ audit \in Seq(RowSet)
  /\ \A c \in Calls : CallAudit(c)

Others(c) ==
  \A e \in Calls \ {c} :
    /\ pc'[e] = pc[e] /\ call'[e] = call[e] /\ answer'[e] = answer[e]
    /\ outcome'[e] = outcome[e] /\ deeds'[e] = deeds[e]

\* The other calls are not touched, and their rows neither.
LEMMA AuditOthers ==
  ASSUME AuditInv, NEW c \in Calls, Others(c), NEW e \in Calls \ {c},
         \/ audit' = audit
         \/ \E row \in RowSet : row.call = c /\ audit' = Append(audit, row)
  PROVE  CallAudit(e)'
<1>1. Rows(e)' = Rows(e) /\ \A i \in Rows(e) : audit'[i] = audit[i]
  <2>1. CASE audit' = audit
    BY <2>1 DEF Rows
  <2>2. ASSUME NEW row \in RowSet, row.call = c, audit' = Append(audit, row)
        PROVE  Rows(e)' = Rows(e) /\ \A i \in Rows(e) : audit'[i] = audit[i]
    <3>1. /\ DOMAIN audit' = DOMAIN audit \cup {Len(audit) + 1}
          /\ audit'[Len(audit) + 1] = row
          /\ \A i \in DOMAIN audit : audit'[i] = audit[i]
      BY <2>2 DEF AuditInv
    <3> QED
      BY <2>2, <3>1 DEF Rows
  <2> QED
    BY <2>1, <2>2
<1> QED
  BY <1>1 DEF AuditInv, CallAudit, Others, Silent, Changed, Consistent

\* A step that writes no row.
LEMMA AuditUnwritten ==
  ASSUME AuditInv, NEW c \in Calls, Others(c), audit' = audit,
         DOMAIN answer' = Calls, DOMAIN outcome' = Calls, CallAudit(c)'
  PROVE  AuditInv'
<1>1. \A e \in Calls \ {c} : CallAudit(e)'
  BY AuditOthers
<1> QED
  BY <1>1 DEF AuditInv

\* A call goes on, or it is answered: then what it says of itself has to be true.
LEMMA AuditLeaves ==
  ASSUME AuditInv, Domains, NEW c \in Calls, pc[c] \notin {"auditing", "done"},
         DOMAIN call' = Calls, DOMAIN deeds' = Calls,
         \A e \in Calls \ {c} : call'[e] = call[e] /\ deeds'[e] = deeds[e],
         audit' = audit, NEW code, NEW out, Leave(c, code, out),
         out # None =>
           /\ out \in Outcomes
           /\ out = "denied" <=> code = "permission_denied"
           /\ out \in {"denied", "dry_run"} => \A d \in deeds'[c] : d.scope # "send"
           /\ out = "denied" => deeds'[c] = {},
         out = None =>
           /\ call'[c].op \in Mutations => code \notin {"ok", "permission_denied"}
           /\ \A d \in deeds'[c] : d.scope \in {"read", "admin", "list"}
  PROVE  AuditInv'
<1>1. /\ answer'[c] = code /\ outcome'[c] = out /\ DOMAIN answer' = Calls /\ DOMAIN outcome' = Calls
      /\ pc'[c] = IF out = None THEN "done" ELSE "auditing"
  BY DEF Leave, Answer, Goto, AuditInv, Domains
<1>2. Others(c)
  BY DEF Others, Leave, Answer, Goto, AuditInv, Domains
<1>3. Rows(c)' = {}
  BY DEF AuditInv, CallAudit, Rows
<1>4. CallAudit(c)'
  <2>1. CASE out = None
    <3>1. Silent(c)'
      BY <1>1, <1>3, <2>1 DEF Silent, Changed
    <3> QED
      BY <1>1, <2>1, <3>1 DEF CallAudit, Places
  <2>2. CASE out # None
    <3>1. Consistent(c, outcome[c])'
      BY <1>1, <2>2 DEF Consistent
    <3> QED
      BY <1>1, <1>3, <2>2, <3>1 DEF CallAudit, Places
  <2> QED
    BY <2>1, <2>2
<1> QED
  BY <1>1, <1>2, <1>4, AuditUnwritten

\* A call goes on without an answer.
LEMMA AuditGoes ==
  ASSUME AuditInv, Domains, NEW c \in Calls, pc[c] \notin {"auditing", "done"},
         NEW place \in {"front", "service", "working"}, Goto(c, place),
         \A e \in Calls \ {c} : call'[e] = call[e],
         UNCHANGED <<audit, deeds, answer, outcome>>
  PROVE  AuditInv'
<1>1. Others(c) /\ pc'[c] = place
  BY DEF Others, Goto, Domains
<1>2. Rows(c)' = {} /\ deeds'[c] = {}
  BY DEF AuditInv, CallAudit, Rows, Places
<1>3. CallAudit(c)'
  BY <1>1, <1>2 DEF CallAudit, Places
<1> QED
  BY <1>1, <1>3, AuditUnwritten DEF AuditInv

\* A call is cut off, or its row cannot be written.
LEMMA AuditBreaks ==
  ASSUME AuditInv, Domains, NEW c \in Calls, pc[c] # "done",
         NEW code \in {"lost", "internal_error"}, Answer(c, code), Goto(c, "done"),
         DOMAIN deeds' = Calls, \A e \in Calls \ {c} : deeds'[e] = deeds[e],
         UNCHANGED <<call, outcome, audit>>
  PROVE  AuditInv'
<1>1. Others(c) /\ pc'[c] = "done" /\ answer'[c] = code /\ DOMAIN answer' = Calls
  BY DEF Others, Goto, Answer, Domains, AuditInv
<1>2. Rows(c)' = {}
  BY DEF AuditInv, CallAudit, Rows
<1>3. Silent(c)'
  BY <1>1, <1>2 DEF Silent
<1>4. CallAudit(c)'
  BY <1>1, <1>2, <1>3 DEF CallAudit, Places
<1> QED
  BY <1>1, <1>4, AuditUnwritten DEF AuditInv

\* The row is written.
LEMMA AuditWrites ==
  ASSUME AuditInv, AccessInv, Domains, NEW c \in Calls, WriteRow(c)
  PROVE  AuditInv'
<1> DEFINE row == RowOf(c)
<1>0. PICK n : n = Len(audit) + 1
  OBVIOUS
<1>1. pc[c] = "auditing" /\ audit' = Append(audit, row) /\ Goto(c, "done")
      /\ UNCHANGED <<call, answer, outcome, deeds>>
  BY DEF WriteRow
<1>2. call[c] \in Request /\ call[c].token \in Tokens
  BY <1>1 DEF AccessInv, Underway
<1>3. Target(call[c]) \in Idents \cup {None} /\ call[c].ident \in Idents \cup {None}
      /\ call[c].op \in Operations
  BY <1>2, ResolvedIsSeen, AccessAssumption DEF Target, Request
<1>4. CallAudit(c)
  BY DEF AuditInv
<1>5. row \in RowSet /\ row.call = c /\ row.outcome = outcome[c]
  BY <1>1, <1>2, <1>3, <1>4 DEF RowOf, RowSet, CallAudit, Consistent
<1> HIDE DEF row
<1>6. audit' \in Seq(RowSet) /\ DOMAIN audit' = DOMAIN audit \cup {n} /\ audit'[n] = row
      /\ \A i \in DOMAIN audit : audit'[i] = audit[i]
  BY <1>0, <1>1, <1>5 DEF AuditInv
<1>7. Rows(c)' = {n}
  BY <1>0, <1>1, <1>4, <1>5, <1>6 DEF CallAudit, Rows, AuditInv
<1>8. Consistent(c, outcome[c])' /\ outcome'[c] = audit'[n].outcome
  BY <1>1, <1>4, <1>5, <1>6 DEF CallAudit, Consistent
<1>9. pc'[c] = "done" /\ Others(c)
  BY <1>1 DEF Goto, Domains, Others
<1>10. CallAudit(c)'
  <2>1. Consistent(c, audit[n].outcome)'
    BY <1>6, <1>8 DEF Consistent
  <2> QED
    BY <1>7, <1>9, <2>1 DEF CallAudit, Places
<1>11. \A e \in Calls \ {c} : CallAudit(e)'
  BY <1>1, <1>5, <1>9, AuditOthers
<1> QED
  BY <1>1, <1>6, <1>10, <1>11 DEF AuditInv

LEMMA AuditStep == AuditInv /\ AccessInv /\ Domains /\ [Next]_vars => AuditInv'
<1> SUFFICES ASSUME AuditInv, AccessInv, Domains, [Next]_vars PROVE AuditInv'
  OBVIOUS
<1>0. CASE UNCHANGED vars
  BY <1>0 DEF vars, AuditInv, CallAudit, Rows, Silent, Changed, Consistent
<1>1. ASSUME NEW c \in Calls, Receive(c) PROVE AuditInv'
  <2>1. PICK r \in Asked(c) :
          /\ call' = [call EXCEPT ![c] = r]
          /\ IF r.token = None THEN Leave(c, "unauthorized", None)
             ELSE Goto(c, "front") /\ UNCHANGED <<answer, outcome>>
    BY <1>1 DEF Receive
  <2>2. pc[c] = "new" /\ UNCHANGED <<audit, deeds>> /\ deeds[c] = {}
    BY <1>1 DEF Receive, AccessInv
  <2>3. DOMAIN call' = Calls /\ \A e \in Calls \ {c} : call'[e] = call[e]
    BY <2>1 DEF Domains
  <2>4. CASE r.token = None
    <3>1. Leave(c, "unauthorized", None)
      BY <2>1, <2>4
    <3> QED
      BY <2>2, <2>3, <3>1, AuditLeaves DEF Domains
  <2>5. CASE r.token # None
    BY <2>1, <2>2, <2>3, <2>5, AuditGoes
  <2> QED
    BY <2>4, <2>5
<1>2. ASSUME NEW c \in Calls, NEW v, pc[c] \in {"front", "service"},
             UNCHANGED <<call, audit, deeds>>,
             IF v = Works THEN (\E place \in {"service", "working"} : Goto(c, place))
                               /\ UNCHANGED <<answer, outcome>>
             ELSE Leave(c, v.code, v.outcome),
             v = Works \/ Tells(v, call[c])
      PROVE  AuditInv'
  <2>1. deeds[c] = {}
    BY <1>2 DEF AuditInv, CallAudit
  <2>2. CASE v = Works
    <3>1. PICK place \in {"service", "working"} : Goto(c, place)
      BY <1>2, <2>2
    <3> QED
      BY <1>2, <2>2, <3>1, AuditGoes
  <2>3. CASE v # Works
    <3>1. Leave(c, v.code, v.outcome) /\ Tells(v, call[c])
      BY <1>2, <2>3
    <3>2. v.outcome # None => /\ v.outcome \in Outcomes
                              /\ v.outcome = "denied" <=> v.code = "permission_denied"
      BY <3>1 DEF Tells, Outcomes
    <3>3. v.outcome = None /\ call[c].op \in Mutations => v.code \notin {"ok", "permission_denied"}
      BY <3>1 DEF Tells
    <3> QED
      BY <1>2, <2>1, <3>1, <3>2, <3>3, AuditLeaves DEF Domains
  <2> QED
    BY <2>2, <2>3
<1>3. ASSUME NEW c \in Calls, PassFront(c) PROVE AuditInv'
  <2>1. call[c] \in Request
    BY <1>3 DEF PassFront, AccessInv
  <2>2. FrontVerdict(call[c]) = Works \/ Tells(FrontVerdict(call[c]), call[c])
    BY <2>1, FrontTells
  <2> QED
    BY <1>2, <1>3, <2>2 DEF PassFront
<1>4. ASSUME NEW c \in Calls, PassChecks(c) PROVE AuditInv'
  <2>1. call[c] \in Request
    BY <1>4 DEF PassChecks, AccessInv
  <2>2. ServiceVerdict(call[c]) = Works \/ Tells(ServiceVerdict(call[c]), call[c])
    BY <2>1, ServiceTells
  <2> QED
    BY <1>2, <1>4, <2>2 DEF PassChecks
\* The work of a call, done or broken off.
<1>5. ASSUME NEW c \in Calls, pc[c] = "working", UNCHANGED <<call, audit>>,
             NEW done \in SUBSET Work(call[c]), deeds' = [deeds EXCEPT ![c] = done],
             NEW code, NEW out, Leave(c, code, out), code # "permission_denied",
             out \in Outcomes \cup {None}, out # "denied",
             out = None => call[c].op \notin Mutations,
             out = "dry_run" => Sends(call[c]) /\ Dry(call[c])
      PROVE  AuditInv'
  <2>1. call[c] \in Request
    BY <1>5 DEF AccessInv
  <2>2. DOMAIN deeds' = Calls /\ deeds'[c] = done /\ \A e \in Calls \ {c} : deeds'[e] = deeds[e]
    BY <1>5 DEF Domains
  <2>3. out = "dry_run" => \A d \in done : d.scope # "send"
    BY <1>5, DrySendsNothing
  <2>4. out = None => \A d \in done : d.scope \in {"read", "admin", "list"}
    BY <1>5, <2>1, ReadersChangeNothing
  <2> QED
    BY <1>5, <2>2, <2>3, <2>4, AuditLeaves DEF Domains
<1>6. ASSUME NEW c \in Calls, Succeed(c) PROVE AuditInv'
  <2> DEFINE out == IF call[c].op \notin Mutations THEN None
                    ELSE IF Sends(call[c]) /\ Dry(call[c]) THEN "dry_run" ELSE "ok"
  <2>1. Leave(c, "ok", out) /\ deeds' = [deeds EXCEPT ![c] = Work(call[c])]
    BY <1>6 DEF Succeed, Work
  <2>2. /\ out \in Outcomes \cup {None} /\ out # "denied"
        /\ out = None => call[c].op \notin Mutations
        /\ out = "dry_run" => Sends(call[c]) /\ Dry(call[c])
    BY AccessAssumption DEF Outcomes
  <2> HIDE DEF out
  <2> QED
    BY <1>5, <1>6, <2>1, <2>2 DEF Succeed
<1>7. ASSUME NEW c \in Calls, Fail(c) PROVE AuditInv'
  <2> DEFINE out == IF call[c].op \in Mutations THEN "error" ELSE None
  <2>1. PICK done \in SUBSET Work(call[c]) : deeds' = [deeds EXCEPT ![c] = done]
    BY <1>7 DEF Fail, Work
  <2>2. Leave(c, "failed", out)
    BY <1>7 DEF Fail
  <2>3. /\ out \in Outcomes \cup {None} /\ out # "denied" /\ out # "dry_run"
        /\ out = None => call[c].op \notin Mutations
    BY AccessAssumption DEF Outcomes
  <2> HIDE DEF out
  <2> QED
    BY <1>5, <1>7, <2>1, <2>2, <2>3 DEF Fail
<1>8. ASSUME NEW c \in Calls, WriteFails(c) PROVE AuditInv'
  BY <1>8, AuditBreaks DEF WriteFails, Domains
<1>9. ASSUME NEW c \in Calls, Crash(c) PROVE AuditInv'
  <2>1. DOMAIN deeds' = Calls /\ \A e \in Calls \ {c} : deeds'[e] = deeds[e]
    BY <1>9 DEF Crash, Domains
  <2> QED
    BY <1>9, <2>1, AuditBreaks DEF Crash
<1> QED
  BY <1>0, <1>1, <1>3, <1>4, <1>6, <1>7, <1>8, <1>9, AuditWrites DEF Next

LEMMA AuditInvariant == Spec => []AuditInv
<1>1. Init => AuditInv
  BY DEF Init, AuditInv, CallAudit, Rows, Places
<1> QED
  BY <1>1, AuditStep, AccessInvariant, PTL DEF Spec

\* Whoever was told that a change is done or denied has one row that says so, nothing
\* that was denied or only tried was done, and a change without a row was cut off
\* (Service._mutation, _denied, Store.write_audit).
THEOREM AuditIsComplete == Spec => []AuditTellsAll
<1>1. AuditInv => AuditTellsAll
  <2> SUFFICES ASSUME AuditInv, NEW c \in Calls, pc[c] = "done"
               PROVE  /\ Cardinality(Rows(c)) <= 1
                      /\ \A i \in Rows(c) :
                           /\ audit[i].outcome = "denied" <=> answer[c] = "permission_denied"
                           /\ audit[i].outcome \in {"denied", "dry_run"} =>
                                ~ \E d \in deeds[c] : d.scope = "send"
                           /\ audit[i].outcome = "denied" => deeds[c] = {}
                      /\ (call[c].op \in Mutations /\ answer[c] \in {"ok", "permission_denied"})
                           => Rows(c) # {}
                      /\ (Changed(c) /\ Rows(c) = {}) => answer[c] \in {"lost", "internal_error"}
    BY DEF AuditTellsAll
  <2>1. CASE Silent(c)
    <3>1. Cardinality(Rows(c)) = 0
      BY <2>1, FS_EmptySet DEF Silent
    <3> QED
      BY <2>1, <3>1 DEF Silent
  <2>2. ASSUME NEW i, Rows(c) = {i}, Consistent(c, audit[i].outcome)
        PROVE  /\ Cardinality(Rows(c)) <= 1
               /\ audit[i].outcome = "denied" <=> answer[c] = "permission_denied"
               /\ audit[i].outcome \in {"denied", "dry_run"} => ~ \E d \in deeds[c] : d.scope = "send"
               /\ audit[i].outcome = "denied" => deeds[c] = {}
    <3>1. Cardinality({i}) = 1
      BY FS_Singleton
    <3> QED
      BY <2>2, <3>1 DEF Consistent
  <2>3. Silent(c) \/ \E i : Rows(c) = {i} /\ Consistent(c, audit[i].outcome)
    BY DEF AuditInv, CallAudit
  <2> QED
    BY <2>1, <2>2, <2>3
<1> QED
  BY <1>1, AuditInvariant, PTL

-----------------------------------------------------------------------------
(* Types.                                                                  *)

LEMMA TargetTyped ==
  ASSUME NEW r \in Request, r.token \in Tokens
  PROVE  Target(r) \in Idents \cup {None} /\ r.ident \in Idents \cup {None}
  BY ResolvedIsSeen, AccessAssumption DEF Target, Request

DeedSpace == [scope : Kinds, mailbox : Mailboxes \cup Idents]

\* Every deed is of one of the forms that DeedsOf, AttachedDeed and OwnDeed list.
LEMMA WorkShape ==
  ASSUME NEW r \in Request, r.token \in Tokens, audit \in Seq(RowSet), NEW d \in Work(r)
  PROVE  \E s \in Kinds, m \in Idents \cup {None} : d = Deed(s, m)
<1>0. Target(r) \in Idents \cup {None} /\ Mailboxes \subseteq Idents
  BY TargetTyped, AccessAssumption
<1>1. CASE d \in AttachedDeed(r) \cup OwnDeed(r)
  BY <1>0, <1>1 DEF AttachedDeed, OwnDeed, Kinds, Scopes
<1>2. CASE r.op = "inbox" /\ d \in DeedsOf(r)
  <2>1. d \in {Deed("read", m) : m \in Targets(r)}
    BY <1>2, ToolDomains DEF DeedsOf, Sends
  <2>2. Targets(r) \subseteq Idents \cup {None}
    BY <1>0 DEF Targets, Visible
  <2> QED
    BY <2>1, <2>2 DEF Kinds, Scopes
<1>3. CASE r.op \in {"health_deep", "mailboxes"} /\ d \in DeedsOf(r)
  <2>1. d \in {Deed(s, m) : s \in {"admin", "list"}, m \in Visible(r.token)}
    BY <1>3, ToolDomains DEF DeedsOf, Sends
  <2> QED
    BY <1>0, <2>1 DEF Visible, Kinds, Scopes
<1>4. CASE r.op = "audit_log" /\ d \in DeedsOf(r)
  <2>1. d \in {Deed("admin", audit[i].mailbox) : i \in Listed(r)}
    BY <1>4, ToolDomains DEF DeedsOf, Sends
  <2>2. ASSUME NEW i \in Listed(r) PROVE audit[i].mailbox \in Idents \cup {None}
    <3>1. audit[i] \in RowSet
      BY DEF Listed
    <3> QED
      BY <3>1 DEF RowSet
  <2> QED
    BY <2>1, <2>2 DEF Kinds, Scopes
<1>5. CASE r.op \notin {"mailboxes", "inbox", "health_deep", "audit_log"} /\ d \in DeedsOf(r)
  <2>1. \E s \in Scopes : d = Deed(s, Target(r))
    <3>1. CASE r.op = "delete" \/ r.op \in DOMAIN OrganizingTools \ {"delete"}
      BY <1>5, <3>1, ToolDomains DEF DeedsOf, Sends, Scopes
    <3>2. CASE Sends(r) \/ r.op \in {"create_draft", "update_draft", "delete_draft", "reply"}
      BY <1>5, <3>2, ToolDomains DEF DeedsOf, Sends, Scopes
    <3>3. CASE r.op \notin {"create_draft", "update_draft", "delete_draft", "reply"}
                 \cup DOMAIN OrganizingTools /\ ~ Sends(r)
      BY <1>5, <3>3, ToolDomains DEF DeedsOf, Scopes
    <3> QED
      BY <3>1, <3>2, <3>3, ToolDomains
  <2> QED
    BY <1>0, <2>1 DEF Kinds
<1> QED
  BY <1>1, <1>2, <1>3, <1>4, <1>5 DEF Work

LEMMA WorkTyped ==
  ASSUME NEW r \in Request, r.token \in Tokens, Failing(r) = {}, audit \in Seq(RowSet)
  PROVE  Work(r) \subseteq DeedSpace
<1> SUFFICES ASSUME NEW d \in Work(r) PROVE d \in DeedSpace
  OBVIOUS
<1>1. PICK s \in Kinds, m \in Idents \cup {None} : d = Deed(s, m)
  BY WorkShape
<1>2. d.mailbox # None
  BY WorkPermitted DEF Permits
<1>3. m \in Idents
  BY <1>1, <1>2 DEF Deed
<1> QED
  BY <1>1, <1>3 DEF Deed, DeedSpace

Typed ==
  /\ pc \in [Calls -> Places] /\ answer \in [Calls -> Codes \cup {None}]
  /\ outcome \in [Calls -> Outcomes \cup {None}] /\ deeds \in [Calls -> SUBSET DeedSpace]
  /\ \A c \in Calls : pc[c] = "new" => call[c] = None

LEMMA LeaveTyped ==
  ASSUME Typed, NEW c \in Calls, NEW code \in Codes, NEW out \in Outcomes \cup {None},
         Leave(c, code, out)
  PROVE  /\ pc' \in [Calls -> Places] /\ answer' \in [Calls -> Codes \cup {None}]
         /\ outcome' \in [Calls -> Outcomes \cup {None}]
         /\ \A e \in Calls : pc'[e] = "new" => e # c /\ pc[e] = "new"
  BY DEF Typed, Leave, Goto, Answer, Places

LEMMA GotoTyped ==
  ASSUME Typed, NEW c \in Calls, NEW place \in Places \ {"new"}, Goto(c, place)
  PROVE  /\ pc' \in [Calls -> Places]
         /\ \A e \in Calls : pc'[e] = "new" => e # c /\ pc[e] = "new"
  BY DEF Typed, Goto, Places

LEMMA TypedStep == Typed /\ AuditInv /\ AccessInv /\ Domains /\ [Next]_vars => Typed'
<1> SUFFICES ASSUME Typed, AuditInv, AccessInv, Domains, [Next]_vars PROVE Typed'
  OBVIOUS
<1>0. CASE UNCHANGED vars
  BY <1>0 DEF vars, Typed
<1>1. ASSUME NEW c \in Calls, Receive(c) PROVE Typed'
  <2>1. PICK r \in Asked(c) :
          /\ call' = [call EXCEPT ![c] = r]
          /\ IF r.token = None THEN Leave(c, "unauthorized", None)
             ELSE Goto(c, "front") /\ UNCHANGED <<answer, outcome>>
    BY <1>1 DEF Receive
  <2>2. \A e \in Calls \ {c} : call'[e] = call[e]
    BY <2>1 DEF Domains
  <2>3. deeds' = deeds
    BY <1>1 DEF Receive
  <2>4. CASE r.token = None
    BY <2>1, <2>2, <2>3, <2>4, LeaveTyped DEF Codes, Typed
  <2>5. CASE r.token # None
    BY <2>1, <2>2, <2>3, <2>5, GotoTyped DEF Places, Typed
  <2> QED
    BY <2>4, <2>5
<1>2. ASSUME NEW c \in Calls, NEW v, UNCHANGED <<call, deeds>>,
             IF v = Works THEN (\E place \in {"service", "working"} : Goto(c, place))
                               /\ UNCHANGED <<answer, outcome>>
             ELSE Leave(c, v.code, v.outcome),
             v = Works \/ Tells(v, call[c])
      PROVE  Typed'
  <2>1. CASE v = Works
    <3>1. PICK place \in {"service", "working"} : Goto(c, place)
      BY <1>2, <2>1
    <3> QED
      BY <1>2, <2>1, <3>1, GotoTyped DEF Places, Typed
  <2>2. CASE v # Works
    <3>1. v.code \in Codes /\ v.outcome \in Outcomes \cup {None} /\ Leave(c, v.code, v.outcome)
      BY <1>2, <2>2 DEF Tells, Codes, Outcomes
    <3> QED
      BY <1>2, <3>1, LeaveTyped DEF Typed
  <2> QED
    BY <2>1, <2>2
<1>3. ASSUME NEW c \in Calls, PassFront(c) PROVE Typed'
  <2>1. call[c] \in Request
    BY <1>3 DEF PassFront, AccessInv
  <2>2. FrontVerdict(call[c]) = Works \/ Tells(FrontVerdict(call[c]), call[c])
    BY <2>1, FrontTells
  <2> QED
    BY <1>2, <1>3, <2>2 DEF PassFront
<1>4. ASSUME NEW c \in Calls, PassChecks(c) PROVE Typed'
  <2>1. call[c] \in Request
    BY <1>4 DEF PassChecks, AccessInv
  <2>2. ServiceVerdict(call[c]) = Works \/ Tells(ServiceVerdict(call[c]), call[c])
    BY <2>1, ServiceTells
  <2> QED
    BY <1>2, <1>4, <2>2 DEF PassChecks
<1>5. ASSUME NEW c \in Calls, pc[c] = "working", NEW done \in SUBSET Work(call[c]),
             deeds' = [deeds EXCEPT ![c] = done]
      PROVE  deeds' \in [Calls -> SUBSET DeedSpace]
  <2>1. call[c] \in Request /\ call[c].token \in Tokens /\ Failing(call[c]) = {}
    BY <1>5 DEF AccessInv, Underway
  <2>2. done \in SUBSET DeedSpace
    BY <2>1, WorkTyped DEF AuditInv
  <2> QED
    BY <1>5, <2>2 DEF Typed
<1>6. ASSUME NEW c \in Calls, Succeed(c) PROVE Typed'
  <2>1. PICK out \in Outcomes \cup {None} : Leave(c, "ok", out)
    BY <1>6 DEF Succeed, Outcomes
  <2>2. deeds' \in [Calls -> SUBSET DeedSpace] /\ call' = call
    BY <1>5, <1>6 DEF Succeed, Work
  <2> QED
    BY <2>1, <2>2, LeaveTyped DEF Codes, Typed
<1>7. ASSUME NEW c \in Calls, Fail(c) PROVE Typed'
  <2>1. PICK out \in Outcomes \cup {None} : Leave(c, "failed", out)
    BY <1>7 DEF Fail, Outcomes
  <2>2. PICK done \in SUBSET Work(call[c]) : deeds' = [deeds EXCEPT ![c] = done]
    BY <1>7 DEF Fail, Work
  <2>3. deeds' \in [Calls -> SUBSET DeedSpace] /\ call' = call
    BY <1>5, <1>7, <2>2 DEF Fail
  <2> QED
    BY <2>1, <2>3, LeaveTyped DEF Codes, Typed
<1>8. ASSUME NEW c \in Calls, WriteRow(c) \/ WriteFails(c) PROVE Typed'
  <2>1. Goto(c, "done") /\ UNCHANGED <<call, outcome, deeds>>
    BY <1>8 DEF WriteRow, WriteFails
  <2>2. answer' \in [Calls -> Codes \cup {None}]
    BY <1>8 DEF WriteRow, WriteFails, Answer, Typed, Codes
  <2> QED
    BY <2>1, <2>2, GotoTyped DEF Places, Typed
<1>9. ASSUME NEW c \in Calls, Crash(c) PROVE Typed'
  <2>1. Goto(c, "done") /\ UNCHANGED <<call, outcome>>
    BY <1>9 DEF Crash
  <2>2. answer' \in [Calls -> Codes \cup {None}]
    BY <1>9 DEF Crash, Answer, Typed, Codes
  <2>3. deeds' \in [Calls -> SUBSET DeedSpace]
    <3>1. CASE pc[c] = "working"
      <4>1. PICK done \in SUBSET Work(call[c]) : deeds' = [deeds EXCEPT ![c] = done]
        BY <1>9, <3>1 DEF Crash, Work
      <4> QED
        BY <1>5, <3>1, <4>1
    <3>2. CASE pc[c] # "working"
      BY <1>9, <3>2 DEF Crash, Typed
    <3> QED
      BY <3>1, <3>2
  <2> QED
    BY <2>1, <2>2, <2>3, GotoTyped DEF Places, Typed
<1> QED
  BY <1>0, <1>1, <1>3, <1>4, <1>6, <1>7, <1>8, <1>9 DEF Next

\* The calls, their answers and the rows are well typed; no deed is done to a mailbox that
\* was not resolved (Service).
THEOREM AccessTyped == Spec => []TypeOK
<1>1. Init => Typed
  BY DEF Init, Typed, Places
<1>2. Typed /\ AuditInv /\ AccessInv => TypeOK
  <2> SUFFICES ASSUME Typed, AuditInv, AccessInv PROVE TypeOK
    OBVIOUS
  <2>1. \A c \in Calls : call[c] \in Request \/ (call[c] = None /\ pc[c] = "new")
    BY DEF Typed, AccessInv
  <2>2. ASSUME NEW i \in DOMAIN audit PROVE audit[i].call \in Calls /\ audit[i].outcome # None
    <3>1. audit[i] \in RowSet
      BY <2>2 DEF AuditInv
    <3> QED
      BY <3>1, AccessAssumption DEF RowSet
  <2> QED
    BY <2>1, <2>2 DEF TypeOK, Typed, DeedSpace
<1> QED
  BY <1>1, <1>2, TypedStep, AuditInvariant, AccessInvariant, PTL DEF Spec

-----------------------------------------------------------------------------
(* Induction, as a fact about sets of numbers: the library states it for    *)
(* operators.                                                               *)

\* What holds at 0 and is handed on holds up to n.
LEMMA UpTo ==
  ASSUME NEW n \in Nat, NEW S, 0 \in S,
         \A k \in Nat : k < n /\ k \in S => k + 1 \in S
  PROVE  0..n \subseteq S
<1> DEFINE T == (0..n) \ S
<1> SUFFICES ASSUME T # {} PROVE FALSE
  OBVIOUS
<1>1. T \in SUBSET Nat
  OBVIOUS
<1>2. PICK k \in T : \A m \in T : k <= m
  <2> HIDE DEF T
  <2> QED
    BY <1>1, LeastNumber
<1>3. k \in 0..n /\ k \notin S /\ k # 0
  BY <1>2
<1>4. k - 1 \in Nat /\ k - 1 < n /\ k - 1 \in 0..n
  BY <1>3
<1>5. k - 1 \in S
  BY <1>2, <1>4
<1>6. (k - 1) + 1 \in S
  BY <1>4, <1>5
<1> QED
  BY <1>3, <1>6

-----------------------------------------------------------------------------
(* What a fold over a sequence computes.                                    *)

\* The greatest of the first numbers, and of some of them with the last one.
LEMMA MaxOfSet ==
  ASSUME NEW k \in Nat, NEW s \in SUBSET (1..k), s # {}
  PROVE  /\ Max(s) \in s
         /\ k \in s => Max(s) = k
<1>1. \E x \in s : \A y \in s : x >= y
  <2> DEFINE T == {k - x : x \in s}
  <2>1. T \in SUBSET Nat /\ T # {}
    <3>1. \A x \in s : k - x \in Nat
      OBVIOUS
    <3> QED
      BY <3>1
  <2>2. PICK t \in T : \A u \in T : t <= u
    <3> HIDE DEF T
    <3> QED
      BY <2>1, LeastNumber
  <2>3. PICK x \in s : t = k - x
    BY <2>2
  <2>4. ASSUME NEW y \in s PROVE x >= y
    <3>1. k - y \in T
      OBVIOUS
    <3>2. k - x <= k - y
      BY <2>2, <2>3, <3>1
    <3> QED
      BY <3>2, <2>3
  <2> QED
    BY <2>4
<1>2. Max(s) \in s /\ \A y \in s : Max(s) >= y
  BY <1>1 DEF Max
<1>3. Max(s) \in 1..k
  BY <1>2
<1>4. k \in s => Max(s) >= k
  BY <1>2
<1> QED
  BY <1>2, <1>3, <1>4

\* it solves the recursion of a fold over n elements, which takes them from the
\* last to the first; its values are in X.
SolvesFold(it, n, X, base, step) ==
  /\ it \in [SUBSET (1..n) -> X]
  /\ \A s \in SUBSET (1..n) :
       it[s] = IF s = {} THEN base ELSE step[it[s \ {Max(s)}], Max(s)]

\* There is a solution, whatever the step does.
LEMMA FoldExists ==
  ASSUME NEW n \in Nat, NEW X, NEW base \in X, NEW step \in [X \X (1..n) -> X]
  PROVE  \E it : SolvesFold(it, n, X, base, step)
<1> USE DEF SolvesFold
<1> DEFINE Solves(k, it) == SolvesFold(it, k, X, base, step)
           S == {k \in Nat : \E it : Solves(k, it)}
<1>1. 0 \in S
  <2> DEFINE it == [s \in SUBSET (1..0) |-> base]
  <2>1. SUBSET (1..0) = {{}}
    OBVIOUS
  <2>2. Solves(0, it)
    BY <2>1
  <2> QED
    BY <2>2
<1>2. ASSUME NEW k \in Nat, k < n, k \in S PROVE k + 1 \in S
  <2>1. PICK it : Solves(k, it)
    BY <1>2
  <2> DEFINE next == [s \in SUBSET (1..(k+1)) |->
                        IF k + 1 \in s THEN step[it[s \ {k + 1}], k + 1] ELSE it[s]]
  <2>2. ASSUME NEW s \in SUBSET (1..(k+1)), k + 1 \in s
        PROVE  /\ s \ {k + 1} \in SUBSET (1..k) /\ Max(s) = k + 1
               /\ next[s] = step[it[s \ {k + 1}], k + 1]
               /\ next[s \ {k + 1}] = it[s \ {k + 1}]
    <3>1. Max(s) = k + 1
      BY <2>2, MaxOfSet
    <3>2. s \ {k + 1} \in SUBSET (1..k) /\ s \ {k + 1} \in SUBSET (1..(k+1))
      OBVIOUS
    <3> QED
      BY <2>2, <3>1, <3>2
  <2>3. ASSUME NEW s \in SUBSET (1..(k+1)), k + 1 \notin s
        PROVE  /\ s \in SUBSET (1..k) /\ next[s] = it[s]
               /\ s # {} => /\ s \ {Max(s)} \in SUBSET (1..k) /\ Max(s) \in 1..k
                            /\ next[s \ {Max(s)}] = it[s \ {Max(s)}]
    <3>1. s \in SUBSET (1..k)
      BY <2>3
    <3>2. s # {} => Max(s) \in s
      BY <3>1, MaxOfSet
    <3>3. s \ {Max(s)} \in SUBSET (1..(k+1)) /\ k + 1 \notin s \ {Max(s)}
      BY <2>3
    <3> QED
      BY <2>3, <3>1, <3>2, <3>3
  <2>4. next \in [SUBSET (1..(k+1)) -> X]
    <3>1. ASSUME NEW s \in SUBSET (1..(k+1)) PROVE next[s] \in X
      <4>1. CASE k + 1 \in s
        <5>1. it[s \ {k + 1}] \in X
          BY <2>1, <2>2, <4>1
        <5>3. k + 1 \in 1..n
          <6> HIDE DEF S
          <6> QED
            BY <1>2
        <5>2. <<it[s \ {k + 1}], k + 1>> \in X \X (1..n)
          BY <5>1, <5>3
        <5> QED
          BY <2>2, <4>1, <5>2
      <4>2. CASE k + 1 \notin s
        BY <2>1, <2>3, <4>2
      <4> QED
        BY <4>1, <4>2
    <3> QED
      BY <3>1
  <2>5. ASSUME NEW s \in SUBSET (1..(k+1))
        PROVE  next[s] = IF s = {} THEN base ELSE step[next[s \ {Max(s)}], Max(s)]
    <3> HIDE DEF next
    <3>1. CASE k + 1 \in s
      BY <2>2, <3>1
    <3>2. CASE k + 1 \notin s
      BY <2>1, <2>3, <3>2
    <3> QED
      BY <3>1, <3>2
  <2>6. Solves(k + 1, next)
    <3> HIDE DEF next
    <3> QED
      BY <2>4, <2>5
  <2> HIDE DEF next, Solves
  <2> QED
    BY <2>6
<1>3. n \in S
  <2> HIDE DEF S
  <2> QED
    BY <1>1, <1>2, UpTo
<1>4. PICK it : Solves(n, it)
  BY <1>3
<1> QED
  BY <1>4

\* it follows that recursion where its values are in X.
FollowsFold(it, n, X, base, step) ==
  /\ it[{}] = base
  /\ \A s \in SUBSET (1..n) :
       s # {} /\ it[s \ {Max(s)}] \in X => it[s] = step[it[s \ {Max(s)}], Max(s)]

\* F is the values of a fold after each element.
Stepwise(F, n, X, base, step) ==
  /\ F \in [0..n -> X]
  /\ F[0] = base
  /\ \A k \in 1..n : F[k] = step[F[k-1], k]

Unrolls(it, n, X, base, step) ==
  \E F : Stepwise(F, n, X, base, step) /\ F[n] = it[1..n]

\* What follows the recursion is what the steps lead to, one by one.
LEMMA Unrolled ==
  ASSUME NEW n \in Nat, NEW X, NEW base \in X, NEW step \in [X \X (1..n) -> X],
         NEW it, FollowsFold(it, n, X, base, step)
  PROVE  Unrolls(it, n, X, base, step)
<1> DEFINE F == [k \in 0..n |-> it[1..k]]
           S == {k \in 0..n : it[1..k] \in X}
<1>1. \A k \in 0..n : F[k] = it[1..k]
  OBVIOUS
<1>2. it[1..0] = base
  <2>1. 1..0 = {}
    OBVIOUS
  <2> QED
    BY <2>1 DEF FollowsFold
<1>3. ASSUME NEW k \in 1..n, it[1..(k-1)] \in X
      PROVE  it[1..k] = step[it[1..(k-1)], k] /\ it[1..k] \in X
  <2>1. (1..k) \in SUBSET (1..n) /\ (1..k) # {} /\ k \in Nat /\ k \in 1..k
    <3>1. \A i \in 1..k : i \in 1..n
      OBVIOUS
    <3>2. k \in 1..k
      OBVIOUS
    <3> QED
      BY <3>1, <3>2
  <2>2. Max(1..k) = k
    <3>1. (1..k) \in SUBSET (1..k)
      OBVIOUS
    <3> QED
      BY <2>1, <3>1, MaxOfSet
  <2>3. (1..k) \ {k} = 1..(k-1)
    OBVIOUS
  <2>4. it[1..k] = step[it[1..(k-1)], k]
    BY <1>3, <2>1, <2>2, <2>3 DEF FollowsFold
  <2>5. <<it[1..(k-1)], k>> \in X \X (1..n)
    BY <1>3
  <2> QED
    BY <2>4, <2>5
<1>4. 0..n \subseteq S
  <2>1. 0 \in S
    BY <1>2
  <2>2. \A k \in Nat : k < n /\ k \in S => k + 1 \in S
    <3> SUFFICES ASSUME NEW k \in Nat, k < n, it[1..k] \in X PROVE it[1..(k+1)] \in X
      OBVIOUS
    <3>1. k + 1 \in 1..n /\ (k + 1) - 1 = k
      OBVIOUS
    <3> QED
      BY <1>3, <3>1
  <2> HIDE DEF S
  <2> QED
    BY <2>1, <2>2, UpTo
<1>5. F \in [0..n -> X]
  BY <1>4
<1>6. \A k \in 1..n : F[k] = step[F[k-1], k]
  <2> TAKE k \in 1..n
  <2>1. k - 1 \in 0..n /\ k \in 0..n
    OBVIOUS
  <2>2. it[1..(k-1)] \in X
    BY <1>4, <2>1
  <2> QED
    BY <1>1, <1>3, <2>1, <2>2
<1>7. F[0] = base /\ F[n] = it[1..n]
  BY <1>1, <1>2
<1> HIDE DEF F
<1> QED
  BY <1>5, <1>6, <1>7 DEF Stepwise, Unrolls

\* Kept is computed element by element.
KeptRun(F, X, s, S) ==
  /\ F \in [0..Len(s) -> Seq(X)] /\ F[0] = <<>> /\ Kept(s, S) = F[Len(s)]
  /\ \A k \in 1..Len(s) : F[k] = (IF s[k] \in S THEN Append(F[k-1], s[k]) ELSE F[k-1])
LEMMA KeptSteps == ASSUME NEW X, NEW s \in Seq(X), NEW S PROVE \E F : KeptRun(F, X, s, S)
<1> DEFINE step == [p \in Seq(X) \X (1..Len(s)) |-> (IF s[p[2]] \in S THEN Append(p[1], s[p[2]]) ELSE p[1])]
           G(it) == [t \in SUBSET DOMAIN s |->
                       IF t = {} THEN <<>>
                       ELSE (IF s[Max(t)] \in S THEN Append(it[t \ {Max(t)}], s[Max(t)]) ELSE it[t \ {Max(t)}])]
           iter == CHOOSE it : it = G(it)
<1>1. Len(s) \in Nat /\ DOMAIN s = 1..Len(s) /\ <<>> \in Seq(X)
  OBVIOUS
<1>2. step \in [Seq(X) \X (1..Len(s)) -> Seq(X)]
  OBVIOUS
<1>3. \A x \in Seq(X), i \in 1..Len(s) : step[x, i] = (IF s[i] \in S THEN Append(x, s[i]) ELSE x)
  OBVIOUS
<1> HIDE DEF step
<1>4. \A t \in SUBSET (1..Len(s)) : t # {} => Max(t) \in 1..Len(s) /\ t \ {Max(t)} \in SUBSET (1..Len(s))
  <2> SUFFICES ASSUME NEW t \in SUBSET (1..Len(s)), t # {}
               PROVE  Max(t) \in 1..Len(s) /\ t \ {Max(t)} \in SUBSET (1..Len(s))
    OBVIOUS
  <2>1. Max(t) \in t
    BY <1>1, MaxOfSet
  <2> QED
    BY <2>1
<1>5. iter = G(iter)
  <2>1. PICK it : SolvesFold(it, Len(s), Seq(X), <<>>, step)
    BY <1>1, <1>2, FoldExists
  <2>2. \A t \in SUBSET (1..Len(s)) : it[t] = IF t = {} THEN <<>> ELSE (IF s[Max(t)] \in S THEN Append(it[t \ {Max(t)}], s[Max(t)]) ELSE it[t \ {Max(t)}])
    BY <1>3, <1>4, <2>1 DEF SolvesFold
  <2>3. it = G(it)
    BY <1>1, <2>1, <2>2 DEF SolvesFold
  <2> HIDE DEF G
  <2> QED
    BY <2>3
<1>6. Kept(s, S) = iter[DOMAIN s]
  BY DEF Kept, FoldLeft, MapThenFoldSet
<1> HIDE DEF iter
<1>7. iter[{}] = <<>>
  BY <1>5
<1>8. FollowsFold(iter, Len(s), Seq(X), <<>>, step)
  <2>1. \A t \in SUBSET (1..Len(s)) :
          t # {} /\ iter[t \ {Max(t)}] \in Seq(X) => iter[t] = step[iter[t \ {Max(t)}], Max(t)]
    BY <1>1, <1>3, <1>4, <1>5
  <2> QED
    BY <1>7, <2>1 DEF FollowsFold
<1>9. PICK F : Stepwise(F, Len(s), Seq(X), <<>>, step) /\ F[Len(s)] = iter[1..Len(s)]
  <2>1. Unrolls(iter, Len(s), Seq(X), <<>>, step)
    BY <1>1, <1>2, <1>8, Unrolled
  <2> QED
    BY <2>1 DEF Unrolls
<1>10. F \in [0..Len(s) -> Seq(X)] /\ F[0] = <<>> /\ Kept(s, S) = F[Len(s)]
  BY <1>1, <1>6, <1>9 DEF Stepwise
<1>11. ASSUME NEW k \in 1..Len(s) PROVE F[k] = (IF s[k] \in S THEN Append(F[k-1], s[k]) ELSE F[k-1])
  <2>1. F[k-1] \in Seq(X)
    BY <1>1, <1>10
  <2> QED
    BY <1>3, <1>9, <2>1 DEF Stepwise
<1>12. KeptRun(F, X, s, S)
  BY <1>10, <1>11 DEF KeptRun
<1> HIDE DEF G
<1> QED
  BY <1>12

\* So is Firsts.
FirstsRun(F, X, s, same) ==
  /\ F \in [0..Len(s) -> Seq(X)] /\ F[0] = <<>> /\ Firsts(s, same) = F[Len(s)]
  /\ \A k \in 1..Len(s) : F[k] = (IF \E y \in ToSet(F[k-1]) : <<y, s[k]>> \in same THEN F[k-1] ELSE Append(F[k-1], s[k]))
LEMMA FirstsSteps == ASSUME NEW X, NEW s \in Seq(X), NEW same PROVE \E F : FirstsRun(F, X, s, same)
<1> DEFINE step == [p \in Seq(X) \X (1..Len(s)) |-> (IF \E y \in ToSet(p[1]) : <<y, s[p[2]]>> \in same THEN p[1] ELSE Append(p[1], s[p[2]]))]
           G(it) == [t \in SUBSET DOMAIN s |->
                       IF t = {} THEN <<>>
                       ELSE (IF \E y \in ToSet(it[t \ {Max(t)}]) : <<y, s[Max(t)]>> \in same THEN it[t \ {Max(t)}] ELSE Append(it[t \ {Max(t)}], s[Max(t)]))]
           iter == CHOOSE it : it = G(it)
<1>1. Len(s) \in Nat /\ DOMAIN s = 1..Len(s) /\ <<>> \in Seq(X)
  OBVIOUS
<1>2. step \in [Seq(X) \X (1..Len(s)) -> Seq(X)]
  OBVIOUS
<1>3. \A x \in Seq(X), i \in 1..Len(s) : step[x, i] = (IF \E y \in ToSet(x) : <<y, s[i]>> \in same THEN x ELSE Append(x, s[i]))
  OBVIOUS
<1> HIDE DEF step
<1>4. \A t \in SUBSET (1..Len(s)) : t # {} => Max(t) \in 1..Len(s) /\ t \ {Max(t)} \in SUBSET (1..Len(s))
  <2> SUFFICES ASSUME NEW t \in SUBSET (1..Len(s)), t # {}
               PROVE  Max(t) \in 1..Len(s) /\ t \ {Max(t)} \in SUBSET (1..Len(s))
    OBVIOUS
  <2>1. Max(t) \in t
    BY <1>1, MaxOfSet
  <2> QED
    BY <2>1
<1>5. iter = G(iter)
  <2>1. PICK it : SolvesFold(it, Len(s), Seq(X), <<>>, step)
    BY <1>1, <1>2, FoldExists
  <2>2. \A t \in SUBSET (1..Len(s)) : it[t] = IF t = {} THEN <<>> ELSE (IF \E y \in ToSet(it[t \ {Max(t)}]) : <<y, s[Max(t)]>> \in same THEN it[t \ {Max(t)}] ELSE Append(it[t \ {Max(t)}], s[Max(t)]))
    BY <1>3, <1>4, <2>1 DEF SolvesFold
  <2>3. it = G(it)
    BY <1>1, <2>1, <2>2 DEF SolvesFold
  <2> HIDE DEF G
  <2> QED
    BY <2>3
<1>6. Firsts(s, same) = iter[DOMAIN s]
  BY DEF Firsts, FoldLeft, MapThenFoldSet
<1> HIDE DEF iter
<1>7. iter[{}] = <<>>
  BY <1>5
<1>8. FollowsFold(iter, Len(s), Seq(X), <<>>, step)
  <2>1. \A t \in SUBSET (1..Len(s)) :
          t # {} /\ iter[t \ {Max(t)}] \in Seq(X) => iter[t] = step[iter[t \ {Max(t)}], Max(t)]
    BY <1>1, <1>3, <1>4, <1>5
  <2> QED
    BY <1>7, <2>1 DEF FollowsFold
<1>9. PICK F : Stepwise(F, Len(s), Seq(X), <<>>, step) /\ F[Len(s)] = iter[1..Len(s)]
  <2>1. Unrolls(iter, Len(s), Seq(X), <<>>, step)
    BY <1>1, <1>2, <1>8, Unrolled
  <2> QED
    BY <2>1 DEF Unrolls
<1>10. F \in [0..Len(s) -> Seq(X)] /\ F[0] = <<>> /\ Firsts(s, same) = F[Len(s)]
  BY <1>1, <1>6, <1>9 DEF Stepwise
<1>11. ASSUME NEW k \in 1..Len(s) PROVE F[k] = (IF \E y \in ToSet(F[k-1]) : <<y, s[k]>> \in same THEN F[k-1] ELSE Append(F[k-1], s[k]))
  <2>1. F[k-1] \in Seq(X)
    BY <1>1, <1>10
  <2> QED
    BY <1>3, <1>9, <2>1 DEF Stepwise
<1>12. FirstsRun(F, X, s, same)
  BY <1>10, <1>11 DEF FirstsRun
<1> HIDE DEF G
<1> QED
  BY <1>12


\* What a sequence holds, and what one more element or another sequence adds.
LEMMA ToSetFacts ==
  /\ ToSet(<<>>) = {}
  /\ \A X : \A s \in Seq(X) :
       /\ ToSet(s) = {s[i] : i \in 1..Len(s)} /\ ToSet(s) \subseteq X
       /\ s # <<>> => s[1] \in ToSet(s)
       /\ s = <<>> <=> ToSet(s) = {}
       /\ \A x \in X : ToSet(Append(s, x)) = ToSet(s) \cup {x}
       /\ \A t \in Seq(X) : ToSet(s \o t) = ToSet(s) \cup ToSet(t)
<1>1. ToSet(<<>>) = {}
  BY DEF ToSet
<1>2. ASSUME NEW X, NEW s \in Seq(X)
      PROVE  /\ ToSet(s) = {s[i] : i \in 1..Len(s)} /\ ToSet(s) \subseteq X
             /\ s # <<>> => s[1] \in ToSet(s)
             /\ s = <<>> <=> ToSet(s) = {}
  BY DEF ToSet
<1>3. ASSUME NEW X, NEW s \in Seq(X), NEW x \in X
      PROVE  ToSet(Append(s, x)) = ToSet(s) \cup {x}
  <2>1. ToSet(Append(s, x)) \subseteq ToSet(s) \cup {x}
    BY DEF ToSet
  <2>2. ASSUME NEW i \in 1..Len(s) PROVE s[i] \in ToSet(Append(s, x))
    <3>1. i \in 1..Len(Append(s, x)) /\ Append(s, x)[i] = s[i]
      OBVIOUS
    <3> QED
      BY <3>1 DEF ToSet
  <2>3. x \in ToSet(Append(s, x))
    <3>1. Len(s) + 1 \in 1..Len(Append(s, x)) /\ Append(s, x)[Len(s) + 1] = x
      OBVIOUS
    <3> QED
      BY <3>1 DEF ToSet
  <2> QED
    BY <1>2, <2>1, <2>2, <2>3
<1>4. ASSUME NEW X, NEW s \in Seq(X), NEW t \in Seq(X)
      PROVE  ToSet(s \o t) = ToSet(s) \cup ToSet(t)
  <2>0. /\ s \o t \in Seq(X) /\ Len(s \o t) = Len(s) + Len(t)
        /\ \A i \in 1..(Len(s) + Len(t)) :
             (s \o t)[i] = IF i <= Len(s) THEN s[i] ELSE t[i - Len(s)]
    BY ConcatProperties
  <2>a. ToSet(s \o t) = {(s \o t)[i] : i \in 1..(Len(s) + Len(t))}
    <3>1. DOMAIN (s \o t) = 1..(Len(s) + Len(t))
      BY <2>0, LenProperties
    <3> QED
      BY <3>1 DEF ToSet
  <2>b. ToSet(s) = {s[i] : i \in 1..Len(s)} /\ ToSet(t) = {t[i] : i \in 1..Len(t)}
    BY <1>2
  <2> HIDE DEF ToSet
  <2>1. ASSUME NEW i \in 1..Len(s) PROVE s[i] \in ToSet(s \o t)
    <3>1. i \in 1..(Len(s) + Len(t)) /\ (s \o t)[i] = s[i]
      BY <2>0
    <3> QED
      BY <2>a, <3>1
  <2>2. ASSUME NEW i \in 1..Len(t) PROVE t[i] \in ToSet(s \o t)
    <3>1. Len(s) + i \in 1..(Len(s) + Len(t)) /\ (s \o t)[Len(s) + i] = t[i]
      BY <2>0
    <3> QED
      BY <2>a, <3>1
  <2>3. ASSUME NEW i \in 1..(Len(s) + Len(t)) PROVE (s \o t)[i] \in ToSet(s) \cup ToSet(t)
    <3>1. CASE i <= Len(s)
      BY <1>2, <2>0, <3>1
    <3>2. CASE ~(i <= Len(s))
      <4>1. i - Len(s) \in 1..Len(t)
        BY <3>2
      <4> QED
        BY <1>2, <2>0, <3>2, <4>1
    <3> QED
      BY <3>1, <3>2
  <2> QED
    BY <2>a, <2>b, <2>1, <2>2, <2>3
<1> QED
  BY <1>1, <1>2, <1>3, <1>4

\* Kept keeps the elements that are in S, and no others.
LEMMA KeptFacts ==
  ASSUME NEW X, NEW s \in Seq(X), NEW S
  PROVE  /\ Kept(s, S) \in Seq(X) /\ Len(Kept(s, S)) <= Len(s)
         /\ ToSet(Kept(s, S)) = ToSet(s) \cap S
<1>0. PICK F : KeptRun(F, X, s, S)
  BY KeptSteps
<1>1. /\ F \in [0..Len(s) -> Seq(X)] /\ F[0] = <<>> /\ Kept(s, S) = F[Len(s)]
      /\ \A k \in 1..Len(s) : F[k] = IF s[k] \in S THEN Append(F[k-1], s[k]) ELSE F[k-1]
  BY <1>0 DEF KeptRun
<1> DEFINE Fine(k) == /\ Len(F[k]) <= k
                      /\ ToSet(F[k]) = {s[i] : i \in 1..k} \cap S
           T == {k \in 0..Len(s) : Fine(k)}
<1>2. 0 \in T
  BY <1>1, ToSetFacts
<1>3. ASSUME NEW k \in Nat, k < Len(s), Fine(k) PROVE Fine(k + 1)
  <2>1. /\ k + 1 \in 1..Len(s) /\ (k + 1) - 1 = k /\ k \in 0..Len(s)
        /\ s[k + 1] \in X /\ F[k] \in Seq(X)
    <3>1. k + 1 \in 1..Len(s) /\ (k + 1) - 1 = k /\ k \in 0..Len(s)
      BY <1>3
    <3>2. F \in [0..Len(s) -> Seq(X)]
      BY <1>1
    <3> QED
      BY <3>1, <3>2, ElementOfSeq
  <2>2. F[k + 1] = IF s[k + 1] \in S THEN Append(F[k], s[k + 1]) ELSE F[k]
    BY <1>1, <2>1
  <2>3. {s[i] : i \in 1..(k+1)} = {s[i] : i \in 1..k} \cup {s[k+1]}
    <3>1. 1..(k + 1) = (1..k) \cup {k + 1}
      BY <2>1
    <3> QED
      BY <3>1
  <2>4. CASE s[k + 1] \in S
    <3>1. Len(F[k + 1]) <= k + 1
      BY <1>3, <2>1, <2>2, <2>4
    <3>2. ToSet(F[k + 1]) = ToSet(F[k]) \cup {s[k + 1]}
      BY <2>1, <2>2, <2>4, ToSetFacts
    <3> QED
      BY <1>3, <2>3, <2>4, <3>1, <3>2
  <2>5. CASE s[k + 1] \notin S
    BY <1>3, <2>1, <2>2, <2>3, <2>5
  <2> QED
    BY <2>4, <2>5
<1>4. Len(s) \in T
  <2>1. \A k \in Nat : k < Len(s) /\ k \in T => k + 1 \in T
    <3> HIDE DEF Fine
    <3> QED
      BY <1>3
  <2> HIDE DEF T
  <2>2. Len(s) \in Nat
    OBVIOUS
  <2>3. 0..Len(s) \subseteq T
    BY <1>2, <2>1, <2>2, UpTo
  <2> QED
    BY <2>2, <2>3
<1> QED
  BY <1>1, <1>4, ToSetFacts

\* Of what is the same Firsts keeps the first, and of the rest all.
LEMMA FirstsFacts ==
  ASSUME NEW X, NEW s \in Seq(X), NEW same
  PROVE  /\ Firsts(s, same) \in Seq(X) /\ ToSet(Firsts(s, same)) \subseteq ToSet(s)
         /\ \A x \in ToSet(s) : \/ x \in ToSet(Firsts(s, same))
                                \/ \E y \in ToSet(Firsts(s, same)) : <<y, x>> \in same
         /\ \A i, j \in 1..Len(Firsts(s, same)) :
              i < j => <<Firsts(s, same)[i], Firsts(s, same)[j]>> \notin same
<1>0. PICK F : FirstsRun(F, X, s, same)
  BY FirstsSteps
<1>1. /\ F \in [0..Len(s) -> Seq(X)] /\ F[0] = <<>> /\ Firsts(s, same) = F[Len(s)]
      /\ \A k \in 1..Len(s) :
           F[k] = IF \E y \in ToSet(F[k-1]) : <<y, s[k]>> \in same
                  THEN F[k-1] ELSE Append(F[k-1], s[k])
  BY <1>0 DEF FirstsRun
<1> DEFINE Fine(k) ==
      /\ ToSet(F[k]) \subseteq {s[i] : i \in 1..k}
      /\ \A i \in 1..k : s[i] \in ToSet(F[k]) \/ \E y \in ToSet(F[k]) : <<y, s[i]>> \in same
      /\ \A i, j \in 1..Len(F[k]) : i < j => <<F[k][i], F[k][j]>> \notin same
    T == {k \in 0..Len(s) : Fine(k)}
<1>2. 0 \in T
  BY <1>1, ToSetFacts
<1>3. ASSUME NEW k \in Nat, k < Len(s), Fine(k) PROVE Fine(k + 1)
  <2>1. /\ k + 1 \in 1..Len(s) /\ (k + 1) - 1 = k /\ k \in 0..Len(s)
        /\ s[k + 1] \in X /\ F[k] \in Seq(X)
    <3>1. k + 1 \in 1..Len(s) /\ (k + 1) - 1 = k /\ k \in 0..Len(s)
      BY <1>3
    <3>2. F \in [0..Len(s) -> Seq(X)]
      BY <1>1
    <3> QED
      BY <3>1, <3>2, ElementOfSeq
  <2>2. F[k + 1] = IF \E y \in ToSet(F[k]) : <<y, s[k + 1]>> \in same
                   THEN F[k] ELSE Append(F[k], s[k + 1])
    BY <1>1, <2>1
  <2>3. 1..(k + 1) = (1..k) \cup {k + 1}
    BY <2>1
  <2>4. CASE \E y \in ToSet(F[k]) : <<y, s[k + 1]>> \in same
    BY <1>3, <2>2, <2>3, <2>4
  <2>5. CASE ~ \E y \in ToSet(F[k]) : <<y, s[k + 1]>> \in same
    <3>1. F[k + 1] = Append(F[k], s[k + 1]) /\ ToSet(F[k + 1]) = ToSet(F[k]) \cup {s[k + 1]}
      BY <2>1, <2>2, <2>5, ToSetFacts
    <3>2. ASSUME NEW i \in 1..Len(F[k + 1]), NEW j \in 1..Len(F[k + 1]), i < j
          PROVE  <<F[k + 1][i], F[k + 1][j]>> \notin same
      <4>1. i \in 1..Len(F[k]) /\ F[k + 1][i] = F[k][i] /\ F[k][i] \in ToSet(F[k])
        BY <2>1, <3>1, <3>2, ToSetFacts
      <4>2. CASE j \in 1..Len(F[k])
        <5>1. F[k + 1][j] = F[k][j]
          BY <2>1, <3>1, <4>2
        <5> QED
          BY <1>3, <3>2, <4>1, <4>2, <5>1
      <4>3. CASE j = Len(F[k]) + 1
        <5>1. F[k + 1][j] = s[k + 1]
          BY <2>1, <3>1, <4>3
        <5> QED
          BY <2>5, <4>1, <5>1
      <4>4. Len(F[k + 1]) = Len(F[k]) + 1 /\ Len(F[k]) \in Nat
        BY <2>1, <3>1
      <4> QED
        BY <4>2, <4>3, <4>4
    <3> QED
      BY <1>3, <2>3, <3>1, <3>2
  <2> QED
    BY <2>4, <2>5
<1>4. Len(s) \in T
  <2>1. \A k \in Nat : k < Len(s) /\ k \in T => k + 1 \in T
    <3> HIDE DEF Fine
    <3> QED
      BY <1>3
  <2> HIDE DEF T
  <2>2. Len(s) \in Nat
    OBVIOUS
  <2>3. 0..Len(s) \subseteq T
    BY <1>2, <2>1, <2>2, UpTo
  <2> QED
    BY <2>2, <2>3
<1>5. Fine(Len(s))
  BY <1>4
<1>6. ToSet(s) = {s[i] : i \in 1..Len(s)} /\ F[Len(s)] \in Seq(X)
  BY <1>1, ToSetFacts
<1>7. \A x \in ToSet(s) : x \in ToSet(F[Len(s)]) \/ \E y \in ToSet(F[Len(s)]) : <<y, x>> \in same
  BY <1>5, <1>6
<1> QED
  BY <1>1, <1>5, <1>6, <1>7

\* LastOf cuts from the front, and only what is too long.
LEMMA LastOfFacts ==
  ASSUME NEW X, NEW s \in Seq(X), NEW n \in Nat
  PROVE  /\ LastOf(s, n) \in Seq(X) /\ Len(LastOf(s, n)) <= n
         /\ ToSet(LastOf(s, n)) \subseteq ToSet(s)
         /\ Len(s) <= n => LastOf(s, n) = s
         /\ n # 0 /\ s # <<>> => ToSet(LastOf(s, n)) # {}
<1>1. CASE Len(s) <= n
  <2>1. s # <<>> => ToSet(s) # {}
    BY ToSetFacts
  <2> QED
    BY <1>1, <2>1 DEF LastOf
<1>2. CASE ~(Len(s) <= n)
  <2> DEFINE m == Len(s) - n + 1
  <2>1. /\ m \in 1..(Len(s) + 1) /\ m \in Int /\ Len(s) \in Nat
        /\ Len(s) - m + 1 = n
    BY <1>2
  <2>2. LastOf(s, n) = SubSeq(s, m, Len(s))
    BY <1>2 DEF LastOf
  <2>3. \A i \in m..Len(s) : s[i] \in X
    BY <2>1
  <2> HIDE DEF m
  <2>4. /\ SubSeq(s, m, Len(s)) \in Seq(X)
        /\ Len(SubSeq(s, m, Len(s))) = IF m <= Len(s) THEN Len(s) - m + 1 ELSE 0
        /\ \A i \in 1..(Len(s) - m + 1) : SubSeq(s, m, Len(s))[i] = s[m + i - 1]
    BY <2>1, <2>3, SubSeqProperties
  <2>5. Len(SubSeq(s, m, Len(s))) = n
    BY <2>1, <2>4
  <2>6. \A i \in 1..n : m + i - 1 \in 1..Len(s)
    BY <2>1
  <2>7. ToSet(SubSeq(s, m, Len(s))) = {SubSeq(s, m, Len(s))[i] : i \in 1..n}
    BY <2>4, <2>5, ToSetFacts
  <2>8. ToSet(s) = {s[i] : i \in 1..Len(s)}
    BY ToSetFacts
  <2>9. \A i \in 1..n : SubSeq(s, m, Len(s))[i] \in ToSet(s)
    BY <2>1, <2>4, <2>6, <2>8
  <2>10. n # 0 => ToSet(SubSeq(s, m, Len(s))) # {}
    <3>1. n # 0 => 1 \in 1..n
      OBVIOUS
    <3> QED
      BY <2>7, <3>1
  <2>11. n # 0 => ToSet(LastOf(s, n)) # {}
    BY <2>2, <2>10
  <2>12. LastOf(s, n) \in Seq(X) /\ Len(LastOf(s, n)) <= n /\ ToSet(LastOf(s, n)) \subseteq ToSet(s)
    BY <2>2, <2>4, <2>5, <2>7, <2>9
  <2> QED
    BY <1>2, <2>11, <2>12
<1> QED
  BY <1>1, <1>2

\* As many values as places, when no value has two.
LEMMA CountedOnce ==
  ASSUME NEW X, NEW s \in Seq(X), \A i, j \in 1..Len(s) : s[i] = s[j] => i = j
  PROVE  IsFiniteSet(ToSet(s)) /\ Cardinality(ToSet(s)) = Len(s)
<1>1. ToSet(s) = {s[i] : i \in 1..Len(s)} /\ Len(s) \in Nat
  BY ToSetFacts
<1>2. s \in Bijection(1..Len(s), ToSet(s))
  <2>1. s \in [1..Len(s) -> ToSet(s)] /\ DOMAIN s = 1..Len(s)
    BY <1>1
  <2>2. IsInjective(s)
    BY <2>1 DEF IsInjective
  <2>3. \A t \in ToSet(s) : \E i \in 1..Len(s) : s[i] = t
    BY <1>1
  <2> QED
    BY <2>1, <2>2, <2>3 DEF Bijection, Injection, Surjection
<1>3. ExistsBijection(1..Len(s), ToSet(s))
  BY <1>2 DEF ExistsBijection
<1> QED
  BY <1>1, <1>3, FS_CountingElements, FS_NatBijection

\* Distinct has every value once.
LEMMA DistinctFacts ==
  ASSUME NEW X, NEW s \in Seq(X)
  PROVE  /\ Distinct(s) \in Seq(X) /\ ToSet(Distinct(s)) = ToSet(s)
         /\ IsFiniteSet(ToSet(s)) /\ Cardinality(ToSet(s)) = Len(Distinct(s))
<1> DEFINE same == {<<x, x>> : x \in ToSet(s)}
           r == Firsts(s, same)
<1>0. Distinct(s) = r
  BY DEF Distinct
<1>a. \A x, y \in X : <<x, y>> \in same => x = y
  OBVIOUS
<1>b. \A x \in ToSet(s) : <<x, x>> \in same
  OBVIOUS
<1> HIDE DEF same
<1>1. /\ r \in Seq(X) /\ ToSet(r) \subseteq ToSet(s)
      /\ \A x \in ToSet(s) : x \in ToSet(r) \/ \E y \in ToSet(r) : <<y, x>> \in same
      /\ \A i, j \in 1..Len(r) : i < j => <<r[i], r[j]>> \notin same
  BY FirstsFacts
<1> HIDE DEF r
<1>2. ToSet(s) \subseteq X /\ ToSet(r) = {r[i] : i \in 1..Len(r)}
  BY <1>1, ToSetFacts
<1>3. ToSet(r) = ToSet(s)
  <2> SUFFICES ASSUME NEW x \in ToSet(s), x \notin ToSet(r) PROVE FALSE
    BY <1>1
  <2>1. PICK y \in ToSet(r) : <<y, x>> \in same
    BY <1>1
  <2>2. y = x
    BY <1>a, <1>1, <1>2, <2>1
  <2> QED
    BY <2>1, <2>2
<1>4. \A i, j \in 1..Len(r) : r[i] = r[j] => i = j
  <2> SUFFICES ASSUME NEW i \in 1..Len(r), NEW j \in 1..Len(r), r[i] = r[j], i < j
               PROVE  FALSE
    OBVIOUS
  <2>1. <<r[i], r[j]>> \in same
    BY <1>b, <1>2, <1>3
  <2> QED
    BY <1>1, <2>1
<1> QED
  BY <1>0, <1>1, <1>3, <1>4, CountedOnce
-----------------------------------------------------------------------------
(* The union-find.                                                          *)

\* R leads every id to its root, and h falls on the way there.
Rooted(p, R, h) ==
  /\ p \in [Ids -> Ids] /\ R \in [Ids -> Ids] /\ h \in [Ids -> Nat]
  /\ \A x \in Ids : p[R[x]] = R[x]
  /\ \A x \in Ids : IF p[x] = x THEN R[x] = x ELSE R[x] = R[p[x]] /\ h[p[x]] < h[x]

\* No chain of parents runs in a circle.
Forests == {p \in [Ids -> Ids] : \E R, h : Rooted(p, R, h)}

\* Find finds the root.
LEMMA FindIsRoot ==
  ASSUME NEW p, NEW R, NEW h, Rooted(p, R, h), NEW x \in Ids
  PROVE  Find(p, x) = R[x]
<1> DEFINE G(up) == [y \in DOMAIN p |-> IF p[y] = y THEN y ELSE up[p[y]]]
           up == CHOOSE f : f = G(f)
<1>1. /\ p \in [Ids -> Ids] /\ R \in [Ids -> Ids] /\ h \in [Ids -> Nat]
      /\ \A y \in Ids : IF p[y] = y THEN R[y] = y ELSE R[y] = R[p[y]] /\ h[p[y]] < h[y]
  BY DEF Rooted
<1>2. R = G(R)
  BY <1>1
<1>3. up = G(up)
  <2> HIDE DEF G
  <2> QED
    BY <1>2
<1>4. Find(p, x) = up[x]
  BY DEF Find
<1> HIDE DEF up
<1>5. \A y \in Ids : up[y] = IF p[y] = y THEN y ELSE up[p[y]]
  BY <1>1, <1>3
<1> DEFINE Wrong == {y \in Ids : up[y] # R[y]}
           Heights == {h[y] : y \in Wrong}
<1>6. Wrong = {}
  <2> SUFFICES ASSUME Wrong # {} PROVE FALSE
    OBVIOUS
  <2>1. Heights \in SUBSET Nat /\ Heights # {}
    BY <1>1
  <2>2. PICK n \in Heights : \A m \in Heights : n <= m
    <3> HIDE DEF Heights
    <3> QED
      BY <2>1, LeastNumber
  <2>3. PICK y \in Wrong : n = h[y]
    BY <2>2
  <2>4. y \in Ids /\ up[y] # R[y] /\ p[y] # y /\ p[y] \in Ids
    BY <1>1, <1>5, <2>3
  <2>5. p[y] \in Wrong
    BY <1>1, <1>5, <2>4
  <2>6. h[p[y]] \in Heights /\ h[p[y]] < h[y]
    BY <1>1, <2>4, <2>5
  <2>7. h[y] <= h[p[y]] /\ h[y] \in Nat /\ h[p[y]] \in Nat
    BY <1>1, <2>2, <2>3, <2>4, <2>6
  <2> QED
    BY <2>6, <2>7
<1> QED
  BY <1>4, <1>6

\* A union joins two trees, and touches no other.
LEMMA UnionRoots ==
  ASSUME NEW p \in Forests, NEW a \in Ids, NEW b \in Ids
  PROVE  /\ Union(p, a, b) \in Forests
         /\ \A x \in Ids : /\ Find(p, x) \in Ids
                           /\ Find(Union(p, a, b), x) =
                                IF Find(p, x) = Find(p, b) THEN Find(p, a) ELSE Find(p, x)
<1>1. PICK R, h : Rooted(p, R, h)
  BY DEF Forests
<1>2. /\ p \in [Ids -> Ids] /\ R \in [Ids -> Ids] /\ h \in [Ids -> Nat]
      /\ \A x \in Ids : p[R[x]] = R[x]
      /\ \A x \in Ids : IF p[x] = x THEN R[x] = x ELSE R[x] = R[p[x]] /\ h[p[x]] < h[x]
  BY <1>1 DEF Rooted
<1>3. \A x \in Ids : Find(p, x) = R[x] /\ R[x] \in Ids
  BY <1>1, <1>2, FindIsRoot
<1> DEFINE q == Union(p, a, b)
           S == [x \in Ids |-> IF R[x] = R[b] THEN R[a] ELSE R[x]]
           g == [x \in Ids |-> IF R[x] = R[b] /\ R[a] # R[b] THEN h[x] + h[R[a]] + 1 ELSE h[x]]
<1>4. q = [p EXCEPT ![R[b]] = R[a]] /\ q \in [Ids -> Ids]
  BY <1>2, <1>3 DEF Union
<1>5. S \in [Ids -> Ids] /\ g \in [Ids -> Nat]
  BY <1>2
<1>6. R[R[a]] = R[a] /\ R[R[b]] = R[b] /\ R[a] \in Ids /\ R[b] \in Ids
  BY <1>2
<1>7. ASSUME NEW x \in Ids
      PROVE  q[S[x]] = S[x] /\ IF q[x] = x THEN S[x] = x ELSE S[x] = S[q[x]] /\ g[q[x]] < g[x]
  <2>1. /\ S[x] = IF R[x] = R[b] THEN R[a] ELSE R[x]
        /\ g[x] = IF R[x] = R[b] /\ R[a] # R[b] THEN h[x] + h[R[a]] + 1 ELSE h[x]
        /\ q[x] = IF x = R[b] THEN R[a] ELSE p[x]
    BY <1>2, <1>4
  <2>2. /\ S[q[x]] = IF R[q[x]] = R[b] THEN R[a] ELSE R[q[x]]
        /\ g[q[x]] = IF R[q[x]] = R[b] /\ R[a] # R[b] THEN h[q[x]] + h[R[a]] + 1 ELSE h[q[x]]
        /\ q[x] \in Ids
    BY <1>2, <1>4
  <2>3. q[S[x]] = S[x]
    BY <1>2, <1>4, <1>6, <2>1
  <2>4. CASE x = R[b]
    <3>1. q[x] = R[a] /\ S[x] = R[a]
      BY <1>6, <2>1, <2>4
    <3>2. CASE R[a] = R[b]
      BY <2>4, <3>1, <3>2
    <3>3. CASE R[a] # R[b]
      <4>1. S[q[x]] = R[a] /\ g[q[x]] = h[R[a]]
        BY <1>6, <2>2, <3>1, <3>3
      <4>2. g[x] = h[x] + h[R[a]] + 1
        BY <1>6, <2>1, <2>4, <3>3
      <4>3. h[x] \in Nat /\ h[R[a]] \in Nat
        BY <1>2, <1>6
      <4> QED
        BY <2>3, <2>4, <3>1, <3>3, <4>1, <4>2, <4>3
    <3> QED
      BY <3>2, <3>3
  <2>5. CASE x # R[b]
    <3>1. q[x] = p[x]
      BY <2>1, <2>5
    <3>2. CASE p[x] = x
      <4>1. R[x] = x
        BY <1>2, <3>2
      <4> QED
        BY <2>1, <2>3, <2>5, <3>1, <3>2, <4>1
    <3>3. CASE p[x] # x
      <4>1. R[x] = R[p[x]] /\ h[p[x]] < h[x]
        BY <1>2, <3>3
      <4>2. h[x] \in Nat /\ h[p[x]] \in Nat /\ h[R[a]] \in Nat
        BY <1>2, <1>6
      <4> QED
        BY <2>1, <2>2, <2>3, <3>1, <3>3, <4>1, <4>2
    <3> QED
      BY <3>2, <3>3
  <2> QED
    BY <2>4, <2>5
<1> HIDE DEF q, g
<1>8. Rooted(q, S, g)
  <2> HIDE DEF S
  <2> QED
    BY <1>4, <1>5, <1>7 DEF Rooted
<1>9. \A x \in Ids : Find(q, x) = S[x]
  <2> HIDE DEF S
  <2> QED
    BY <1>8, FindIsRoot
<1>10. q \in Forests
  <2> HIDE DEF S
  <2> QED
    BY <1>4, <1>8 DEF Forests
<1>11. \A x \in Ids : Find(q, x) = IF Find(p, x) = Find(p, b) THEN Find(p, a) ELSE Find(p, x)
  BY <1>3, <1>9
<1> QED
  BY <1>3, <1>10, <1>11 DEF q

\* What is together by p is so by q; A splits nothing that is together by p; A splits
\* no two of these ids; these ids are together by p.
Coarser(p, q) == \A x, y \in Ids : Find(p, x) = Find(p, y) => Find(q, x) = Find(q, y)
Respects(p, A) == \A x, y \in Ids : Find(p, x) = Find(p, y) => (x \in A <=> y \in A)
Whole(ids, A) == ToSet(ids) \subseteq A \/ ToSet(ids) \cap A = {}
Joined(p, ids) == \A x, y \in ToSet(ids) : Find(p, x) = Find(p, y)

\* A union brings two ids together and separates none; what splits neither those two
\* nor anything before splits nothing after.
LEMMA UnionEffect ==
  ASSUME NEW p \in Forests, NEW a \in Ids, NEW b \in Ids
  PROVE  /\ Union(p, a, b) \in Forests /\ Coarser(p, Union(p, a, b))
         /\ Find(Union(p, a, b), a) = Find(Union(p, a, b), b)
         /\ \A A : Respects(p, A) /\ (a \in A <=> b \in A) => Respects(Union(p, a, b), A)
<1> DEFINE q == Union(p, a, b)
<1>1. /\ q \in Forests
      /\ \A x \in Ids : Find(q, x) = IF Find(p, x) = Find(p, b) THEN Find(p, a) ELSE Find(p, x)
  BY UnionRoots
<1> HIDE DEF q
<1>2. Coarser(p, q) /\ Find(q, a) = Find(q, b)
  BY <1>1 DEF Coarser
<1>3. ASSUME NEW A, Respects(p, A), a \in A <=> b \in A,
             NEW x \in Ids, NEW y \in Ids, Find(q, x) = Find(q, y)
      PROVE  x \in A <=> y \in A
  BY <1>1, <1>3 DEF Respects
<1>4. \A A : Respects(p, A) /\ (a \in A <=> b \in A) => Respects(q, A)
  BY <1>3 DEF Respects
<1> QED
  BY <1>1, <1>2, <1>4 DEF q

\* UnionAll is computed id by id.
UnionAllRun(F, p, ids) ==
  /\ F \in [0..Len(ids) -> Forests] /\ F[0] = p /\ UnionAll(p, ids) = F[Len(ids)]
  /\ \A k \in 1..Len(ids) : F[k] = Union(F[k-1], ids[1], ids[k])
LEMMA UnionAllSteps == ASSUME NEW p \in Forests, NEW ids \in Seq(Ids) PROVE \E F : UnionAllRun(F, p, ids)
<1> DEFINE step == [w \in Forests \X (1..Len(ids)) |-> Union(w[1], ids[1], ids[w[2]])]
           G(it) == [t \in SUBSET DOMAIN ids |->
                       IF t = {} THEN p
                       ELSE Union(it[t \ {Max(t)}], ids[1], ids[Max(t)])]
           iter == CHOOSE it : it = G(it)
<1>1. Len(ids) \in Nat /\ DOMAIN ids = 1..Len(ids) /\ p \in Forests
  OBVIOUS
<1>2. step \in [Forests \X (1..Len(ids)) -> Forests]
  <2>1. \A i \in 1..Len(ids) : ids[1] \in Ids /\ ids[i] \in Ids
    OBVIOUS
  <2>2. \A q \in Forests, i \in 1..Len(ids) : Union(q, ids[1], ids[i]) \in Forests
    BY <2>1, UnionEffect
  <2> QED
    BY <2>2
<1>3. \A x \in Forests, i \in 1..Len(ids) : step[x, i] = Union(x, ids[1], ids[i])
  OBVIOUS
<1> HIDE DEF step
<1>4. \A t \in SUBSET (1..Len(ids)) : t # {} => Max(t) \in 1..Len(ids) /\ t \ {Max(t)} \in SUBSET (1..Len(ids))
  <2> SUFFICES ASSUME NEW t \in SUBSET (1..Len(ids)), t # {}
               PROVE  Max(t) \in 1..Len(ids) /\ t \ {Max(t)} \in SUBSET (1..Len(ids))
    OBVIOUS
  <2>1. Max(t) \in t
    BY <1>1, MaxOfSet
  <2> QED
    BY <2>1
<1>5. iter = G(iter)
  <2>1. PICK it : SolvesFold(it, Len(ids), Forests, p, step)
    BY <1>1, <1>2, FoldExists
  <2>2. \A t \in SUBSET (1..Len(ids)) : it[t] = IF t = {} THEN p ELSE Union(it[t \ {Max(t)}], ids[1], ids[Max(t)])
    BY <1>3, <1>4, <2>1 DEF SolvesFold
  <2>3. it = G(it)
    BY <1>1, <2>1, <2>2 DEF SolvesFold
  <2> HIDE DEF G
  <2> QED
    BY <2>3
<1>6. UnionAll(p, ids) = iter[DOMAIN ids]
  BY DEF UnionAll, FoldLeft, MapThenFoldSet
<1> HIDE DEF iter
<1>7. iter[{}] = p
  BY <1>5
<1>8. FollowsFold(iter, Len(ids), Forests, p, step)
  <2>1. \A t \in SUBSET (1..Len(ids)) :
          t # {} /\ iter[t \ {Max(t)}] \in Forests => iter[t] = step[iter[t \ {Max(t)}], Max(t)]
    BY <1>1, <1>3, <1>4, <1>5
  <2> QED
    BY <1>7, <2>1 DEF FollowsFold
<1>9. PICK F : Stepwise(F, Len(ids), Forests, p, step) /\ F[Len(ids)] = iter[1..Len(ids)]
  <2>1. Unrolls(iter, Len(ids), Forests, p, step)
    BY <1>1, <1>2, <1>8, Unrolled
  <2> QED
    BY <2>1 DEF Unrolls
<1>10. F \in [0..Len(ids) -> Forests] /\ F[0] = p /\ UnionAll(p, ids) = F[Len(ids)]
  BY <1>1, <1>6, <1>9 DEF Stepwise
<1>11. ASSUME NEW k \in 1..Len(ids) PROVE F[k] = Union(F[k-1], ids[1], ids[k])
  <2>1. F[k-1] \in Forests
    BY <1>1, <1>10
  <2> QED
    BY <1>3, <1>9, <2>1 DEF Stepwise
<1>12. UnionAllRun(F, p, ids)
  BY <1>10, <1>11 DEF UnionAllRun
<1> HIDE DEF G
<1> QED
  BY <1>12

\* It brings the ids together, and nothing that could be split before is joined.
LEMMA UnionAllFacts ==
  ASSUME NEW p \in Forests, NEW ids \in Seq(Ids)
  PROVE  /\ UnionAll(p, ids) \in Forests /\ Coarser(p, UnionAll(p, ids))
         /\ Joined(UnionAll(p, ids), ids)
         /\ \A A : Respects(p, A) /\ Whole(ids, A) => Respects(UnionAll(p, ids), A)
<1>0. PICK F : UnionAllRun(F, p, ids)
  BY UnionAllSteps
<1>1. /\ F \in [0..Len(ids) -> Forests] /\ F[0] = p /\ UnionAll(p, ids) = F[Len(ids)]
      /\ \A k \in 1..Len(ids) : F[k] = Union(F[k-1], ids[1], ids[k])
  BY <1>0 DEF UnionAllRun
<1> DEFINE Fine(k) == /\ Coarser(p, F[k])
                      /\ \A i \in 1..k : Find(F[k], ids[i]) = Find(F[k], ids[1])
                      /\ \A A : Respects(p, A) /\ Whole(ids, A) => Respects(F[k], A)
           T == {k \in 0..Len(ids) : Fine(k)}
<1>2. 0 \in T
  BY <1>1 DEF Coarser
<1>3. ASSUME NEW k \in Nat, k < Len(ids), Fine(k) PROVE Fine(k + 1)
  <2>1. /\ k + 1 \in 1..Len(ids) /\ (k + 1) - 1 = k /\ k \in 0..Len(ids)
        /\ 1 \in 1..Len(ids)
    BY <1>3
  <2>2. F[k] \in Forests /\ F[k + 1] = Union(F[k], ids[1], ids[k + 1])
    BY <1>1, <2>1
  <2>3. \A i \in 1..Len(ids) : ids[i] \in Ids /\ ids[i] \in ToSet(ids)
    BY ToSetFacts
  <2>4. /\ Coarser(F[k], F[k + 1])
        /\ Find(F[k + 1], ids[1]) = Find(F[k + 1], ids[k + 1])
        /\ \A A : Respects(F[k], A) /\ (ids[1] \in A <=> ids[k + 1] \in A) => Respects(F[k + 1], A)
    BY <2>1, <2>2, <2>3, UnionEffect
  <2>5. Coarser(p, F[k + 1])
    BY <1>3, <2>4 DEF Coarser
  <2>6. ASSUME NEW i \in 1..(k + 1) PROVE Find(F[k + 1], ids[i]) = Find(F[k + 1], ids[1])
    <3>1. CASE i = k + 1
      BY <2>4, <3>1
    <3>2. CASE i \in 1..k
      <4>1. Find(F[k], ids[i]) = Find(F[k], ids[1])
        BY <1>3, <3>2
      <4>2. ids[i] \in Ids /\ ids[1] \in Ids
        BY <2>1, <2>3, <3>2
      <4> QED
        BY <2>4, <4>1, <4>2 DEF Coarser
    <3> QED
      BY <3>1, <3>2
  <2>7. ASSUME NEW A, Respects(p, A), Whole(ids, A) PROVE Respects(F[k + 1], A)
    <3>1. ids[1] \in A <=> ids[k + 1] \in A
      BY <2>1, <2>3, <2>7 DEF Whole
    <3>2. Respects(F[k], A)
      BY <1>3, <2>7
    <3> QED
      BY <2>4, <3>1, <3>2
  <2> QED
    BY <2>5, <2>6, <2>7
<1>4. Fine(Len(ids))
  <2>1. \A k \in Nat : k < Len(ids) /\ k \in T => k + 1 \in T
    <3> HIDE DEF Fine
    <3> QED
      BY <1>3
  <2> HIDE DEF Fine
  <2>2. Len(ids) \in Nat
    OBVIOUS
  <2>3. 0..Len(ids) \subseteq T
    <3> HIDE DEF T
    <3> QED
      BY <1>2, <2>1, <2>2, UpTo
  <2> QED
    BY <2>2, <2>3
<1>5. Joined(F[Len(ids)], ids)
  <2>1. ToSet(ids) = {ids[i] : i \in 1..Len(ids)}
    BY ToSetFacts
  <2> QED
    BY <1>4, <2>1 DEF Joined
<1>6. F[Len(ids)] \in Forests
  BY <1>1
<1> QED
  BY <1>1, <1>4, <1>5, <1>6

\* Every id alone is a forest, and nothing splits it.
LEMMA NothingJoined ==
  /\ [x \in Ids |-> x] \in Forests
  /\ \A A : Respects([x \in Ids |-> x], A)
<1> DEFINE p == [x \in Ids |-> x]
           h == [x \in Ids |-> 0]
<1>1. Rooted(p, p, h)
  BY DEF Rooted
<1>2. p \in Forests
  <2>1. p \in [Ids -> Ids]
    OBVIOUS
  <2> HIDE DEF p, h
  <2> QED
    BY <1>1, <2>1 DEF Forests
<1>3. \A x \in Ids : Find(p, x) = p[x] /\ p[x] = x
  <2>1. \A x \in Ids : p[x] = x
    OBVIOUS
  <2> HIDE DEF p, h
  <2> QED
    BY <1>1, <2>1, FindIsRoot
<1>4. \A A : Respects(p, A)
  <2> HIDE DEF p
  <2> QED
    BY <1>3 DEF Respects
<1> QED
  BY <1>2, <1>4

\* UnionFind is computed message by message.
UnionFindRun(F, cs) ==
  /\ F \in [0..Len(cs) -> Forests] /\ F[0] = [x \in Ids |-> x] /\ UnionFind(cs) = F[Len(cs)]
  /\ \A k \in 1..Len(cs) : F[k] = UnionAll(F[k-1], MsgIds(At(cs[k])))
LEMMA UnionFindSteps == ASSUME NEW X, NEW cs \in Seq(X), \A i \in 1..Len(cs) : MsgIds(At(cs[i])) \in Seq(Ids) PROVE \E F : UnionFindRun(F, cs)
<1> DEFINE step == [p \in Forests \X (1..Len(cs)) |-> UnionAll(p[1], MsgIds(At(cs[p[2]])))]
           G(it) == [t \in SUBSET DOMAIN cs |->
                       IF t = {} THEN [x \in Ids |-> x]
                       ELSE UnionAll(it[t \ {Max(t)}], MsgIds(At(cs[Max(t)])))]
           iter == CHOOSE it : it = G(it)
<1>1. Len(cs) \in Nat /\ DOMAIN cs = 1..Len(cs) /\ [x \in Ids |-> x] \in Forests
  BY NothingJoined
<1>2. step \in [Forests \X (1..Len(cs)) -> Forests]
  <2>1. \A q \in Forests, i \in 1..Len(cs) : UnionAll(q, MsgIds(At(cs[i]))) \in Forests
    BY UnionAllFacts
  <2> QED
    BY <2>1
<1>3. \A x \in Forests, i \in 1..Len(cs) : step[x, i] = UnionAll(x, MsgIds(At(cs[i])))
  OBVIOUS
<1> HIDE DEF step
<1>4. \A t \in SUBSET (1..Len(cs)) : t # {} => Max(t) \in 1..Len(cs) /\ t \ {Max(t)} \in SUBSET (1..Len(cs))
  <2> SUFFICES ASSUME NEW t \in SUBSET (1..Len(cs)), t # {}
               PROVE  Max(t) \in 1..Len(cs) /\ t \ {Max(t)} \in SUBSET (1..Len(cs))
    OBVIOUS
  <2>1. Max(t) \in t
    BY <1>1, MaxOfSet
  <2> QED
    BY <2>1
<1>5. iter = G(iter)
  <2>1. PICK it : SolvesFold(it, Len(cs), Forests, [x \in Ids |-> x], step)
    BY <1>1, <1>2, FoldExists
  <2>2. \A t \in SUBSET (1..Len(cs)) : it[t] = IF t = {} THEN [x \in Ids |-> x] ELSE UnionAll(it[t \ {Max(t)}], MsgIds(At(cs[Max(t)])))
    BY <1>3, <1>4, <2>1 DEF SolvesFold
  <2>3. it = G(it)
    BY <1>1, <2>1, <2>2 DEF SolvesFold
  <2> HIDE DEF G
  <2> QED
    BY <2>3
<1>6. UnionFind(cs) = iter[DOMAIN cs]
  BY DEF UnionFind, FoldLeft, MapThenFoldSet
<1> HIDE DEF iter
<1>7. iter[{}] = [x \in Ids |-> x]
  BY <1>5
<1>8. FollowsFold(iter, Len(cs), Forests, [x \in Ids |-> x], step)
  <2>1. \A t \in SUBSET (1..Len(cs)) :
          t # {} /\ iter[t \ {Max(t)}] \in Forests => iter[t] = step[iter[t \ {Max(t)}], Max(t)]
    BY <1>1, <1>3, <1>4, <1>5
  <2> QED
    BY <1>7, <2>1 DEF FollowsFold
<1>9. PICK F : Stepwise(F, Len(cs), Forests, [x \in Ids |-> x], step) /\ F[Len(cs)] = iter[1..Len(cs)]
  <2>1. Unrolls(iter, Len(cs), Forests, [x \in Ids |-> x], step)
    BY <1>1, <1>2, <1>8, Unrolled
  <2> QED
    BY <2>1 DEF Unrolls
<1>10. F \in [0..Len(cs) -> Forests] /\ F[0] = [x \in Ids |-> x] /\ UnionFind(cs) = F[Len(cs)]
  BY <1>1, <1>6, <1>9 DEF Stepwise
<1>11. ASSUME NEW k \in 1..Len(cs) PROVE F[k] = UnionAll(F[k-1], MsgIds(At(cs[k])))
  <2>1. F[k-1] \in Forests
    BY <1>1, <1>10
  <2> QED
    BY <1>3, <1>9, <2>1 DEF Stepwise
<1>12. UnionFindRun(F, cs)
  BY <1>10, <1>11 DEF UnionFindRun
<1> HIDE DEF G
<1> QED
  BY <1>12

\* The ids of each message are together in the end; and what splits no message splits
\* nothing that is together: the union-find joins neither too little nor too much.
LEMMA UnionFindFacts ==
  ASSUME NEW X, NEW cs \in Seq(X), \A i \in 1..Len(cs) : MsgIds(At(cs[i])) \in Seq(Ids)
  PROVE  /\ UnionFind(cs) \in Forests
         /\ \A i \in 1..Len(cs) : Joined(UnionFind(cs), MsgIds(At(cs[i])))
         /\ \A A : (\A i \in 1..Len(cs) : Whole(MsgIds(At(cs[i])), A)) => Respects(UnionFind(cs), A)
<1>0. PICK F : UnionFindRun(F, cs)
  BY UnionFindSteps
<1>1. /\ F \in [0..Len(cs) -> Forests] /\ F[0] = [x \in Ids |-> x] /\ UnionFind(cs) = F[Len(cs)]
      /\ \A k \in 1..Len(cs) : F[k] = UnionAll(F[k-1], MsgIds(At(cs[k])))
  BY <1>0 DEF UnionFindRun
<1> DEFINE ids(i) == MsgIds(At(cs[i]))
<1>a. \A i \in 1..Len(cs) : ids(i) \in Seq(Ids)
  OBVIOUS
<1> HIDE DEF ids
<1> DEFINE Fine(k) ==
      /\ \A i \in 1..k : Joined(F[k], ids(i))
      /\ \A A : (\A i \in 1..Len(cs) : Whole(ids(i), A)) => Respects(F[k], A)
    T == {k \in 0..Len(cs) : Fine(k)}
<1>2. 0 \in T
  <2>1. \A A : Respects(F[0], A)
    BY <1>1, NothingJoined
  <2> QED
    BY <2>1
<1>3. ASSUME NEW k \in Nat, k < Len(cs), Fine(k) PROVE Fine(k + 1)
  <2>1. k + 1 \in 1..Len(cs) /\ (k + 1) - 1 = k /\ k \in 0..Len(cs)
    BY <1>3
  <2>2. F[k] \in Forests /\ F[k + 1] = UnionAll(F[k], ids(k + 1)) /\ ids(k + 1) \in Seq(Ids)
    BY <1>1, <1>a, <2>1 DEF ids
  <2>3. /\ Coarser(F[k], F[k + 1]) /\ Joined(F[k + 1], ids(k + 1))
        /\ \A A : Respects(F[k], A) /\ Whole(ids(k + 1), A) => Respects(F[k + 1], A)
    BY <2>2, UnionAllFacts
  <2>4. ASSUME NEW i \in 1..(k + 1) PROVE Joined(F[k + 1], ids(i))
    <3>1. CASE i = k + 1
      BY <2>3, <3>1
    <3>2. CASE i \in 1..k
      <4>1. Joined(F[k], ids(i)) /\ ids(i) \in Seq(Ids)
        BY <1>3, <1>a, <2>1, <3>2
      <4>2. ToSet(ids(i)) \subseteq Ids
        BY <4>1, ToSetFacts
      <4> QED
        BY <2>3, <4>1, <4>2 DEF Coarser, Joined
    <3> QED
      BY <3>1, <3>2
  <2>5. ASSUME NEW A, \A i \in 1..Len(cs) : Whole(ids(i), A) PROVE Respects(F[k + 1], A)
    <3>1. Respects(F[k], A) /\ Whole(ids(k + 1), A)
      BY <1>3, <2>1, <2>5
    <3> QED
      BY <2>3, <3>1
  <2> QED
    BY <2>4, <2>5
<1>4. Fine(Len(cs))
  <2>1. \A k \in Nat : k < Len(cs) /\ k \in T => k + 1 \in T
    <3> HIDE DEF Fine
    <3> QED
      BY <1>3
  <2> HIDE DEF Fine
  <2>2. Len(cs) \in Nat
    OBVIOUS
  <2>3. 0..Len(cs) \subseteq T
    <3> HIDE DEF T
    <3> QED
      BY <1>2, <2>1, <2>2, UpTo
  <2> QED
    BY <2>2, <2>3
<1>5. F[Len(cs)] \in Forests
  BY <1>1
<1> QED
  BY <1>1, <1>4, <1>5 DEF ids
-----------------------------------------------------------------------------
(* Whom a reply reaches, and who sends it.                                  *)

\* What the lemmas about one message need to know of it.
IsMail(m) ==
  /\ m.from \in Addresses
  /\ {m.reply_to, m.to, m.cc} \subseteq Seq(Addresses)
  /\ {m.own, m.refs, m.irt} \subseteq Seq(Ids)
  /\ Len(m.own) <= 1

\* Added takes from the list who is neither oneself nor seen, each once.
LEMMA AddedFacts ==
  ASSUME NEW pairs \in Seq(Addresses), NEW seen
  PROVE  /\ Added(pairs, seen) \in Seq(Addresses)
         /\ ToSet(Added(pairs, seen)) = ToSet(pairs) \ (Own \cup seen)
         /\ IsFiniteSet(ToSet(Added(pairs, seen)))
         /\ Cardinality(ToSet(Added(pairs, seen))) = Len(Added(pairs, seen))
<1> DEFINE others == Addresses \ (Own \cup seen)
           k == Kept(pairs, others)
<1>1. k \in Seq(Addresses) /\ ToSet(k) = ToSet(pairs) \cap others /\ ToSet(pairs) \subseteq Addresses
  BY KeptFacts, ToSetFacts
<1>2. Added(pairs, seen) = Distinct(k)
  BY DEF Added
<1>3. ToSet(k) = ToSet(pairs) \ (Own \cup seen)
  BY <1>1
<1> HIDE DEF k
<1> QED
  BY <1>1, <1>2, <1>3, DistinctFacts

\* The first recipients: they include all of the answered, or of those it was to.
LEMMA AnsweredFacts ==
  ASSUME NEW m, IsMail(m)
  PROVE  /\ Primary(m) \in Seq(Addresses) /\ Answered(m) \in Seq(Addresses)
         /\ IsFiniteSet(ToSet(Answered(m)))
         /\ Cardinality(ToSet(Answered(m))) = Len(Answered(m))
         /\ \/ ToSet(Answered(m)) = ToSet(Primary(m)) \ Own
            \/ ToSet(Answered(m)) = ToSet(m.to) \ Own /\ ToSet(Primary(m)) \subseteq Own
<1>1. /\ m.from \in Addresses /\ m.reply_to \in Seq(Addresses) /\ m.to \in Seq(Addresses)
      /\ m.cc \in Seq(Addresses)
  BY DEF IsMail
<1>2. Primary(m) \in Seq(Addresses)
  <2>1. <<m.from>> \in Seq(Addresses)
    BY <1>1
  <2> QED
    BY <1>1, <2>1 DEF Primary
<1> DEFINE first == Added(Primary(m), {})
           second == Added(m.to, {})
<1>3. /\ first \in Seq(Addresses) /\ ToSet(first) = ToSet(Primary(m)) \ Own
      /\ IsFiniteSet(ToSet(first)) /\ Cardinality(ToSet(first)) = Len(first)
  BY <1>2, AddedFacts
<1>4. /\ second \in Seq(Addresses) /\ ToSet(second) = ToSet(m.to) \ Own
      /\ IsFiniteSet(ToSet(second)) /\ Cardinality(ToSet(second)) = Len(second)
  BY <1>1, AddedFacts
<1>5. Answered(m) = IF first # <<>> THEN first ELSE second
  BY DEF Answered
<1> HIDE DEF first, second
<1>6. first = <<>> => ToSet(Primary(m)) \subseteq Own
  BY <1>3, ToSetFacts
<1> QED
  BY <1>2, <1>3, <1>4, <1>5, <1>6

Everyone(m) == ToSet(Primary(m)) \cup ToSet(m.to) \cup ToSet(m.cc)
People(r) == ToSet(r.to) \cup ToSet(r.cc)

\* A reply goes to people of the original, each once and never to oneself, and a
\* reply to all leaves nobody out.
LEMMA RecipientsFacts ==
  ASSUME NEW m, IsMail(m), NEW all \in BOOLEAN
  PROVE  LET r == Recipients(m, all)
         IN /\ r.to \in Seq(Addresses) /\ r.cc \in Seq(Addresses)
            /\ People(r) \cap Own = {} /\ People(r) \subseteq Everyone(m)
            /\ Len(r.to) + Len(r.cc) = Cardinality(People(r))
            /\ all => People(r) = Everyone(m) \ Own
<1>1. m.to \in Seq(Addresses) /\ m.cc \in Seq(Addresses)
  BY DEF IsMail
<1> DEFINE to == Answered(m)
           cc == IF all THEN Added(m.to \o m.cc, ToSet(to)) ELSE <<>>
           r == Recipients(m, all)
<1>2. /\ to \in Seq(Addresses) /\ IsFiniteSet(ToSet(to)) /\ Cardinality(ToSet(to)) = Len(to)
      /\ \/ ToSet(to) = ToSet(Primary(m)) \ Own
         \/ ToSet(to) = ToSet(m.to) \ Own /\ ToSet(Primary(m)) \subseteq Own
  BY AnsweredFacts
<1>3. /\ cc \in Seq(Addresses) /\ IsFiniteSet(ToSet(cc)) /\ Cardinality(ToSet(cc)) = Len(cc)
      /\ ToSet(cc) \subseteq (ToSet(m.to) \cup ToSet(m.cc)) \ (Own \cup ToSet(to))
      /\ all => ToSet(cc) = (ToSet(m.to) \cup ToSet(m.cc)) \ (Own \cup ToSet(to))
  <2>1. CASE all
    <3>1. m.to \o m.cc \in Seq(Addresses) /\ ToSet(m.to \o m.cc) = ToSet(m.to) \cup ToSet(m.cc)
      BY <1>1, ToSetFacts
    <3>2. cc = Added(m.to \o m.cc, ToSet(to))
      BY <2>1
    <3>3. /\ cc \in Seq(Addresses) /\ IsFiniteSet(ToSet(cc)) /\ Cardinality(ToSet(cc)) = Len(cc)
          /\ ToSet(cc) = ToSet(m.to \o m.cc) \ (Own \cup ToSet(to))
      BY <3>1, <3>2, AddedFacts
    <3> HIDE DEF cc, to
    <3> QED
      BY <2>1, <3>1, <3>3
  <2>2. CASE ~all
    <3>1. cc = <<>> /\ <<>> \in Seq(Addresses) /\ Len(<<>>) = 0
      BY <2>2
    <3> HIDE DEF cc
    <3> QED
      BY <2>2, <3>1, ToSetFacts, FS_EmptySet
  <2> QED
    BY <2>1, <2>2
<1>4. r = IF to = <<>> /\ cc # <<>> THEN [to |-> <<cc[1]>>, cc |-> Tail(cc)]
                                    ELSE [to |-> to, cc |-> cc]
  BY DEF Recipients
<1>5. /\ Len(to) + Len(cc) = Cardinality(ToSet(to) \cup ToSet(cc))
      /\ ToSet(to) \cap ToSet(cc) = {}
  <2>1. ToSet(to) \cap ToSet(cc) = {}
    BY <1>3
  <2> HIDE DEF to, cc
  <2>2. Len(to) \in Nat /\ Len(cc) \in Nat
    BY <1>2, <1>3
  <2>3. Cardinality(ToSet(to) \cap ToSet(cc)) = 0
    BY <2>1, FS_EmptySet
  <2>4. IsFiniteSet(ToSet(to)) /\ IsFiniteSet(ToSet(cc))
    BY <1>2, <1>3
  <2>5. Cardinality(ToSet(to) \cup ToSet(cc)) =
          Cardinality(ToSet(to)) + Cardinality(ToSet(cc)) - Cardinality(ToSet(to) \cap ToSet(cc))
    BY <2>4, FS_Union
  <2> QED
    BY <1>2, <1>3, <2>1, <2>2, <2>3, <2>5
<1> DEFINE both == ToSet(to) \cup ToSet(cc)
<1>6. both \cap Own = {} /\ both \subseteq Everyone(m) /\ (all => both = Everyone(m) \ Own)
  BY <1>2, <1>3 DEF Everyone
<1> HIDE DEF to, cc, r
<1>7. CASE to = <<>> /\ cc # <<>>
  <2>1. r = [to |-> <<cc[1]>>, cc |-> Tail(cc)]
    BY <1>4, <1>7
  <2>2. /\ cc[1] \in Addresses /\ Tail(cc) \in Seq(Addresses) /\ Len(Tail(cc)) = Len(cc) - 1
        /\ Len(cc) \in Nat \ {0} /\ \A i \in 1..Len(Tail(cc)) : Tail(cc)[i] = cc[i + 1]
    BY <1>3, <1>7, HeadTailProperties, EmptySeq
  <2>3. ToSet(<<cc[1]>>) \cup ToSet(Tail(cc)) = ToSet(cc)
    <3>1. ToSet(cc) = {cc[i] : i \in 1..Len(cc)} /\ ToSet(Tail(cc)) = {Tail(cc)[i] : i \in 1..(Len(cc) - 1)}
      <4>1. ToSet(Tail(cc)) = {Tail(cc)[i] : i \in 1..Len(Tail(cc))}
        BY <2>2, ToSetFacts
      <4>2. ToSet(cc) = {cc[i] : i \in 1..Len(cc)}
        BY <1>3, ToSetFacts
      <4> QED
        BY <2>2, <4>1, <4>2
    <3>2. <<cc[1]>> = Append(<<>>, cc[1])
      BY <2>2
    <3>3. ToSet(<<cc[1]>>) = {cc[1]}
      BY <2>2 DEF ToSet
    <3>4. \A i \in 1..(Len(cc) - 1) : i + 1 \in 1..Len(cc) /\ Tail(cc)[i] = cc[i + 1]
      BY <2>2
    <3>5. \A i \in 1..Len(cc) : i = 1 \/ (i - 1 \in 1..(Len(cc) - 1) /\ Tail(cc)[i - 1] = cc[i])
      <4> TAKE i \in 1..Len(cc)
      <4> SUFFICES ASSUME i # 1 PROVE i - 1 \in 1..(Len(cc) - 1) /\ Tail(cc)[i - 1] = cc[i]
        OBVIOUS
      <4>1. i - 1 \in 1..(Len(cc) - 1) /\ (i - 1) + 1 = i
        BY <2>2
      <4> QED
        BY <3>4, <4>1
    <3>6. ToSet(cc) \subseteq {cc[1]} \cup ToSet(Tail(cc))
      BY <3>1, <3>5
    <3>7. {cc[1]} \cup ToSet(Tail(cc)) \subseteq ToSet(cc)
      BY <2>2, <3>1, <3>4
    <3> QED
      BY <3>3, <3>6, <3>7
  <2>4. ToSet(to) = {} /\ Len(to) = 0
    BY <1>7, ToSetFacts
  <2>5. People(r) = both /\ Len(r.to) + Len(r.cc) = Len(to) + Len(cc)
    BY <2>1, <2>2, <2>3, <2>4 DEF People
  <2>6. r.to \in Seq(Addresses) /\ r.cc \in Seq(Addresses)
    BY <2>1, <2>2
  <2> QED
    BY <1>5, <1>6, <2>5, <2>6 DEF r
<1>8. CASE ~(to = <<>> /\ cc # <<>>)
  <2>1. r.to = to /\ r.cc = cc
    BY <1>4, <1>8
  <2> QED
    BY <1>2, <1>3, <1>5, <1>6, <2>1 DEF r, People
<1> QED
  BY <1>7, <1>8

\* The addresses that some identity matches.
Matched == UNION {Covers[i] : i \in ToSet(Identities)}

\* Which identities match an address, and which address is therefore one's own.
LEMMA MatchingFacts ==
  ASSUME NEW a
  PROVE  /\ \A kind : /\ Matching(a, kind) \in Seq(Addresses \cup Patterns)
                      /\ ToSet(Matching(a, kind)) = {i \in ToSet(Identities) \cap kind : a \in Covers[i]}
         /\ ResolveIdentity(a) = IF a \in Matched THEN a ELSE NoOne
<1>1. Identities \in Seq(Addresses \cup Patterns)
  BY ConversationAssumption
<1>2. ASSUME NEW kind
      PROVE  /\ Matching(a, kind) \in Seq(Addresses \cup Patterns)
             /\ ToSet(Matching(a, kind)) = {i \in ToSet(Identities) \cap kind : a \in Covers[i]}
  <2> DEFINE S == {i \in ToSet(Identities) \cap kind : a \in Covers[i]}
  <2>1. Matching(a, kind) = Kept(Identities, S)
    BY DEF Matching
  <2>2. ToSet(Identities) \cap S = S
    OBVIOUS
  <2> HIDE DEF S
  <2>3. Kept(Identities, S) \in Seq(Addresses \cup Patterns) /\ ToSet(Kept(Identities, S)) = S
    BY <1>1, <2>2, KeptFacts
  <2> QED
    BY <2>1, <2>3 DEF S
<1> DEFINE found == Matching(a, Addresses) \o Matching(a, Patterns)
<1>3. /\ found \in Seq(Addresses \cup Patterns)
      /\ ToSet(found) = ToSet(Matching(a, Addresses)) \cup ToSet(Matching(a, Patterns))
  BY <1>2, ToSetFacts
<1>4. ToSet(Identities) \subseteq Addresses \cup Patterns
  BY <1>1, ToSetFacts
<1>5. found = <<>> <=> a \notin Matched
  <2>1. found = <<>> <=> ToSet(found) = {}
    BY <1>3, ToSetFacts
  <2>2. ToSet(found) = {i \in ToSet(Identities) : a \in Covers[i]}
    BY <1>2, <1>3, <1>4
  <2> QED
    BY <2>1, <2>2 DEF Matched
<1>6. ResolveIdentity(a) = IF found = <<>> THEN NoOne ELSE a
  BY DEF ResolveIdentity
<1> QED
  BY <1>2, <1>5, <1>6

\* The sender was written to if any of one's addresses was; and it is one's own.
LEMMA ReplyIdentityFacts ==
  ASSUME NEW m, IsMail(m)
  PROVE  /\ LET addressed == (ToSet(m.to) \cup ToSet(m.cc)) \cap Matched
            IN addressed # {} => ReplyIdentity(m, NoOne) \in addressed
         /\ \A wanted \in Addresses \cup {NoOne} :
              ReplyIdentity(m, wanted) # NoOne => ReplyIdentity(m, wanted) \in Own \cap Addresses
<1> DEFINE addrs == m.to \o m.cc
           exact == Kept(Identities, ToSet(addrs) \ Patterns)
           covered == Kept(addrs, {a \in ToSet(addrs) : Matching(a, Patterns) # <<>>})
<1>1. addrs \in Seq(Addresses) /\ ToSet(addrs) = ToSet(m.to) \cup ToSet(m.cc)
  BY ToSetFacts DEF IsMail
<1>2. /\ Identities \in Seq(Addresses \cup Patterns) /\ ToSet(Identities) \subseteq Addresses \cup Patterns
      /\ \A i \in ToSet(Identities) \ Patterns : Covers[i] = {i}
      /\ Default \in ToSet(Identities) \ Patterns /\ NoOne \notin Addresses
      /\ \A i \in ToSet(Identities) : Covers[i] \subseteq Addresses
  BY ConversationAssumption, ToSetFacts
<1>3. Matched \subseteq Own /\ Matched \subseteq Addresses
  BY <1>2 DEF Matched, Own
<1>4. exact \in Seq(Addresses \cup Patterns) /\ ToSet(exact) = ToSet(Identities) \cap (ToSet(addrs) \ Patterns)
  BY <1>2, KeptFacts
<1>5. /\ covered \in Seq(Addresses)
      /\ ToSet(covered) = {a \in ToSet(addrs) : Matching(a, Patterns) # <<>>}
  <2> DEFINE S == {a \in ToSet(addrs) : Matching(a, Patterns) # <<>>}
  <2>1. ToSet(addrs) \cap S = S
    OBVIOUS
  <2>2. covered = Kept(addrs, S)
    OBVIOUS
  <2> HIDE DEF S, covered
  <2>3. covered \in Seq(Addresses) /\ ToSet(covered) = S
    BY <1>1, <2>1, <2>2, KeptFacts
  <2> QED
    BY <2>3 DEF S
<1>6. \A a : Matching(a, Patterns) # <<>> <=> \E i \in ToSet(Identities) \cap Patterns : a \in Covers[i]
  <2> TAKE a
  <2>1. /\ Matching(a, Patterns) \in Seq(Addresses \cup Patterns)
        /\ ToSet(Matching(a, Patterns)) = {i \in ToSet(Identities) \cap Patterns : a \in Covers[i]}
    BY MatchingFacts
  <2>2. Matching(a, Patterns) = <<>> <=> ToSet(Matching(a, Patterns)) = {}
    BY <2>1, ToSetFacts
  <2> QED
    BY <2>1, <2>2
<1>7. \A wanted : ReplyIdentity(m, wanted) =
        IF wanted # NoOne THEN ResolveIdentity(wanted)
        ELSE IF exact # <<>> THEN exact[1]
        ELSE IF covered # <<>> THEN ResolveIdentity(covered[1])
        ELSE Default
  BY DEF ReplyIdentity
<1> HIDE DEF addrs, exact, covered
<1>8. CASE exact # <<>>
  <2>1. exact[1] \in ToSet(Identities) \ Patterns /\ exact[1] \in ToSet(addrs)
    BY <1>4, <1>8, ToSetFacts
  <2>2. exact[1] \in Matched
    BY <1>2, <2>1 DEF Matched
  <2>3. ReplyIdentity(m, NoOne) \in (ToSet(m.to) \cup ToSet(m.cc)) \cap Matched
    BY <1>1, <1>7, <1>8, <2>1, <2>2
  <2> QED
    BY <1>2, <1>3, <1>7, <2>3, MatchingFacts
<1>9. CASE exact = <<>> /\ covered # <<>>
  <2>1. covered[1] \in ToSet(addrs) /\ Matching(covered[1], Patterns) # <<>>
    BY <1>5, <1>9, ToSetFacts
  <2>2. covered[1] \in Matched
    BY <1>6, <2>1 DEF Matched
  <2>3. ReplyIdentity(m, NoOne) \in (ToSet(m.to) \cup ToSet(m.cc)) \cap Matched
    BY <1>1, <1>7, <1>9, <2>1, <2>2, MatchingFacts
  <2> QED
    BY <1>2, <1>3, <1>7, <2>3, MatchingFacts
<1>10. CASE exact = <<>> /\ covered = <<>>
  <2>1. ASSUME NEW a \in ToSet(addrs), a \in Matched PROVE FALSE
    <3>1. PICK i \in ToSet(Identities) : a \in Covers[i]
      BY <2>1 DEF Matched
    <3>2. i \notin Patterns
      BY <1>5, <1>6, <1>10, <2>1, <3>1, ToSetFacts
    <3>3. a = i
      BY <1>2, <3>1, <3>2
    <3>4. a \in ToSet(exact)
      BY <1>4, <2>1, <3>2, <3>3
    <3> QED
      BY <1>10, <3>4, ToSetFacts
  <2>2. Default \in Matched
    BY <1>2 DEF Matched
  <2>3. ReplyIdentity(m, NoOne) = Default
    BY <1>7, <1>10
  <2> QED
    BY <1>1, <1>2, <1>3, <1>7, <2>1, <2>2, <2>3, MatchingFacts
<1> QED
  BY <1>8, <1>9, <1>10

-----------------------------------------------------------------------------
(* The mailbox: what every message of it is, and what is known of a reply.  *)

Mails == [from : Addresses, reply_to : Seq(Addresses), to : Seq(Addresses),
          cc : Seq(Addresses), subject : Subjects, own : Seq(Ids),
          refs : Seq(Ids), irt : Seq(Ids), answers : SUBSET Copies, all : BOOLEAN]

\* What a reply r that answers m keeps of it.
AnswerOf(r, m) ==
  /\ r.to # <<>> /\ [to |-> r.to, cc |-> r.cc] = Recipients(m, r.all)
  /\ r.refs = References(m) /\ r.irt = m.own

\* The inductive invariant of the conversation.
MailInv ==
  /\ ConversationTypeOK
  /\ Count <= MaxCopies
  /\ \A c \in Copies : Len(At(c).own) <= 1
  /\ \A c \in Replies : At(c).own # <<>> /\ \A d \in At(c).answers : AnswerOf(At(c), At(d))

\* A copy is a place in one of the boxes, and what is there is a message.
LEMMA CopyFacts ==
  ASSUME box \in [Boxes -> Seq(Mails)]
  PROVE  /\ Copies = {[folder |-> f, uid |-> u] : f \in Boxes, u \in Nat} \cap Copies
         /\ \A f \in Boxes : /\ Len(box[f]) \in Nat /\ DOMAIN box[f] = 1..Len(box[f])
                               /\ \A u \in 1..Len(box[f]) : [folder |-> f, uid |-> u] \in Copies
         /\ \A c \in Copies : /\ c.folder \in Boxes /\ c.uid \in 1..Len(box[c.folder])
                              /\ c = [folder |-> c.folder, uid |-> c.uid]
                              /\ At(c) = box[c.folder][c.uid] /\ At(c) \in Mails
         /\ Held \subseteq Copies /\ \A c \in Held : c.folder \in Folders
<1>1. \A f \in Boxes : Len(box[f]) \in Nat /\ DOMAIN box[f] = 1..Len(box[f])
  OBVIOUS
<1>2. Copies = UNION {[folder : {f}, uid : 1..Len(box[f])] : f \in Boxes}
  BY <1>1 DEF Copies, MailIn
<1>3. \A f \in Boxes : \A u \in 1..Len(box[f]) : [folder |-> f, uid |-> u] \in Copies
  BY <1>2
<1>4. ASSUME NEW c \in Copies
      PROVE  /\ c.folder \in Boxes /\ c.uid \in 1..Len(box[c.folder])
             /\ c = [folder |-> c.folder, uid |-> c.uid]
             /\ At(c) = box[c.folder][c.uid] /\ At(c) \in Mails
  <2>1. PICK f \in Boxes : c \in [folder : {f}, uid : 1..Len(box[f])]
    BY <1>2, <1>4
  <2>2. c.folder = f /\ c.uid \in 1..Len(box[f]) /\ c = [folder |-> c.folder, uid |-> c.uid]
    BY <2>1
  <2>3. box[f] \in Seq(Mails)
    OBVIOUS
  <2>4. box[f][c.uid] \in Mails
    BY <2>2, <2>3
  <2> QED
    BY <2>1, <2>2, <2>4 DEF At
<1>5. Copies \subseteq {[folder |-> f, uid |-> u] : f \in Boxes, u \in Nat}
  BY <1>1, <1>4
<1>6. Held \subseteq Copies /\ \A c \in Held : c.folder \in Folders
  BY DEF Held, Copies, MailIn, Boxes
<1> QED
  BY <1>1, <1>3, <1>4, <1>5, <1>6

\* The messages of the mailbox are what the lemmas about one message ask for.
LEMMA MailFacts ==
  ASSUME MailInv
  PROVE  /\ box \in [Boxes -> Seq(Mails)]
         /\ \A c \in Copies : /\ IsMail(At(c)) /\ At(c).subject \in Subjects
                              /\ At(c).answers \subseteq Copies /\ At(c).all \in BOOLEAN
<1>1. box \in [Boxes -> Seq(Mails)]
  BY DEF MailInv, ConversationTypeOK, Mails
<1>2. ASSUME NEW c \in Copies
      PROVE  /\ IsMail(At(c)) /\ At(c).subject \in Subjects
             /\ At(c).answers \subseteq Copies /\ At(c).all \in BOOLEAN
  <2>1. At(c) \in Mails
    BY <1>1, CopyFacts
  <2>2. Len(At(c).own) <= 1
    BY DEF MailInv
  <2> QED
    BY <2>1, <2>2 DEF Mails, IsMail
<1> QED
  BY <1>1, <1>2

\* Between a message and the next the references are those of the message and the
\* message itself, the last of them when they are too many.
LEMMA ReferencesFacts ==
  ASSUME NEW m, IsMail(m)
  PROVE  /\ Earlier(m) \in Seq(Ids) /\ References(m) \in Seq(Ids)
         /\ Len(References(m)) <= MaxReferences
         /\ ToSet(References(m)) \subseteq ToSet(Earlier(m)) \cup ToSet(m.own)
         /\ Len(Earlier(m)) < MaxReferences =>
              ToSet(References(m)) = ToSet(Earlier(m)) \cup ToSet(m.own)
         /\ ToSet(Earlier(m)) \cup ToSet(m.own) # {} => ToSet(References(m)) # {}
<1>1. Earlier(m) \in Seq(Ids) /\ m.own \in Seq(Ids) /\ Len(m.own) <= 1
  BY DEF IsMail, Earlier
<1> DEFINE k == Kept(Earlier(m), Ids \ ToSet(m.own))
           whole == k \o m.own
<1>2. k \in Seq(Ids) /\ Len(k) <= Len(Earlier(m)) /\ ToSet(k) = ToSet(Earlier(m)) \cap (Ids \ ToSet(m.own))
  BY <1>1, KeptFacts
<1>3. ToSet(Earlier(m)) \subseteq Ids
  BY <1>1, ToSetFacts
<1> HIDE DEF k
<1>4. whole \in Seq(Ids) /\ ToSet(whole) = ToSet(k) \cup ToSet(m.own) /\ Len(whole) = Len(k) + Len(m.own)
  BY <1>1, <1>2, ToSetFacts
<1>5. MaxReferences \in Nat \ {0}
  BY ConversationAssumption
<1>6. References(m) = LastOf(whole, MaxReferences)
  BY DEF References, k
<1>7. ToSet(whole) = ToSet(Earlier(m)) \cup ToSet(m.own)
  BY <1>2, <1>3, <1>4
<1> HIDE DEF whole
<1>8. /\ LastOf(whole, MaxReferences) \in Seq(Ids) /\ Len(LastOf(whole, MaxReferences)) <= MaxReferences
      /\ ToSet(LastOf(whole, MaxReferences)) \subseteq ToSet(whole)
      /\ Len(whole) <= MaxReferences => LastOf(whole, MaxReferences) = whole
      /\ whole # <<>> => ToSet(LastOf(whole, MaxReferences)) # {}
  BY <1>4, <1>5, LastOfFacts
<1>9. Len(Earlier(m)) < MaxReferences => Len(whole) <= MaxReferences
  BY <1>1, <1>2, <1>4, <1>5
<1>10. ToSet(whole) # {} => whole # <<>>
  BY <1>4, ToSetFacts
<1> QED
  BY <1>1, <1>6, <1>7, <1>8, <1>9, <1>10

\* A message that is delivered is the newest of its folder; nothing else is touched.
LEMMA DeliverEffect ==
  ASSUME box \in [Boxes -> Seq(Mails)], NEW f \in Boxes, NEW m \in Mails, Deliver(f, m),
         NEW new, new = [folder |-> f, uid |-> Len(box[f]) + 1]
  PROVE  /\ Count \in Nat /\ Count < MaxCopies /\ Count' = Count + 1
         /\ Copies' = Copies \cup {new}
         /\ At(new)' = m /\ \A c \in Copies : At(c)' = At(c)
         /\ box' \in [Boxes -> Seq(Mails')]
<1>1. /\ \A e \in Boxes : Len(box[e]) \in Nat /\ DOMAIN box[e] = 1..Len(box[e])
      /\ \A c \in Copies : c.folder \in Boxes /\ c.uid \in 1..Len(box[c.folder])
      /\ \A e \in Boxes : \A u \in 1..Len(box[e]) : [folder |-> e, uid |-> u] \in Copies
  BY CopyFacts
<1>2. Count < MaxCopies /\ box' = [box EXCEPT ![f] = Append(box[f], m)]
  BY DEF Deliver
<1>3. \A e \in Boxes : box'[e] = IF e = f THEN Append(box[f], m) ELSE box[e]
  BY <1>2
<1>4. /\ Len(box'[f]) = Len(box[f]) + 1 /\ box'[f][Len(box[f]) + 1] = m
      /\ \A u \in 1..Len(box[f]) : box'[f][u] = box[f][u]
      /\ DOMAIN box'[f] = 1..(Len(box[f]) + 1)
  <2>1. box[f] \in Seq(Mails) /\ box'[f] = Append(box[f], m)
    BY <1>3
  <2> HIDE DEF Mails
  <2> QED
    BY <2>1, AppendProperties
<1>5. Count \in Nat /\ Count' = Count + 1
  <2>1. {"inbox", "sent", "unfiled"} = Boxes
    BY DEF Boxes, Folders
  <2>2. PICK len \in [Boxes -> Nat] : \A e \in Boxes : len[e] = Len(box[e])
    <3>1. [e \in Boxes |-> Len(box[e])] \in [Boxes -> Nat]
      BY <1>1
    <3> QED
      BY <3>1
  <2>3. Count = len["inbox"] + len["sent"] + len["unfiled"]
    BY <2>1, <2>2 DEF Count
  <2>4. \A e \in Boxes : Len(box'[e]) = IF e = f THEN len[e] + 1 ELSE len[e]
    BY <1>3, <1>4, <2>2
  <2>5. Count' = Len(box'["inbox"]) + Len(box'["sent"]) + Len(box'["unfiled"])
    BY DEF Count
  <2>6. PICK a, b, u : a = len["inbox"] /\ b = len["sent"] /\ u = len["unfiled"]
    OBVIOUS
  <2>7. a \in Nat /\ b \in Nat /\ u \in Nat /\ Count = a + b + u
    BY <2>1, <2>2, <2>3, <2>6
  <2>8. \/ Count' = (a + 1) + b + u
        \/ Count' = a + (b + 1) + u
        \/ Count' = a + b + (u + 1)
    <3>1. CASE f = "inbox"
      BY <2>1, <2>4, <2>5, <2>6, <3>1
    <3>2. CASE f = "sent"
      BY <2>1, <2>4, <2>5, <2>6, <3>2
    <3>3. CASE f = "unfiled"
      BY <2>1, <2>4, <2>5, <2>6, <3>3
    <3> QED
      BY <2>1, <3>1, <3>2, <3>3
  <2>9. PICK n, k : n = Count /\ k = Count'
    OBVIOUS
  <2>10. n \in Nat /\ k = n + 1
    BY <2>7, <2>8, <2>9
  <2> QED
    BY <2>9, <2>10
<1>6. Copies = UNION {[folder : {e}, uid : 1..Len(box[e])] : e \in Boxes}
  BY <1>1 DEF Copies, MailIn
<1>7. \A e \in Boxes : DOMAIN box'[e] = 1..(IF e = f THEN Len(box[f]) + 1 ELSE Len(box[e]))
  BY <1>1, <1>3, <1>4
<1>8. Copies' = Copies \cup {new}
  <2>1. Copies' = UNION {[folder : {e}, uid : 1..(IF e = f THEN Len(box[f]) + 1 ELSE Len(box[e]))] : e \in Boxes}
    BY <1>7 DEF Copies, MailIn
  <2>2. \A e \in Boxes : 1..Len(box[e]) \subseteq 1..(IF e = f THEN Len(box[f]) + 1 ELSE Len(box[e]))
    BY <1>1
  <2>3. 1..(Len(box[f]) + 1) = (1..Len(box[f])) \cup {Len(box[f]) + 1}
    BY <1>1
  <2>4. ASSUME NEW c \in Copies' PROVE c \in Copies \cup {new}
    <3>1. PICK e \in Boxes : c \in [folder : {e}, uid : 1..(IF e = f THEN Len(box[f]) + 1 ELSE Len(box[e]))]
      BY <2>1, <2>4
    <3>2. c.folder = e /\ c = [folder |-> c.folder, uid |-> c.uid]
      BY <3>1
    <3>3. CASE c.uid \in 1..Len(box[e])
      BY <1>6, <3>1, <3>3
    <3>4. CASE c.uid \notin 1..Len(box[e])
      <4>1. e = f /\ c.uid = Len(box[f]) + 1
        BY <2>3, <3>1, <3>4
      <4> QED
        BY <3>2, <4>1
    <3> QED
      BY <3>3, <3>4
  <2>5. Copies \subseteq Copies'
    BY <1>6, <2>1, <2>2
  <2>6. new \in Copies'
    BY <1>1, <2>1, <2>3
  <2> QED
    BY <2>4, <2>5, <2>6
<1>9. At(new)' = m
  BY <1>4 DEF At
<1>10. \A c \in Copies : At(c)' = At(c)
  <2> TAKE c \in Copies
  <2>1. box'[c.folder][c.uid] = box[c.folder][c.uid]
    BY <1>1, <1>3, <1>4
  <2> QED
    BY <2>1 DEF At
<1>11. box' \in [Boxes -> Seq(Mails')]
  <2>1. Mails \subseteq Mails'
    BY <1>8 DEF Mails
  <2>2. \A e \in Boxes : box[e] \in Seq(Mails')
    <3> TAKE e \in Boxes
    <3>1. box[e] \in Seq(Mails)
      OBVIOUS
    <3> QED
      BY <2>1, <3>1
  <2>3. m \in Mails'
    BY <2>1
  <2> HIDE DEF Mails
  <2>4. Append(box[f], m) \in Seq(Mails')
    BY <2>2, <2>3, AppendProperties
  <2>5. \A e \in Boxes : box'[e] \in Seq(Mails')
    BY <1>3, <2>2, <2>4
  <2> QED
    BY <1>2, <2>5
<1> QED
  BY <1>2, <1>5, <1>8, <1>9, <1>10, <1>11

\* A delivery keeps the invariant when what is delivered is like what is there.
LEMMA MailKept ==
  ASSUME MailInv, NEW f \in Boxes, NEW m \in Mails, Deliver(f, m), Len(m.own) <= 1,
         m.answers # {} => /\ m.own # <<>> /\ Len(m.refs) <= MaxReferences /\ m.from \in Own
                           /\ \A d \in m.answers : AnswerOf(m, At(d))
  PROVE  MailInv'
<1>0. PICK new : new = [folder |-> f, uid |-> Len(box[f]) + 1]
  OBVIOUS
<1>1. box \in [Boxes -> Seq(Mails)]
  BY MailFacts
<1>2. /\ Count \in Nat /\ Count < MaxCopies /\ Count' = Count + 1
      /\ Copies' = Copies \cup {new}
      /\ At(new)' = m /\ \A c \in Copies : At(c)' = At(c)
      /\ box' \in [Boxes -> Seq(Mails')]
  BY <1>0, <1>1, DeliverEffect
<1>4. m.answers \subseteq Copies
  BY DEF Mails
<1>5. \A c \in Copies : At(c).answers \subseteq Copies
  BY MailFacts
<1>6. (Count <= MaxCopies)'
  BY <1>2, ConversationAssumption
<1>7. (\A c \in Copies : Len(At(c).own) <= 1)'
  <2>1. \A c \in Copies : Len(At(c).own) <= 1
    BY DEF MailInv
  <2> QED
    BY <1>2, <2>1
<1>8. \A c \in Replies' : (c \in Replies \/ (c = new /\ m.answers # {}))
  BY <1>2 DEF Replies
<1>9. (\A c \in Replies : Len(At(c).refs) <= MaxReferences /\ At(c).from \in Own)'
  <2>1. \A c \in Replies : c \in Copies /\ Len(At(c).refs) <= MaxReferences /\ At(c).from \in Own
    BY DEF MailInv, ConversationTypeOK, Replies
  <2>2. \A c \in Replies' : Len(At(c)'.refs) <= MaxReferences /\ At(c)'.from \in Own
    BY <1>2, <1>8, <2>1
  <2> QED
    BY <2>2
<1>10. (\A c \in Replies : At(c).own # <<>> /\ \A d \in At(c).answers : AnswerOf(At(c), At(d)))'
  <2>1. ASSUME NEW c \in Replies'
        PROVE  At(c)'.own # <<>> /\ \A d \in At(c)'.answers : AnswerOf(At(c)', At(d)')
    <3>1. CASE c \in Replies
      <4>1. c \in Copies /\ At(c).own # <<>> /\ \A d \in At(c).answers : AnswerOf(At(c), At(d))
        BY <3>1 DEF MailInv, Replies
      <4>2. At(c)' = At(c)
        BY <1>2, <4>1
      <4>3. \A d \in At(c).answers : At(d)' = At(d)
        BY <1>2, <1>5, <4>1
      <4> QED
        BY <4>1, <4>2, <4>3
    <3>2. CASE c = new /\ m.answers # {}
      <4>1. At(c)' = m
        BY <1>2, <3>2
      <4>2. \A d \in m.answers : At(d)' = At(d)
        BY <1>2, <1>4
      <4>3. m.own # <<>> /\ \A d \in m.answers : AnswerOf(m, At(d))
        BY <3>2
      <4> QED
        BY <4>1, <4>2, <4>3
    <3> QED
      BY <1>8, <3>1, <3>2
  <2> QED
    BY <2>1
<1>11. ConversationTypeOK'
  BY <1>2, <1>9 DEF ConversationTypeOK, Mails
<1> QED
  BY <1>6, <1>7, <1>10, <1>11 DEF MailInv

LEMMA MailInitially == ConversationInit => MailInv
<1> SUFFICES ASSUME ConversationInit PROVE MailInv
  OBVIOUS
<1>1. box \in [Boxes -> Seq(Mails)] /\ \A f \in Boxes : box[f] = <<>> /\ DOMAIN box[f] = {}
  BY DEF ConversationInit
<1>2. Copies = {}
  <2>1. \A f \in Boxes : [folder : {f}, uid : DOMAIN box[f]] = {}
    BY <1>1
  <2> QED
    BY <2>1 DEF Copies, MailIn
<1>3. Count = 0
  BY <1>1 DEF Count, Boxes, Folders
<1> QED
  BY <1>1, <1>2, <1>3, ConversationAssumption DEF MailInv, ConversationTypeOK, Mails, Replies

\* A client threads with ids of the mailbox.
LEMMA HeaderFacts ==
  ASSUME MailInv, NEW h \in Headers PROVE h.refs \in Seq(Ids) /\ h.irt \in Seq(Ids)
<1>1. Lost \in Ids /\ MaxCopies \in Nat
  BY ConversationAssumption DEF Ids, Lost
<1>2. <<>> \in Seq(Ids) /\ <<Lost>> \in Seq(Ids)
  BY <1>1
<1>3. CASE h \in {[refs |-> <<>>, irt |-> <<>>], [refs |-> <<Lost>>, irt |-> <<Lost>>]}
  <2>1. CASE h = [refs |-> <<>>, irt |-> <<>>]
    BY <1>2, <2>1
  <2>2. CASE h = [refs |-> <<Lost>>, irt |-> <<Lost>>]
    BY <1>2, <2>2
  <2> QED
    BY <1>3, <2>1, <2>2
<1>4. CASE h \notin {[refs |-> <<>>, irt |-> <<>>], [refs |-> <<Lost>>, irt |-> <<Lost>>]}
  <2>1. PICK c \in Copies :
          h \in {[refs |-> Earlier(At(c)) \o At(c).own, irt |-> At(c).own],
                 [refs |-> At(c).own, irt |-> At(c).own], [refs |-> <<>>, irt |-> At(c).own]}
    BY <1>4 DEF Headers
  <2>2. IsMail(At(c))
    BY MailFacts
  <2>3. Earlier(At(c)) \in Seq(Ids) /\ At(c).own \in Seq(Ids)
    BY <2>2, ReferencesFacts DEF IsMail
  <2>4. Earlier(At(c)) \o At(c).own \in Seq(Ids)
    BY <2>3
  <2>5. CASE h = [refs |-> Earlier(At(c)) \o At(c).own, irt |-> At(c).own]
    BY <2>3, <2>4, <2>5
  <2>6. CASE h = [refs |-> At(c).own, irt |-> At(c).own]
    BY <2>3, <2>6
  <2>7. CASE h = [refs |-> <<>>, irt |-> At(c).own]
    BY <1>2, <2>3, <2>7
  <2> QED
    BY <2>1, <2>5, <2>6, <2>7
<1> QED
  BY <1>3, <1>4

\* The id of the next message is one of the ids.
LEMMA NextId ==
  ASSUME MailInv, Count < MaxCopies
  PROVE  Count \in 0..MaxCopies /\ <<Count + 1>> \in Seq(Ids) /\ Len(<<Count + 1>>) = 1
<1>1. box \in [Boxes -> Seq(Mails)]
  BY MailFacts
<1>2. PICK a, b, c : a = Len(box["inbox"]) /\ b = Len(box["sent"]) /\ c = Len(box["unfiled"])
  OBVIOUS
<1>3. Count = a + b + c
  BY <1>2 DEF Count
<1>4. a \in Nat /\ b \in Nat /\ c \in Nat
  BY <1>1, <1>2, CopyFacts DEF Boxes, Folders
<1>5. Count \in Nat /\ MaxCopies \in Nat
  BY <1>3, <1>4, ConversationAssumption
<1>6. Count + 1 \in Ids
  BY <1>5 DEF Ids, Lost
<1> QED
  BY <1>5, <1>6

LEMMA ArriveKept ==
  ASSUME MailInv, NEW letter \in Letters(Count), NEW h \in Headers, Arrive(letter, h)
  PROVE  MailInv'
<1>1. PICK own \in {<<>>, <<Count + 1>>} : Deliver("inbox", Mail(letter, own, h.refs, h.irt))
  BY DEF Arrive
<1>2. Count \in 0..MaxCopies /\ <<Count + 1>> \in Seq(Ids) /\ Len(<<Count + 1>>) = 1
  BY <1>1, NextId DEF Deliver
<1>3. own \in Seq(Ids) /\ Len(own) <= 1
  <2>1. CASE own = <<>>
    <3>1. <<>> \in Seq(Ids) /\ Len(<<>>) = 0
      OBVIOUS
    <3> QED
      BY <2>1, <3>1
  <2>2. CASE own = <<Count + 1>>
    BY <1>2, <2>2
  <2> QED
    BY <1>1, <2>1, <2>2
<1>4. letter \in [from : Addresses, reply_to : Seq(Addresses), to : Seq(Addresses),
                  cc : Seq(Addresses), subject : Subjects]
  BY <1>2, ConversationAssumption
<1>5. h.refs \in Seq(Ids) /\ h.irt \in Seq(Ids)
  BY HeaderFacts
<1>6. /\ Mail(letter, own, h.refs, h.irt) \in Mails
      /\ Mail(letter, own, h.refs, h.irt).own = own
      /\ Mail(letter, own, h.refs, h.irt).answers = {}
  BY <1>3, <1>4, <1>5 DEF Mail, Mails
<1>7. "inbox" \in Boxes
  BY DEF Boxes, Folders
<1> QED
  BY <1>1, <1>3, <1>6, <1>7, MailKept

LEMMA EchoKept ==
  ASSUME MailInv, NEW c \in Copies, Echo(c) PROVE MailInv'
<1>1. At(c) \in Mails /\ Len(At(c).own) <= 1
  BY MailFacts, CopyFacts DEF MailInv
<1>2. At(c).answers # {} =>
        /\ At(c).own # <<>> /\ Len(At(c).refs) <= MaxReferences /\ At(c).from \in Own
        /\ \A d \in At(c).answers : AnswerOf(At(c), At(d))
  BY DEF MailInv, ConversationTypeOK, Replies
<1>3. "inbox" \in Boxes /\ Deliver("inbox", At(c))
  BY DEF Echo, Boxes, Folders
<1>4. PICK m : m = At(c)
  OBVIOUS
<1>5. /\ m \in Mails /\ Len(m.own) <= 1 /\ Deliver("inbox", m)
      /\ m.answers # {} => /\ m.own # <<>> /\ Len(m.refs) <= MaxReferences /\ m.from \in Own
                           /\ \A d \in m.answers : AnswerOf(m, At(d))
  BY <1>1, <1>2, <1>3, <1>4
<1> QED
  BY <1>3, <1>5, MailKept

LEMMA ReplyKept ==
  ASSUME MailInv, NEW c \in Copies, NEW all \in BOOLEAN, NEW wanted \in Addresses \cup {NoOne},
         Reply(c, all, wanted)
  PROVE  MailInv'
<1>1. PICK m : m = At(c)
  OBVIOUS
<1>2. IsMail(m) /\ m.subject \in Subjects
  BY <1>1, MailFacts
<1> DEFINE people == Recipients(m, all)
           sender == ReplyIdentity(m, wanted)
           letter == [from |-> sender, reply_to |-> <<>>, to |-> people.to, cc |-> people.cc,
                      subject |-> m.subject]
           reply == [Mail(letter, <<Count + 1>>, References(m), m.own)
                       EXCEPT !.answers = {c}, !.all = all]
<1>3. PICK f \in {"sent", "unfiled"} : people.to # <<>> /\ sender # NoOne /\ Deliver(f, reply)
  BY <1>1 DEF Reply
<1>4. people.to \in Seq(Addresses) /\ people.cc \in Seq(Addresses)
  BY <1>2, RecipientsFacts
<1>5. sender \in Own /\ sender \in Addresses
  BY <1>2, <1>3, ReplyIdentityFacts
<1>6. References(m) \in Seq(Ids) /\ Len(References(m)) <= MaxReferences /\ m.own \in Seq(Ids)
  BY <1>2, ReferencesFacts DEF IsMail
<1>7. <<Count + 1>> \in Seq(Ids) /\ Len(<<Count + 1>>) = 1 /\ <<Count + 1>> # <<>>
  BY <1>3, NextId DEF Deliver
<1>8. PICK r : r = reply
  OBVIOUS
<1>9. r = [from |-> sender, reply_to |-> <<>>, to |-> people.to, cc |-> people.cc,
           subject |-> m.subject, own |-> <<Count + 1>>, refs |-> References(m), irt |-> m.own,
           answers |-> {c}, all |-> all]
  BY <1>8 DEF Mail
<1> HIDE DEF people, sender, reply
<1>10. r \in Mails /\ Len(r.own) <= 1 /\ r.own # <<>> /\ Len(r.refs) <= MaxReferences /\ r.from \in Own
  BY <1>2, <1>4, <1>5, <1>6, <1>7, <1>9 DEF Mails
<1>11. people = [to |-> people.to, cc |-> people.cc]
  BY DEF people, Recipients
<1>12. AnswerOf(r, m)
  <2>1. r.to = people.to /\ r.cc = people.cc /\ r.refs = References(m) /\ r.irt = m.own /\ r.all = all
    BY <1>9
  <2> QED
    BY <1>3, <1>11, <2>1 DEF AnswerOf, people
<1>13. \A d \in r.answers : AnswerOf(r, At(d))
  BY <1>1, <1>9, <1>12
<1>14. f \in Boxes /\ Deliver(f, r)
  BY <1>3, <1>8 DEF Boxes, Folders
<1> QED
  BY <1>10, <1>13, <1>14, MailKept

\* The mailbox as it was is the same mailbox.
LEMMA MailUnchanged == MailInv /\ UNCHANGED conversationVars => MailInv'
  BY DEF conversationVars, MailInv, ConversationTypeOK, Count, Copies, MailIn, Replies, At

LEMMA MailStep == MailInv /\ [ConversationNext]_conversationVars => MailInv'
<1> SUFFICES ASSUME MailInv, [ConversationNext]_conversationVars PROVE MailInv'
  OBVIOUS
<1>1. ASSUME NEW letter \in Letters(Count), NEW h \in Headers, Arrive(letter, h) PROVE MailInv'
  BY <1>1, ArriveKept
<1>2. ASSUME NEW c \in Copies, Echo(c) PROVE MailInv'
  BY <1>2, EchoKept
<1>3. ASSUME NEW c \in Held, NEW all \in BOOLEAN, NEW wanted \in Wanted(Count), Reply(c, all, wanted)
      PROVE  MailInv'
  <2>1. wanted \in Addresses \cup {NoOne}
    <3>1. Count < MaxCopies
      BY <1>3 DEF Reply, Deliver
    <3>2. Count \in 0..MaxCopies
      BY <3>1, NextId
    <3> QED
      BY <1>3, <3>2, ConversationAssumption
  <2> QED
    BY <1>3, <2>1, ReplyKept, MailFacts, CopyFacts
<1>4. CASE UNCHANGED conversationVars
  BY <1>4, MailUnchanged
<1> QED
  BY <1>1, <1>2, <1>3, <1>4 DEF ConversationNext

LEMMA MailAlways == ConversationSpec => []MailInv
<1> QED
  BY MailInitially, MailStep, PTL DEF ConversationSpec

\* The mailbox holds messages, and what the program sends has bounded references.
THEOREM ConversationTyped == ConversationSpec => []ConversationTypeOK
<1>1. MailInv => ConversationTypeOK
  BY DEF MailInv
<1> QED
  BY <1>1, MailAlways, PTL

\* A reply reaches the people of the original and nobody else, and comes from an
\* address that the original was sent to whenever there is one.
LEMMA MailReaches == MailInv => ReachesPeople
<1> SUFFICES ASSUME MailInv PROVE ReachesPeople
  OBVIOUS
<1>1. ASSUME NEW c \in Replies, NEW d \in At(c).answers
      PROVE  LET r == At(c)  m == At(d)
                 people == ToSet(r.to) \cup ToSet(r.cc)
                 everyone == ToSet(Primary(m)) \cup ToSet(m.to) \cup ToSet(m.cc)
             IN /\ people \cap Own = {} /\ people \subseteq everyone /\ r.to # <<>>
                /\ Len(r.to) + Len(r.cc) = Cardinality(people)
                /\ r.all => people = everyone \ Own
  <2>1. c \in Copies /\ d \in Copies
    BY MailFacts DEF Replies
  <2>2. PICK r, m : r = At(c) /\ m = At(d)
    OBVIOUS
  <2>3. IsMail(m) /\ r.all \in BOOLEAN
    BY <2>1, <2>2, MailFacts
  <2>4. r.to # <<>> /\ [to |-> r.to, cc |-> r.cc] = Recipients(m, r.all)
    BY <2>2 DEF MailInv, AnswerOf
  <2> DEFINE q == Recipients(m, r.all)
  <2>5. /\ People(q) \cap Own = {} /\ People(q) \subseteq Everyone(m)
        /\ Len(q.to) + Len(q.cc) = Cardinality(People(q))
        /\ r.all => People(q) = Everyone(m) \ Own
    BY <2>3, RecipientsFacts
  <2> HIDE DEF q
  <2>6. q.to = r.to /\ q.cc = r.cc
    BY <2>4 DEF q
  <2> QED
    BY <2>2, <2>4, <2>5, <2>6 DEF People, Everyone
<1>2. ASSUME NEW c \in Copies
      PROVE  LET m == At(c)
                 addressed == (ToSet(m.to) \cup ToSet(m.cc))
                                \cap UNION {Covers[i] : i \in ToSet(Identities)}
             IN addressed # {} => ReplyIdentity(m, NoOne) \in addressed
  BY MailFacts, ReplyIdentityFacts DEF Matched
<1> QED
  BY <1>1, <1>2 DEF ReachesPeople

THEOREM PeopleAreReached == ConversationSpec => []ReachesPeople
<1> QED
  BY MailAlways, MailReaches, PTL

-----------------------------------------------------------------------------
(* What thread finds.                                                       *)

LEMMA UidsFacts ==
  ASSUME box \in [Boxes -> Seq(Mails)], NEW f \in Boxes
  PROVE  /\ Uids(f) \in Seq(1..Len(box[f])) /\ ToSet(Uids(f)) = 1..Len(box[f])
         /\ Len(Uids(f)) = Len(box[f]) /\ Len(box[f]) \in Nat
<1>1. Len(box[f]) \in Nat /\ DOMAIN box[f] = 1..Len(box[f])
  BY CopyFacts
<1>2. Uids(f) = [u \in 1..Len(box[f]) |-> u]
  BY <1>1 DEF Uids
<1>3. PICK n : n = Len(box[f])
  OBVIOUS
<1>4. [u \in 1..n |-> u] \in Seq(1..n) /\ Len([u \in 1..n |-> u]) = n
  BY <1>1, <1>3
<1>5. ToSet([u \in 1..n |-> u]) = 1..n
  BY <1>1, <1>3 DEF ToSet
<1> QED
  BY <1>1, <1>2, <1>3, <1>4, <1>5

LEMMA InFolderFacts ==
  ASSUME box \in [Boxes -> Seq(Mails)], NEW f \in Boxes, NEW uids \in Seq(1..Len(box[f]))
  PROVE  /\ InFolder(f, uids) \in Seq(Copies) /\ Len(InFolder(f, uids)) = Len(uids)
         /\ \A u : [folder |-> f, uid |-> u] \in ToSet(InFolder(f, uids)) <=> u \in ToSet(uids)
         /\ \A c \in ToSet(InFolder(f, uids)) : c.folder = f /\ c.uid \in ToSet(uids)
<1>1. Len(uids) \in Nat /\ DOMAIN uids = 1..Len(uids) /\ \A i \in 1..Len(uids) : uids[i] \in 1..Len(box[f])
  OBVIOUS
<1>2. \A i \in 1..Len(uids) : [folder |-> f, uid |-> uids[i]] \in Copies
  BY <1>1, CopyFacts
<1>3. PICK s : s = InFolder(f, uids)
  OBVIOUS
<1>4. s = [i \in 1..Len(uids) |-> [folder |-> f, uid |-> uids[i]]]
  BY <1>1, <1>3 DEF InFolder
<1>5. s \in Seq(Copies) /\ Len(s) = Len(uids)
  <2>1. s \in [1..Len(uids) -> Copies]
    BY <1>2, <1>4
  <2> QED
    BY <1>1, <2>1
<1>6. ToSet(s) = {[folder |-> f, uid |-> uids[i]] : i \in 1..Len(uids)}
  <2>1. ToSet(s) = {s[i] : i \in 1..Len(s)}
    BY <1>5, ToSetFacts
  <2> QED
    BY <1>4, <1>5, <2>1
<1>7. ToSet(uids) = {uids[i] : i \in 1..Len(uids)}
  BY ToSetFacts
<1>8. \A u : [folder |-> f, uid |-> u] \in ToSet(s) <=> u \in ToSet(uids)
  <2> TAKE u
  <2>1. \A i \in 1..Len(uids) : [folder |-> f, uid |-> u] = [folder |-> f, uid |-> uids[i]] <=> u = uids[i]
    OBVIOUS
  <2> QED
    BY <1>6, <1>7, <2>1
<1>9. \A c \in ToSet(s) : c.folder = f /\ c.uid \in ToSet(uids)
  BY <1>6, <1>7
<1> QED
  BY <1>3, <1>5, <1>8, <1>9

LEMMA JoinedFacts ==
  ASSUME NEW X, NEW s \in Seq(X), NEW t \in Seq(X), NEW u \in Seq(X)
  PROVE  /\ s \o t \in Seq(X) /\ (s \o t) \o u \in Seq(X)
         /\ ToSet((s \o t) \o u) = ToSet(s) \cup ToSet(t) \cup ToSet(u)
         /\ s # <<>> => ((s \o t) \o u)[1] = s[1]
<1>1. PICK w : w = s \o t
  OBVIOUS
<1>2. w \in Seq(X) /\ ToSet(w) = ToSet(s) \cup ToSet(t) /\ (s # <<>> => w # <<>> /\ w[1] = s[1])
  BY <1>1, ToSetFacts
<1>3. w \o u \in Seq(X) /\ ToSet(w \o u) = ToSet(w) \cup ToSet(u) /\ (w # <<>> => (w \o u)[1] = w[1])
  BY <1>2, ToSetFacts
<1> QED
  BY <1>1, <1>2, <1>3

LEMMA MsgIdsFacts ==
  ASSUME NEW m, IsMail(m)
  PROVE  /\ MsgIds(m) \in Seq(Ids)
         /\ ToSet(MsgIds(m)) = ToSet(m.own) \cup ToSet(m.refs) \cup ToSet(m.irt)
         /\ ToSet(Earlier(m)) \cup ToSet(m.own) \subseteq ToSet(MsgIds(m))
         /\ MsgIds(m) = <<>> <=> ToSet(MsgIds(m)) = {}
         /\ m.own # <<>> => MsgIds(m)[1] = m.own[1]
<1>1. m.own \in Seq(Ids) /\ m.refs \in Seq(Ids) /\ m.irt \in Seq(Ids)
  BY DEF IsMail
<1>2. MsgIds(m) = (m.own \o m.refs) \o m.irt
  BY DEF MsgIds
<1>3. MsgIds(m) \in Seq(Ids) /\ (m.own # <<>> => MsgIds(m)[1] = m.own[1])
  <2>1. PICK s, t, u : s = m.own /\ t = m.refs /\ u = m.irt
    OBVIOUS
  <2>2. s \in Seq(Ids) /\ t \in Seq(Ids) /\ u \in Seq(Ids)
    BY <1>1, <2>1
  <2>3. (s \o t) \o u \in Seq(Ids) /\ (s # <<>> => ((s \o t) \o u)[1] = s[1])
    BY <2>2, JoinedFacts
  <2>4. MsgIds(m) = (s \o t) \o u
    BY <1>2, <2>1
  <2> QED
    BY <2>1, <2>3, <2>4
<1>4. ToSet(MsgIds(m)) = ToSet(m.own) \cup ToSet(m.refs) \cup ToSet(m.irt)
  BY <1>1, <1>2, JoinedFacts
<1>5. Earlier(m) = m.refs \/ Earlier(m) = m.irt
  BY DEF Earlier
<1>6. MsgIds(m) = <<>> <=> ToSet(MsgIds(m)) = {}
  BY <1>3, ToSetFacts
<1> QED
  BY <1>3, <1>4, <1>5, <1>6

\* The root and the ids of the search are ids of the message; a message with an id
\* has a root, and the references of a reply name it when they are not cut.
LEMMA RootFacts ==
  ASSUME NEW m, IsMail(m)
  PROVE  /\ Root(m) \subseteq ToSet(MsgIds(m)) /\ ToSet(ThreadIds(m)) \subseteq ToSet(MsgIds(m))
         /\ MsgIds(m) # <<>> => Root(m) # {}
         /\ Root(m) \subseteq ToSet(Earlier(m)) \cup ToSet(m.own)
<1>1. m.own \in Seq(Ids) /\ m.refs \in Seq(Ids) /\ m.irt \in Seq(Ids) /\ Earlier(m) \in Seq(Ids)
  BY DEF IsMail, Earlier
<1>2. /\ MsgIds(m) \in Seq(Ids)
      /\ ToSet(MsgIds(m)) = ToSet(m.own) \cup ToSet(m.refs) \cup ToSet(m.irt)
      /\ ToSet(Earlier(m)) \cup ToSet(m.own) \subseteq ToSet(MsgIds(m))
      /\ MsgIds(m) = <<>> <=> ToSet(MsgIds(m)) = {}
  BY MsgIdsFacts
<1> DEFINE s == IF Earlier(m) # <<>> THEN Earlier(m) ELSE m.own
<1>3. Root(m) = IF s = <<>> THEN {} ELSE {s[1]}
  BY DEF Root
<1>4. s \in Seq(Ids) /\ (s = Earlier(m) \/ s = m.own)
  BY <1>1
<1>5. s # <<>> => s[1] \in ToSet(s)
  BY <1>4, ToSetFacts
<1>6. Root(m) \subseteq ToSet(Earlier(m)) \cup ToSet(m.own)
  BY <1>3, <1>4, <1>5
<1>7. MsgIds(m) # <<>> => s # <<>>
  <2> SUFFICES ASSUME s = <<>> PROVE ToSet(MsgIds(m)) = {}
    BY <1>2
  <2>1. m.own = <<>> /\ Earlier(m) = <<>>
    OBVIOUS
  <2>2. m.refs = <<>> /\ m.irt = <<>>
    BY <2>1 DEF Earlier
  <2> QED
    BY <1>2, <2>1, <2>2, ToSetFacts
<1>8. ToSet(ThreadIds(m)) \subseteq ToSet(MsgIds(m))
  <2> DEFINE t == (m.refs \o m.irt) \o m.own
  <2>1. t \in Seq(Ids)
    BY <1>1, JoinedFacts
  <2>2. ToSet(t) = ToSet(m.refs) \cup ToSet(m.irt) \cup ToSet(m.own)
    BY <1>1, JoinedFacts
  <2>3. ThreadIds(m) = LastOf(Distinct(t), MaxThreadIds)
    BY DEF ThreadIds
  <2> HIDE DEF t
  <2>4. Distinct(t) \in Seq(Ids) /\ ToSet(Distinct(t)) = ToSet(t)
    BY <2>1, DistinctFacts
  <2>5. MaxThreadIds \in Nat
    BY ConversationAssumption
  <2>6. ToSet(LastOf(Distinct(t), MaxThreadIds)) \subseteq ToSet(Distinct(t))
    BY <2>4, <2>5, LastOfFacts
  <2> QED
    BY <1>2, <2>2, <2>3, <2>4, <2>6
<1> QED
  BY <1>2, <1>3, <1>6, <1>7, <1>8

\* What names one of the ids of the search, or is named as its root's answer.
Hit(m, n) == ToSet(n.own) \cap ToSet(ThreadIds(m)) # {} \/ ToSet(n.refs) \cap Root(m) # {}

\* A folder's hits; all of them when they are not too many.
LEMMA RelatedFacts ==
  ASSUME box \in [Boxes -> Seq(Mails)], NEW f \in Boxes, NEW m
  PROVE  /\ Related(m, f) \in Seq(1..Len(box[f]))
         /\ \A u \in ToSet(Related(m, f)) : u \in 1..Len(box[f]) /\ Hit(m, box[f][u])
         /\ Len(box[f]) <= MaxHits =>
              \A u \in 1..Len(box[f]) : Hit(m, box[f][u]) => u \in ToSet(Related(m, f))
<1>1. /\ Uids(f) \in Seq(1..Len(box[f])) /\ ToSet(Uids(f)) = 1..Len(box[f])
      /\ Len(Uids(f)) = Len(box[f]) /\ Len(box[f]) \in Nat
  BY UidsFacts
<1> DEFINE hits == {u \in 1..Len(box[f]) : Hit(m, box[f][u])}
           k == Kept(Uids(f), hits)
<1>2. Related(m, f) = LastOf(k, MaxHits)
  <2>1. DOMAIN box[f] = 1..Len(box[f])
    BY CopyFacts
  <2> QED
    BY <2>1 DEF Related, Hit
<1>3. k \in Seq(1..Len(box[f])) /\ Len(k) <= Len(box[f]) /\ ToSet(k) = ToSet(Uids(f)) \cap hits
  <2> HIDE DEF hits
  <2> QED
    BY <1>1, KeptFacts
<1>4. ToSet(k) = hits
  BY <1>1, <1>3
<1> HIDE DEF k
<1>5. MaxHits \in Nat
  BY ConversationAssumption
<1>6. /\ LastOf(k, MaxHits) \in Seq(1..Len(box[f])) /\ ToSet(LastOf(k, MaxHits)) \subseteq ToSet(k)
      /\ Len(k) <= MaxHits => LastOf(k, MaxHits) = k
  BY <1>3, <1>5, LastOfFacts
<1>7. Len(box[f]) <= MaxHits => Len(k) <= MaxHits
  BY <1>1, <1>3, <1>5
<1> QED
  BY <1>2, <1>4, <1>6, <1>7

\* The relation of which FirstCopies keeps one each.
LEMMA FirstCopiesFacts ==
  ASSUME NEW cs \in Seq(Copies)
  PROVE  /\ FirstCopies(cs) \in Seq(Copies) /\ ToSet(FirstCopies(cs)) \subseteq ToSet(cs)
         /\ \A c \in ToSet(cs) : At(c).own \in {At(t).own : t \in ToSet(FirstCopies(cs))}
         /\ \A i, j \in DOMAIN FirstCopies(cs) :
              /\ At(FirstCopies(cs)[i]).own # <<>>
              /\ At(FirstCopies(cs)[i]).own = At(FirstCopies(cs)[j]).own
              => i = j
<1> DEFINE same == {p \in ToSet(cs) \X ToSet(cs) : At(p[1]).own # <<>> /\ At(p[1]).own = At(p[2]).own}
           s == Firsts(cs, same)
<1>1. FirstCopies(cs) = s
  BY DEF FirstCopies
<1>2. \A c, d \in ToSet(cs) : <<c, d>> \in same <=> At(c).own # <<>> /\ At(c).own = At(d).own
  OBVIOUS
<1> HIDE DEF same
<1>3. /\ s \in Seq(Copies) /\ ToSet(s) \subseteq ToSet(cs)
      /\ \A x \in ToSet(cs) : x \in ToSet(s) \/ \E y \in ToSet(s) : <<y, x>> \in same
      /\ \A i, j \in 1..Len(s) : i < j => <<s[i], s[j]>> \notin same
  BY FirstsFacts
<1> HIDE DEF s
<1>4. \A c \in ToSet(cs) : At(c).own \in {At(t).own : t \in ToSet(s)}
  BY <1>2, <1>3
<1>5. Len(s) \in Nat /\ DOMAIN s = 1..Len(s) /\ \A i \in 1..Len(s) : s[i] \in ToSet(cs)
  BY <1>3, ToSetFacts
<1>6. ASSUME NEW i \in DOMAIN s, NEW j \in DOMAIN s, At(s[i]).own # <<>>, At(s[i]).own = At(s[j]).own
      PROVE  i = j
  <2>1. i \in 1..Len(s) /\ j \in 1..Len(s)
    BY <1>5
  <2>2. ~(i < j) /\ ~(j < i)
    BY <1>2, <1>3, <1>5, <1>6, <2>1
  <2> QED
    BY <1>5, <2>1, <2>2
<1> QED
  BY <1>1, <1>3, <1>4, <1>6

FoundAs(f, m) == InFolder(f, Related(m, f)) \o (IF f = "sent" THEN <<>> ELSE InFolder("sent", Related(m, "sent")))

\* Everything that thread lists shares an id with the message that was asked for.
LEMMA ThreadFacts ==
  ASSUME MailInv, NEW f \in Boxes, NEW m, IsMail(m)
  PROVE  /\ FoundAs(f, m) \in Seq(Copies) /\ Thread(f, m) = FirstCopies(FoundAs(f, m))
         /\ \A t \in ToSet(Thread(f, m)) : /\ t \in Copies /\ t.folder \in {f, "sent"}
                                           /\ ToSet(MsgIds(At(t))) \cap ToSet(MsgIds(m)) # {}
         /\ f = "inbox" =>
              \A c \in Held : Len(box[c.folder]) <= MaxHits /\ Hit(m, At(c)) => c \in ToSet(FoundAs(f, m))
<1>1. box \in [Boxes -> Seq(Mails)] /\ "sent" \in Boxes
  BY MailFacts DEF Boxes, Folders
<1>2. ASSUME NEW g \in Boxes
      PROVE  /\ InFolder(g, Related(m, g)) \in Seq(Copies)
             /\ \A c \in ToSet(InFolder(g, Related(m, g))) : c \in Copies /\ c.folder = g /\ Hit(m, At(c))
             /\ Len(box[g]) <= MaxHits =>
                  \A c \in Copies : c.folder = g /\ Hit(m, At(c)) => c \in ToSet(InFolder(g, Related(m, g)))
  <2>1. /\ Related(m, g) \in Seq(1..Len(box[g]))
        /\ \A u \in ToSet(Related(m, g)) : u \in 1..Len(box[g]) /\ Hit(m, box[g][u])
        /\ Len(box[g]) <= MaxHits =>
             \A u \in 1..Len(box[g]) : Hit(m, box[g][u]) => u \in ToSet(Related(m, g))
    BY <1>1, RelatedFacts
  <2>2. /\ InFolder(g, Related(m, g)) \in Seq(Copies)
        /\ \A u : [folder |-> g, uid |-> u] \in ToSet(InFolder(g, Related(m, g))) <=> u \in ToSet(Related(m, g))
        /\ \A c \in ToSet(InFolder(g, Related(m, g))) : c.folder = g /\ c.uid \in ToSet(Related(m, g))
    BY <1>1, <2>1, InFolderFacts
  <2>3. \A c \in Copies : /\ c.folder \in Boxes /\ c.uid \in 1..Len(box[c.folder])
                          /\ c = [folder |-> c.folder, uid |-> c.uid]
                          /\ At(c) = box[c.folder][c.uid]
    BY <1>1, CopyFacts
  <2>4. ToSet(InFolder(g, Related(m, g))) \subseteq Copies
    BY <2>2, ToSetFacts
  <2>5. ASSUME NEW c \in ToSet(InFolder(g, Related(m, g)))
        PROVE  c \in Copies /\ c.folder = g /\ Hit(m, At(c))
    <3>1. c \in Copies /\ c.folder = g /\ c.uid \in ToSet(Related(m, g))
      BY <2>2, <2>4
    <3> QED
      BY <2>1, <2>3, <3>1
  <2>6. ASSUME Len(box[g]) <= MaxHits, NEW c \in Copies, c.folder = g, Hit(m, At(c))
        PROVE  c \in ToSet(InFolder(g, Related(m, g)))
    <3>1. c.uid \in 1..Len(box[g]) /\ c = [folder |-> g, uid |-> c.uid] /\ At(c) = box[g][c.uid]
      BY <2>3, <2>6
    <3>2. c.uid \in ToSet(Related(m, g))
      BY <2>1, <2>6, <3>1
    <3> QED
      BY <2>2, <3>1, <3>2
  <2> QED
    BY <2>2, <2>5, <2>6
<1> DEFINE a == InFolder(f, Related(m, f))
           b == IF f = "sent" THEN <<>> ELSE InFolder("sent", Related(m, "sent"))
<1>3. /\ a \in Seq(Copies) /\ b \in Seq(Copies)
      /\ \A c \in ToSet(a) \cup ToSet(b) : c \in Copies /\ c.folder \in {f, "sent"} /\ Hit(m, At(c))
      /\ Len(box[f]) <= MaxHits =>
           \A c \in Copies : c.folder = f /\ Hit(m, At(c)) => c \in ToSet(a)
      /\ f = "inbox" /\ Len(box["sent"]) <= MaxHits =>
           \A c \in Copies : c.folder = "sent" /\ Hit(m, At(c)) => c \in ToSet(b)
  <2>1. CASE f = "sent"
    <3>1. b = <<>> /\ ToSet(b) = {} /\ b \in Seq(Copies) /\ f # "inbox"
      BY <2>1, ToSetFacts
    <3> HIDE DEF b
    <3> QED
      BY <1>2, <3>1
  <2>2. CASE f # "sent"
    <3>1. b = InFolder("sent", Related(m, "sent"))
      BY <2>2
    <3> HIDE DEF b
    <3> QED
      BY <1>1, <1>2, <3>1
  <2> QED
    BY <2>1, <2>2
<1>4. FoundAs(f, m) = a \o b
  BY DEF FoundAs
<1> HIDE DEF a, b
<1>5. a \o b \in Seq(Copies) /\ ToSet(a \o b) = ToSet(a) \cup ToSet(b)
  BY <1>3, ToSetFacts
<1>6. Thread(f, m) = FirstCopies(FoundAs(f, m))
  BY DEF Thread, FoundAs
<1>7. ToSet(Thread(f, m)) \subseteq ToSet(FoundAs(f, m))
  BY <1>4, <1>5, <1>6, FirstCopiesFacts
<1>8. ASSUME NEW t \in ToSet(Thread(f, m))
      PROVE  /\ t \in Copies /\ t.folder \in {f, "sent"}
             /\ ToSet(MsgIds(At(t))) \cap ToSet(MsgIds(m)) # {}
  <2>1. t \in Copies /\ t.folder \in {f, "sent"} /\ Hit(m, At(t))
    BY <1>3, <1>4, <1>5, <1>7
  <2>2. IsMail(At(t))
    BY <2>1, MailFacts
  <2>3. ToSet(At(t).own) \cup ToSet(At(t).refs) \subseteq ToSet(MsgIds(At(t)))
    BY <2>2, MsgIdsFacts
  <2>4. Root(m) \subseteq ToSet(MsgIds(m)) /\ ToSet(ThreadIds(m)) \subseteq ToSet(MsgIds(m))
    BY RootFacts
  <2> QED
    BY <2>1, <2>3, <2>4 DEF Hit
<1>9. ASSUME f = "inbox", NEW c \in Held, Len(box[c.folder]) <= MaxHits, Hit(m, At(c))
      PROVE  c \in ToSet(FoundAs(f, m))
  <2>1. c \in Copies /\ (c.folder = "inbox" \/ c.folder = "sent")
    BY <1>1, CopyFacts DEF Folders
  <2> QED
    BY <1>3, <1>4, <1>5, <1>9, <2>1
<1> QED
  BY <1>4, <1>5, <1>6, <1>8, <1>9

-----------------------------------------------------------------------------
(* What threads groups.                                                     *)

\* The key of a message among those that are grouped.
KeyOf(cs, c) ==
  IF MsgIds(At(c)) = <<>> THEN <<"subject", At(c).subject>>
                          ELSE <<"id", Find(UnionFind(cs), MsgIds(At(c))[1])>>

\* The groups are the messages with the same key, and a key has one group.
LEMMA GroupFacts ==
  ASSUME NEW cs \in Seq(Copies)
  PROVE  /\ \A c, d \in ToSet(cs) :
              KeyOf(cs, c) = KeyOf(cs, d)
                <=> \E g \in {ToSet(s) : s \in GroupMessages(cs)} : {c, d} \subseteq g
         /\ \A g, h \in GroupMessages(cs) :
              /\ g \in Seq(Copies) /\ ToSet(g) \subseteq ToSet(cs)
              /\ (\E c \in ToSet(g), d \in ToSet(h) : KeyOf(cs, c) = KeyOf(cs, d)) => g = h
         /\ \A k \in {KeyOf(cs, c) : c \in ToSet(cs)} :
              {c \in ToSet(cs) : KeyOf(cs, c) = k} \in {ToSet(s) : s \in GroupMessages(cs)}
<1> DEFINE with(k) == {c \in ToSet(cs) : KeyOf(cs, c) = k}
           keys == {KeyOf(cs, c) : c \in ToSet(cs)}
<1>1. GroupMessages(cs) = {Kept(cs, with(k)) : k \in keys}
  BY DEF GroupMessages, KeyOf
<1>2. ASSUME NEW k
      PROVE  Kept(cs, with(k)) \in Seq(Copies) /\ ToSet(Kept(cs, with(k))) = with(k)
  <2>1. PICK S : S = with(k)
    OBVIOUS
  <2>2. ToSet(cs) \cap S = S
    BY <2>1
  <2>3. Kept(cs, S) \in Seq(Copies) /\ ToSet(Kept(cs, S)) = S
    BY <2>2, KeptFacts
  <2> QED
    BY <2>1, <2>3
<1>3. {ToSet(s) : s \in GroupMessages(cs)} = {with(k) : k \in keys}
  <2>1. {ToSet(s) : s \in GroupMessages(cs)} = {ToSet(Kept(cs, with(k))) : k \in keys}
    <3> HIDE DEF with, keys
    <3> QED
      BY <1>1
  <2>2. \A k \in keys : ToSet(Kept(cs, with(k))) = with(k)
    BY <1>2
  <2> HIDE DEF with, keys
  <2> QED
    BY <2>1, <2>2
<1>4. ASSUME NEW c \in ToSet(cs), NEW d \in ToSet(cs)
      PROVE  KeyOf(cs, c) = KeyOf(cs, d) <=> \E g \in {with(k) : k \in keys} : {c, d} \subseteq g
  <2>1. ASSUME KeyOf(cs, c) = KeyOf(cs, d) PROVE \E g \in {with(k) : k \in keys} : {c, d} \subseteq g
    <3>1. {c, d} \subseteq with(KeyOf(cs, c)) /\ KeyOf(cs, c) \in keys
      BY <2>1
    <3> HIDE DEF with, keys
    <3> QED
      BY <3>1
  <2>2. ASSUME NEW g \in {with(k) : k \in keys}, {c, d} \subseteq g PROVE KeyOf(cs, c) = KeyOf(cs, d)
    <3>1. PICK k \in keys : g = with(k)
      <4> HIDE DEF with, keys
      <4> QED
        BY <2>2
    <3> QED
      BY <2>2, <3>1
  <2> QED
    BY <2>1, <2>2
<1>5. ASSUME NEW g \in GroupMessages(cs), NEW h \in GroupMessages(cs)
      PROVE  /\ g \in Seq(Copies) /\ ToSet(g) \subseteq ToSet(cs)
             /\ (\E c \in ToSet(g), d \in ToSet(h) : KeyOf(cs, c) = KeyOf(cs, d)) => g = h
  <2>1. PICK k \in keys, l \in keys : g = Kept(cs, with(k)) /\ h = Kept(cs, with(l))
    <3> HIDE DEF with, keys
    <3> QED
      BY <1>1, <1>5
  <2>2. g \in Seq(Copies) /\ ToSet(g) = with(k) /\ ToSet(h) = with(l)
    <3> HIDE DEF with, keys
    <3> QED
      BY <1>2, <2>1
  <2>3. ASSUME NEW c \in ToSet(g), NEW d \in ToSet(h), KeyOf(cs, c) = KeyOf(cs, d) PROVE k = l
    BY <2>2, <2>3
  <2>4. k = l => g = h
    <3> HIDE DEF with, keys
    <3> QED
      BY <2>1
  <2> QED
    BY <2>2, <2>3, <2>4
<1>6. \A k \in keys : with(k) \in {ToSet(s) : s \in GroupMessages(cs)}
  <2> HIDE DEF with, keys
  <2> QED
    BY <1>3
<1>7. \A c, d \in ToSet(cs) :
        KeyOf(cs, c) = KeyOf(cs, d)
          <=> \E g \in {ToSet(s) : s \in GroupMessages(cs)} : {c, d} \subseteq g
  <2> HIDE DEF with, keys
  <2>1. PICK G : G = {with(k) : k \in keys}
    OBVIOUS
  <2>2. \A c, d \in ToSet(cs) : KeyOf(cs, c) = KeyOf(cs, d) <=> \E g \in G : {c, d} \subseteq g
    BY <1>4, <2>1, Zenon
  <2>3. {ToSet(s) : s \in GroupMessages(cs)} = G
    BY <1>3, <2>1
  <2> QED
    BY <2>2, <2>3, Zenon
<1> QED
  BY <1>5, <1>6, <1>7

\* What shares an id has the same key, and a set of messages that shares no id with the
\* rest holds all that have the key of one of them.
LEMMA KeyFacts ==
  ASSUME MailInv, NEW cs \in Seq(Copies)
  PROVE  /\ \A c, d \in ToSet(cs) : Shares(At(c), At(d)) => KeyOf(cs, c) = KeyOf(cs, d)
         /\ \A c, d \in ToSet(cs) : At(c).own # <<>> /\ At(c).own = At(d).own => KeyOf(cs, c) = KeyOf(cs, d)
         /\ \A i, j \in DOMAIN cs : \A S \in SUBSET DOMAIN cs :
              KeyOf(cs, cs[i]) = KeyOf(cs, cs[j]) /\ i \in S /\ j \notin S =>
                \E k \in S, l \in DOMAIN cs \ S : Shares(At(cs[k]), At(cs[l]))
<1>1. /\ ToSet(cs) = {cs[i] : i \in 1..Len(cs)} /\ ToSet(cs) \subseteq Copies
      /\ DOMAIN cs = 1..Len(cs) /\ Len(cs) \in Nat
  BY ToSetFacts
<1>2. ASSUME NEW c \in ToSet(cs)
      PROVE  /\ MsgIds(At(c)) \in Seq(Ids) /\ ToSet(MsgIds(At(c))) \subseteq Ids
             /\ MsgIds(At(c)) = <<>> <=> ToSet(MsgIds(At(c))) = {}
             /\ MsgIds(At(c)) # <<>> => MsgIds(At(c))[1] \in ToSet(MsgIds(At(c)))
             /\ At(c).own # <<>> => At(c).own[1] \in ToSet(MsgIds(At(c))) /\ MsgIds(At(c)) # <<>>
             /\ At(c).own # <<>> => MsgIds(At(c))[1] = At(c).own[1]
  <2>1. IsMail(At(c)) /\ At(c).own \in Seq(Ids)
    BY <1>1, MailFacts DEF IsMail
  <2>2. /\ MsgIds(At(c)) \in Seq(Ids) /\ (MsgIds(At(c)) = <<>> <=> ToSet(MsgIds(At(c))) = {})
        /\ ToSet(At(c).own) \subseteq ToSet(MsgIds(At(c)))
        /\ At(c).own # <<>> => MsgIds(At(c))[1] = At(c).own[1]
    BY <2>1, MsgIdsFacts
  <2>3. At(c).own # <<>> => At(c).own[1] \in ToSet(At(c).own)
    BY <2>1, ToSetFacts
  <2>4. ToSet(MsgIds(At(c))) \subseteq Ids /\ (MsgIds(At(c)) # <<>> => MsgIds(At(c))[1] \in ToSet(MsgIds(At(c))))
    BY <2>2, ToSetFacts
  <2> QED
    BY <2>2, <2>3, <2>4
<1>3. \A i \in 1..Len(cs) : cs[i] \in ToSet(cs) /\ MsgIds(At(cs[i])) \in Seq(Ids)
  BY <1>1, <1>2
<1> DEFINE p == UnionFind(cs)
<1>4. /\ \A i \in 1..Len(cs) : Joined(p, MsgIds(At(cs[i])))
      /\ \A A : (\A i \in 1..Len(cs) : Whole(MsgIds(At(cs[i])), A)) => Respects(p, A)
  BY <1>3, UnionFindFacts
<1> HIDE DEF p
<1>5. \A c \in ToSet(cs) : \A x, y \in ToSet(MsgIds(At(c))) : Find(p, x) = Find(p, y)
  BY <1>1, <1>4 DEF Joined
<1>6. \A c \in ToSet(cs) : KeyOf(cs, c) =
        IF MsgIds(At(c)) = <<>> THEN <<"subject", At(c).subject>> ELSE <<"id", Find(p, MsgIds(At(c))[1])>>
  BY DEF KeyOf, p
<1>7. ASSUME NEW c \in ToSet(cs), NEW d \in ToSet(cs), Shares(At(c), At(d))
      PROVE  KeyOf(cs, c) = KeyOf(cs, d)
  <2>1. CASE ToSet(MsgIds(At(c))) \cap ToSet(MsgIds(At(d))) # {}
    <3>1. PICK x : x \in ToSet(MsgIds(At(c))) /\ x \in ToSet(MsgIds(At(d)))
      BY <2>1
    <3>2. MsgIds(At(c)) # <<>> /\ MsgIds(At(d)) # <<>>
      BY <1>2, <3>1
    <3>3. Find(p, MsgIds(At(c))[1]) = Find(p, x) /\ Find(p, MsgIds(At(d))[1]) = Find(p, x)
      BY <1>2, <1>5, <3>1, <3>2
    <3> QED
      BY <1>6, <3>2, <3>3
  <2>2. CASE MsgIds(At(c)) = <<>> /\ MsgIds(At(d)) = <<>> /\ At(c).subject = At(d).subject
    BY <1>6, <2>2
  <2> QED
    BY <1>7, <2>1, <2>2 DEF Shares
<1>8. ASSUME NEW c \in ToSet(cs), NEW d \in ToSet(cs), At(c).own # <<>>, At(c).own = At(d).own
      PROVE  KeyOf(cs, c) = KeyOf(cs, d)
  <2>1. At(c).own[1] \in ToSet(MsgIds(At(c))) /\ At(c).own[1] \in ToSet(MsgIds(At(d)))
    BY <1>2, <1>8
  <2> QED
    BY <1>7, <2>1 DEF Shares
<1>9. ASSUME NEW i \in DOMAIN cs, NEW j \in DOMAIN cs, NEW S \in SUBSET DOMAIN cs,
             KeyOf(cs, cs[i]) = KeyOf(cs, cs[j]), i \in S, j \notin S,
             \A k \in S, l \in DOMAIN cs \ S : ~Shares(At(cs[k]), At(cs[l]))
      PROVE  FALSE
  <2>1. cs[i] \in ToSet(cs) /\ cs[j] \in ToSet(cs) /\ ~Shares(At(cs[i]), At(cs[j]))
    BY <1>1, <1>9
  <2>2. CASE MsgIds(At(cs[i])) = <<>>
    <3>1. KeyOf(cs, cs[i]) = <<"subject", At(cs[i]).subject>>
      BY <1>6, <2>1, <2>2
    <3>2. MsgIds(At(cs[j])) = <<>>
      <4> SUFFICES ASSUME MsgIds(At(cs[j])) # <<>> PROVE FALSE
        OBVIOUS
      <4>1. KeyOf(cs, cs[j]) = <<"id", Find(p, MsgIds(At(cs[j]))[1])>>
        BY <1>6, <2>1
      <4>2. <<"subject", At(cs[i]).subject>> = <<"id", Find(p, MsgIds(At(cs[j]))[1])>>
        BY <1>9, <3>1, <4>1
      <4> QED
        BY <4>2
    <3>3. KeyOf(cs, cs[j]) = <<"subject", At(cs[j]).subject>>
      BY <1>6, <2>1, <3>2
    <3>4. At(cs[i]).subject = At(cs[j]).subject
      <4>1. <<"subject", At(cs[i]).subject>> = <<"subject", At(cs[j]).subject>>
        BY <1>9, <3>1, <3>3
      <4> QED
        BY <4>1
    <3> QED
      BY <2>1, <2>2, <3>2, <3>4 DEF Shares
  <2>3. CASE MsgIds(At(cs[i])) # <<>>
    <3>1. KeyOf(cs, cs[i]) = <<"id", Find(p, MsgIds(At(cs[i]))[1])>>
      BY <1>6, <2>1, <2>3
    <3>2. MsgIds(At(cs[j])) # <<>>
      <4> SUFFICES ASSUME MsgIds(At(cs[j])) = <<>> PROVE FALSE
        OBVIOUS
      <4>1. KeyOf(cs, cs[j]) = <<"subject", At(cs[j]).subject>>
        BY <1>6, <2>1
      <4>2. <<"id", Find(p, MsgIds(At(cs[i]))[1])>> = <<"subject", At(cs[j]).subject>>
        BY <1>9, <3>1, <4>1
      <4> QED
        BY <4>2
    <3>3. KeyOf(cs, cs[j]) = <<"id", Find(p, MsgIds(At(cs[j]))[1])>>
      BY <1>6, <2>1, <3>2
    <3> DEFINE A == UNION {ToSet(MsgIds(At(cs[k]))) : k \in S}
    <3>4. ASSUME NEW l \in 1..Len(cs) PROVE Whole(MsgIds(At(cs[l])), A)
      <4>1. CASE l \in S
        BY <4>1 DEF Whole
      <4>2. CASE l \notin S
        <5>1. \A k \in S : ToSet(MsgIds(At(cs[k]))) \cap ToSet(MsgIds(At(cs[l]))) = {}
          BY <1>1, <1>9, <4>2 DEF Shares
        <5> QED
          BY <5>1 DEF Whole
      <4> QED
        BY <4>1, <4>2
    <3> DEFINE a == MsgIds(At(cs[i]))[1]
               b == MsgIds(At(cs[j]))[1]
    <3>5. a \in A /\ a \in Ids /\ b \in Ids /\ b \in ToSet(MsgIds(At(cs[j])))
      BY <1>2, <1>9, <2>1, <2>3, <3>2
    <3>6. Respects(p, A)
      <4> HIDE DEF A
      <4> QED
        BY <1>4, <3>4
    <3>7. Find(p, a) = Find(p, b)
      <4>1. <<"id", Find(p, a)>> = <<"id", Find(p, b)>>
        BY <1>9, <3>1, <3>3
      <4> QED
        BY <4>1
    <3>8. b \in A
      <4> HIDE DEF A, a, b
      <4> QED
        BY <3>5, <3>6, <3>7 DEF Respects
    <3>9. PICK k \in S : b \in ToSet(MsgIds(At(cs[k])))
      BY <3>8
    <3>10. Shares(At(cs[k]), At(cs[j]))
      BY <3>5, <3>9 DEF Shares
    <3> QED
      BY <1>9, <3>10
  <2> QED
    BY <2>2, <2>3
<1> QED
  BY <1>7, <1>8, <1>9

\* The newest messages of a folder are messages of it; all of them when they are few.
LEMMA ScanFacts ==
  ASSUME MailInv, NEW f \in Boxes, NEW n \in Nat
  PROVE  /\ Scan(f, n) \in Seq(Copies)
         /\ Len(box[f]) <= n => \A c \in Copies : c.folder = f => c \in ToSet(Scan(f, n))
<1>1. box \in [Boxes -> Seq(Mails)]
  BY MailFacts
<1>2. /\ Uids(f) \in Seq(1..Len(box[f])) /\ ToSet(Uids(f)) = 1..Len(box[f])
      /\ Len(Uids(f)) = Len(box[f])
  BY <1>1, UidsFacts
<1>3. /\ LastOf(Uids(f), n) \in Seq(1..Len(box[f]))
      /\ Len(Uids(f)) <= n => LastOf(Uids(f), n) = Uids(f)
  BY <1>2, LastOfFacts
<1>4. Scan(f, n) = InFolder(f, LastOf(Uids(f), n))
  BY DEF Scan
<1>5. /\ Scan(f, n) \in Seq(Copies)
      /\ \A u : [folder |-> f, uid |-> u] \in ToSet(Scan(f, n)) <=> u \in ToSet(LastOf(Uids(f), n))
  BY <1>1, <1>3, <1>4, InFolderFacts
<1>6. ASSUME Len(box[f]) <= n, NEW c \in Copies, c.folder = f PROVE c \in ToSet(Scan(f, n))
  <2>1. c.uid \in 1..Len(box[f]) /\ c = [folder |-> f, uid |-> c.uid]
    BY <1>1, <1>6, CopyFacts
  <2>2. c.uid \in ToSet(LastOf(Uids(f), n))
    BY <1>2, <1>3, <1>6, <2>1
  <2> QED
    BY <1>5, <2>1, <2>2
<1> QED
  BY <1>5, <1>6

LEMMA ScannedFacts ==
  ASSUME MailInv, NEW f \in Boxes, NEW limit \in Nat PROVE Scanned(f, limit) \in Seq(Copies)
<1>1. PerThread \in Nat /\ MaxScan \in Nat /\ "sent" \in Boxes
  BY ConversationAssumption DEF Boxes, Folders
<1> DEFINE wanted == limit * PerThread
           count == IF wanted = 0 THEN 1 ELSE IF wanted > MaxScan THEN MaxScan ELSE wanted
           rest == IF f = "sent" THEN <<>> ELSE Scan("sent", count)
<1>2. wanted \in Nat
  BY <1>1
<1>3. count \in Nat
  <2> HIDE DEF wanted
  <2> QED
    BY <1>1, <1>2
<1> HIDE DEF count
<1>4. Scan(f, count) \in Seq(Copies) /\ Scan("sent", count) \in Seq(Copies)
  BY <1>1, <1>3, ScanFacts
<1>5. rest \in Seq(Copies)
  <2>1. <<>> \in Seq(Copies)
    OBVIOUS
  <2> QED
    BY <1>4, <2>1
<1>6. Scanned(f, limit) = Scan(f, count) \o rest
  BY DEF Scanned, count
<1> HIDE DEF rest
<1> QED
  BY <1>4, <1>5, <1>6

\* Entry lists a message of a group once, and the groups share none.
LEMMA ListedOnce ==
  ASSUME MailInv, NEW cs \in Seq(Copies),
         NEW g \in GroupMessages(cs), NEW h \in GroupMessages(cs),
         NEW i \in DOMAIN Entry(g), NEW j \in DOMAIN Entry(h),
         At(Entry(g)[i]).own # <<>>, At(Entry(g)[i]).own = At(Entry(h)[j]).own
  PROVE  g = h /\ i = j
<1>1. /\ g \in Seq(Copies) /\ ToSet(g) \subseteq ToSet(cs)
      /\ h \in Seq(Copies) /\ ToSet(h) \subseteq ToSet(cs)
  BY GroupFacts
<1>2. /\ FirstCopies(g) \in Seq(Copies) /\ ToSet(FirstCopies(g)) \subseteq ToSet(g)
      /\ FirstCopies(h) \in Seq(Copies) /\ ToSet(FirstCopies(h)) \subseteq ToSet(h)
  BY <1>1, FirstCopiesFacts
<1>3. i \in DOMAIN FirstCopies(g) /\ j \in DOMAIN FirstCopies(h)
  BY DEF Entry
<1>4. PICK c, d : c = FirstCopies(g)[i] /\ d = FirstCopies(h)[j]
  OBVIOUS
<1>5. c \in ToSet(g) /\ d \in ToSet(h)
  BY <1>2, <1>3, <1>4, ToSetFacts
<1>6. At(c).own # <<>> /\ At(c).own = At(d).own
  BY <1>4 DEF Entry
<1>7. KeyOf(cs, c) = KeyOf(cs, d)
  BY <1>1, <1>5, <1>6, KeyFacts
<1>8. g = h
  BY <1>5, <1>7, GroupFacts
<1>9. i = j
  BY <1>1, <1>3, <1>4, <1>6, <1>8, FirstCopiesFacts
<1> QED
  BY <1>8, <1>9

\* The groups of threads are the conversations of what it has read, each message once.
LEMMA MailGrouped == MailInv => GroupsAreConversations
<1> SUFFICES ASSUME MailInv, NEW f \in Folders, NEW limit \in 0..MaxCopies,
                    NEW cs, cs = Scanned(f, limit)
             PROVE  LET groups == {ToSet(g) : g \in GroupMessages(cs)}
                        listed == UNION {{<<g, i>> : i \in DOMAIN Entry(g)} : g \in GroupMessages(cs)}
                        own(x) == At(Entry(x[1])[x[2]]).own
                    IN /\ \A i, j \in DOMAIN cs :
                            SameConversation(i, j, cs) <=> \E g \in groups : {cs[i], cs[j]} \subseteq g
                       /\ \A x, y \in listed : own(x) # <<>> /\ own(x) = own(y) => x = y
  BY DEF GroupsAreConversations
<1>1. cs \in Seq(Copies)
  BY ScannedFacts, ConversationAssumption DEF Boxes
<1>2. DOMAIN cs = 1..Len(cs) /\ ToSet(cs) = {cs[i] : i \in 1..Len(cs)}
  BY <1>1, ToSetFacts
<1> DEFINE groups == {ToSet(g) : g \in GroupMessages(cs)}
           listed == UNION {{<<g, i>> : i \in DOMAIN Entry(g)} : g \in GroupMessages(cs)}
<1>3. ASSUME NEW i \in DOMAIN cs, NEW j \in DOMAIN cs
      PROVE  SameConversation(i, j, cs) <=> KeyOf(cs, cs[i]) = KeyOf(cs, cs[j])
  <2>1. ASSUME SameConversation(i, j, cs), KeyOf(cs, cs[i]) # KeyOf(cs, cs[j]) PROVE FALSE
    <3> DEFINE S == {k \in DOMAIN cs : KeyOf(cs, cs[k]) = KeyOf(cs, cs[i])}
    <3>1. S \in SUBSET DOMAIN cs /\ i \in S /\ j \notin S
      BY <2>1
    <3>2. PICK k \in S, l \in DOMAIN cs \ S : Shares(At(cs[k]), At(cs[l]))
      <4> HIDE DEF S
      <4> QED
        BY <2>1, <3>1 DEF SameConversation
    <3>3. KeyOf(cs, cs[k]) = KeyOf(cs, cs[l])
      BY <1>1, <1>2, <3>2, KeyFacts
    <3> QED
      BY <3>2, <3>3
  <2>2. ASSUME KeyOf(cs, cs[i]) = KeyOf(cs, cs[j]) PROVE SameConversation(i, j, cs)
    BY <1>1, <2>2, KeyFacts DEF SameConversation
  <2> QED
    BY <2>1, <2>2
<1>4. ASSUME NEW i \in DOMAIN cs, NEW j \in DOMAIN cs
      PROVE  SameConversation(i, j, cs) <=> \E g \in groups : {cs[i], cs[j]} \subseteq g
  <2>1. cs[i] \in ToSet(cs) /\ cs[j] \in ToSet(cs)
    BY <1>2
  <2>2. KeyOf(cs, cs[i]) = KeyOf(cs, cs[j])
          <=> \E g \in {ToSet(s) : s \in GroupMessages(cs)} : {cs[i], cs[j]} \subseteq g
    BY <1>1, <2>1, GroupFacts
  <2> QED
    BY <1>3, <2>2
<1>5. ASSUME NEW x \in listed, NEW y \in listed, At(Entry(x[1])[x[2]]).own # <<>>,
             At(Entry(x[1])[x[2]]).own = At(Entry(y[1])[y[2]]).own
      PROVE  x = y
  <2>1. PICK g \in GroupMessages(cs) : x \in {<<g, i>> : i \in DOMAIN Entry(g)}
    OBVIOUS
  <2>2. PICK h \in GroupMessages(cs) : y \in {<<h, i>> : i \in DOMAIN Entry(h)}
    OBVIOUS
  <2>3. PICK i \in DOMAIN Entry(g) : x = <<g, i>>
    BY <2>1
  <2>4. PICK j \in DOMAIN Entry(h) : y = <<h, j>>
    BY <2>2
  <2>5. At(Entry(g)[i]).own # <<>> /\ At(Entry(g)[i]).own = At(Entry(h)[j]).own
    BY <1>5, <2>3, <2>4
  <2>6. g = h /\ i = j
    BY <1>1, <2>5, ListedOnce
  <2> QED
    BY <2>3, <2>4, <2>6
<1> QED
  BY <1>4, <1>5

THEOREM ConversationsAreGrouped == ConversationSpec => []GroupsAreConversations
<1> QED
  BY MailAlways, MailGrouped, PTL

\* Who looks at the thread of a message finds the answers to it that the mailbox has.
LEMMA FoundInThread ==
  ASSUME MailInv, NEW c \in Replies \cap Held, NEW d \in At(c).answers, d.folder = "inbox",
         MsgIds(At(d)) # <<>>, Len(Earlier(At(d))) < MaxReferences, Len(box[c.folder]) <= MaxHits
  PROVE  At(c).own \in {At(t).own : t \in ToSet(Thread("inbox", At(d)))}
<1>1. c \in Copies /\ d \in Copies /\ "inbox" \in Boxes
  BY MailFacts DEF Replies, Boxes, Folders
<1>2. IsMail(At(d)) /\ At(c).refs = References(At(d))
  BY <1>1, MailFacts DEF MailInv, AnswerOf
<1>3. ToSet(At(c).refs) = ToSet(Earlier(At(d))) \cup ToSet(At(d).own)
  BY <1>2, ReferencesFacts
<1>4. Root(At(d)) # {} /\ Root(At(d)) \subseteq ToSet(Earlier(At(d))) \cup ToSet(At(d).own)
  BY <1>2, RootFacts
<1>5. Hit(At(d), At(c))
  BY <1>3, <1>4 DEF Hit
<1>6. c \in ToSet(FoundAs("inbox", At(d))) /\ FoundAs("inbox", At(d)) \in Seq(Copies)
  BY <1>1, <1>2, <1>5, ThreadFacts
<1>7. Thread("inbox", At(d)) = FirstCopies(FoundAs("inbox", At(d)))
  BY <1>1, <1>2, ThreadFacts
<1> QED
  BY <1>6, <1>7, FirstCopiesFacts

\* A reply names an id of what it answers however its references are cut.
LEMMA AnswerShares ==
  ASSUME MailInv, NEW c \in Replies, NEW d \in At(c).answers, MsgIds(At(d)) # <<>>
  PROVE  Shares(At(c), At(d))
<1>1. c \in Copies /\ d \in Copies
  BY MailFacts DEF Replies
<1>2. IsMail(At(c)) /\ IsMail(At(d)) /\ At(c).refs = References(At(d))
  BY <1>1, MailFacts DEF MailInv, AnswerOf
<1>3. /\ ToSet(At(c).refs) \subseteq ToSet(Earlier(At(d))) \cup ToSet(At(d).own)
      /\ ToSet(Earlier(At(d))) \cup ToSet(At(d).own) # {} => ToSet(At(c).refs) # {}
  BY <1>2, ReferencesFacts
<1>4. ToSet(Earlier(At(d))) \cup ToSet(At(d).own) # {}
  BY <1>2, RootFacts
<1>5. PICK x : x \in ToSet(At(c).refs)
  BY <1>3, <1>4
<1>6. x \in ToSet(MsgIds(At(c)))
  BY <1>2, <1>5, MsgIdsFacts
<1>7. x \in ToSet(MsgIds(At(d)))
  BY <1>2, <1>3, <1>5, MsgIdsFacts
<1> QED
  BY <1>6, <1>7 DEF Shares

LEMMA MailSeen == MailInv => AnswersAreSeen
<1> SUFFICES ASSUME MailInv, NEW c \in Replies \cap Held, NEW d \in At(c).answers,
                    MsgIds(At(d)) # <<>>, NEW f \in Folders, NEW limit \in 0..MaxCopies,
                    {c, d} \subseteq ToSet(Scanned(f, limit))
             PROVE  \E g \in GroupMessages(Scanned(f, limit)) : {c, d} \subseteq ToSet(g)
  BY FoundInThread DEF AnswersAreSeen
<1>1. PICK cs : cs = Scanned(f, limit)
  OBVIOUS
<1>2. f \in Boxes /\ limit \in Nat
  BY ConversationAssumption DEF Boxes
<1>3. cs \in Seq(Copies) /\ c \in ToSet(cs) /\ d \in ToSet(cs)
  BY <1>1, <1>2, ScannedFacts
<1>4. KeyOf(cs, c) = KeyOf(cs, d)
  BY <1>3, AnswerShares, KeyFacts
<1>5. \E g \in {ToSet(s) : s \in GroupMessages(cs)} : {c, d} \subseteq g
  BY <1>3, <1>4, GroupFacts
<1> QED
  BY <1>1, <1>5

\* What the mailbox has answered is seen: a reply of which it has a copy is in the thread
\* of its message unless it was cut from it, and grouped with it always.
THEOREM AnswersAreAlwaysSeen == ConversationSpec => []AnswersAreSeen
<1> QED
  BY MailAlways, MailSeen, PTL

\* What thread finds for a message is in the group that threads puts it in.
LEMMA MailWithin == MailInv => ThreadWithinGroup
<1> SUFFICES ASSUME MailInv, NEW cs, cs = Scan("inbox", MaxCopies) \o Scan("sent", MaxCopies),
                    NEW c \in Held, ToSet(Thread(c.folder, At(c))) # {}
             PROVE  \E g \in {ToSet(s) : s \in GroupMessages(cs)} :
                      {c} \cup ToSet(Thread(c.folder, At(c))) \subseteq g
  BY DEF ThreadWithinGroup
<1>1. box \in [Boxes -> Seq(Mails)] /\ MaxCopies \in Nat
  BY MailFacts, ConversationAssumption
<1>2. "inbox" \in Boxes /\ "sent" \in Boxes /\ "unfiled" \in Boxes
  BY DEF Boxes, Folders
<1>3. Len(box["inbox"]) <= MaxCopies /\ Len(box["sent"]) <= MaxCopies
  <2>1. PICK a, b, u : a = Len(box["inbox"]) /\ b = Len(box["sent"]) /\ u = Len(box["unfiled"])
    OBVIOUS
  <2>2. a + b + u <= MaxCopies
    BY <2>1 DEF MailInv, Count
  <2>3. a \in Nat /\ b \in Nat /\ u \in Nat
    BY <1>1, <1>2, <2>1, CopyFacts
  <2>4. a <= MaxCopies /\ b <= MaxCopies
    BY <1>1, <2>2, <2>3
  <2> QED
    BY <2>1, <2>4
<1>4. PICK s, t : s = Scan("inbox", MaxCopies) /\ t = Scan("sent", MaxCopies)
  OBVIOUS
<1>5. /\ s \in Seq(Copies) /\ t \in Seq(Copies)
      /\ \A d \in Copies : (d.folder = "inbox" => d \in ToSet(s)) /\ (d.folder = "sent" => d \in ToSet(t))
  BY <1>1, <1>2, <1>3, <1>4, ScanFacts
<1>6. cs \in Seq(Copies) /\ ToSet(cs) = ToSet(s) \cup ToSet(t)
  BY <1>4, <1>5, ToSetFacts
<1>7. \A d \in Copies : d.folder \in Folders => d \in ToSet(cs)
  BY <1>5, <1>6 DEF Folders
<1>8. c \in Copies /\ c.folder \in Folders /\ c.folder \in Boxes /\ c \in ToSet(cs) /\ IsMail(At(c))
  BY <1>1, <1>7, CopyFacts, MailFacts
<1>9. \A d \in ToSet(Thread(c.folder, At(c))) :
        d \in Copies /\ d.folder \in Folders /\ ToSet(MsgIds(At(d))) \cap ToSet(MsgIds(At(c))) # {}
  BY <1>8, ThreadFacts DEF Folders
<1>10. \A d \in ToSet(Thread(c.folder, At(c))) : d \in ToSet(cs) /\ KeyOf(cs, d) = KeyOf(cs, c)
  <2> TAKE d \in ToSet(Thread(c.folder, At(c)))
  <2>1. d \in ToSet(cs) /\ Shares(At(d), At(c))
    BY <1>7, <1>9 DEF Shares
  <2>2. \A x, y \in ToSet(cs) : Shares(At(x), At(y)) => KeyOf(cs, x) = KeyOf(cs, y)
    BY <1>6, KeyFacts
  <2> QED
    BY <1>8, <2>1, <2>2
<1>11. {d \in ToSet(cs) : KeyOf(cs, d) = KeyOf(cs, c)} \in {ToSet(q) : q \in GroupMessages(cs)}
  <2>1. KeyOf(cs, c) \in {KeyOf(cs, d) : d \in ToSet(cs)}
    BY <1>8
  <2>2. \A k \in {KeyOf(cs, d) : d \in ToSet(cs)} :
          {d \in ToSet(cs) : KeyOf(cs, d) = k} \in {ToSet(q) : q \in GroupMessages(cs)}
    BY <1>6, GroupFacts
  <2> QED
    BY <2>1, <2>2
<1>12. {c} \cup ToSet(Thread(c.folder, At(c))) \subseteq {d \in ToSet(cs) : KeyOf(cs, d) = KeyOf(cs, c)}
  BY <1>8, <1>10
<1>13. PICK g : g = {d \in ToSet(cs) : KeyOf(cs, d) = KeyOf(cs, c)}
  OBVIOUS
<1>14. g \in {ToSet(q) : q \in GroupMessages(cs)} /\ {c} \cup ToSet(Thread(c.folder, At(c))) \subseteq g
  BY <1>11, <1>12, <1>13
<1> QED
  BY <1>14

THEOREM ThreadIsWithinGroup == ConversationSpec => []ThreadWithinGroup
<1> QED
  BY MailAlways, MailWithin, PTL

-----------------------------------------------------------------------------
(* The service.                                                             *)

\* A behaviour of the service is one of the calls and one of the mail: what holds of
\* the two holds of it.
THEOREM ServiceIsBoth == ServiceSpec => Spec /\ ConversationSpec
<1>1. ServiceInit => Init /\ ConversationInit
  BY DEF ServiceInit
<1>2. [ServiceNext]_serviceVars => [Next]_vars /\ [ConversationNext]_conversationVars
  BY DEF ServiceNext, serviceVars
<1> QED
  BY <1>1, <1>2, PTL DEF ServiceSpec, Spec, ConversationSpec

\* No call acts on a mailbox that was not resolved, and what the program sends has
\* bounded references.
THEOREM ServiceTyped == ServiceSpec => []WellTyped
<1>1. TypeOK /\ ConversationTypeOK => WellTyped
  BY DEF WellTyped
<1> QED
  BY <1>1, ServiceIsBoth, AccessTyped, ConversationTyped, PTL
====

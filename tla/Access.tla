-------------------------------- MODULE Access --------------------------------
(***************************************************************************)
(* Who may do what, and what the audit log says of it: the bearer tokens   *)
(* of principal.py, the HTTP routes of server.py, the MCP tools of         *)
(* mcp_server.py, and the checks and the audit row that every method of    *)
(* services.py has around its work.                                        *)
(*                                                                         *)
(* A call comes through one of the two surfaces.  HTTP validates its form  *)
(* and delegates; MCP first asks its catalog for the scopes of the tool.   *)
(* The method then makes its own checks in its own order: those of         *)
(* CheckOrder(op) up to the last "scope" come before the _mutation block,  *)
(* the others in it, and a check that fails in it leaves an audit row.     *)
(* What the work does to the mailbox is in Sending, Folders, Checkpoints   *)
(* and DeliveryQueue; here it is a deed that succeeds, fails or does both. *)
(***************************************************************************)
EXTENDS Naturals, Sequences, FiniteSets

CONSTANTS
  Calls,
  Asked(_),          \* the requests a call may make: a subset of Request
  Tokens, ScopesOf,  \* the tokens and their scopes
  AllowedOf,         \* the mailboxes of each; Everywhere is "*"
  DryTokens,         \* those with dry_run
  DryRun,            \* send_guard.dry_run
  Configured,        \* the mailboxes, in the order of the configuration
  Idents, Logins,    \* what callers name mailboxes by; the logins of each mailbox
  WithImap, WithSmtp,
  Everywhere, None

Scopes == {"read", "draft", "organize", "send", "delete", "admin"}
Mailboxes == {Configured[i] : i \in DOMAIN Configured}
Outcomes == {"ok", "dry_run", "denied", "error"}

ASSUME AccessAssumption ==
  /\ Configured \in Seq(Mailboxes)
  /\ \A i, j \in DOMAIN Configured : Configured[i] = Configured[j] => i = j
  /\ Mailboxes \subseteq Idents /\ Logins \in [Mailboxes -> SUBSET Idents]
  /\ \E i \in Idents \ Mailboxes : \A m \in Mailboxes : i \notin Logins[m]
  /\ ScopesOf \in [Tokens -> SUBSET Scopes]
  /\ DOMAIN AllowedOf = Tokens
  /\ \A t \in Tokens : AllowedOf[t] = Everywhere \/ AllowedOf[t] \subseteq Mailboxes
  /\ None \notin Tokens \cup Idents \cup Outcomes
  /\ WithImap \cup WithSmtp = Mailboxes
  /\ DryTokens \subseteq Tokens /\ DryRun \in BOOLEAN

-----------------------------------------------------------------------------
(* The operations.  The MCP catalog gives each tool the scopes one of which *)
(* its caller needs, and says whether it changes anything.                  *)

Tool(scopes, options, mutating) ==
  [scopes |-> scopes, options |-> options, mutating |-> mutating]

ReadingTools ==
  [op \in {"inbox", "folders", "list_messages", "search", "get_message", "get_raw",
           "get_attachment", "thread", "threads"} |-> Tool({"read"}, {}, FALSE)]

OrganizingTools ==
  [op \in {"delete", "mark_seen", "set_labels", "move", "create_folder"} |->
     Tool({"organize"},
          CASE op = "delete" -> {"permanent"} [] op = "set_labels" -> {"unchanged"}
            [] OTHER -> {}, TRUE)]

ComposingTools ==
  [op \in {"identities", "send", "reply", "create_draft", "list_drafts", "update_draft",
           "delete_draft", "send_draft"} |->
     CASE op \in {"identities", "list_drafts"} -> Tool({"read"}, {}, FALSE)
       [] op = "send" -> Tool({"send"}, {"dry_run", "attached"}, TRUE)
       [] op = "send_draft" -> Tool({"send"}, {"dry_run"}, TRUE)
       [] op = "reply" -> Tool({"send", "draft"}, {"draft", "dry_run", "attached"}, TRUE)
       [] op = "delete_draft" -> Tool({"draft"}, {}, TRUE)
       [] OTHER -> Tool({"draft"}, {"attached"}, TRUE)]

AdminTools ==
  [op \in {"stats", "audit_log", "health_deep", "webhook_deliveries", "replay_webhook"} |->
     CASE op = "stats" -> Tool({"read"}, {}, FALSE)
       [] op = "replay_webhook" -> Tool({"admin"}, {}, TRUE)
       [] OTHER -> Tool({"admin"}, {}, FALSE)]

\* "mailboxes" asks for no scope: its set is empty.
Catalog(op) ==
  CASE op \in DOMAIN ReadingTools -> ReadingTools[op]
    [] op \in DOMAIN OrganizingTools -> OrganizingTools[op]
    [] op \in DOMAIN ComposingTools -> ComposingTools[op]
    [] op \in DOMAIN AdminTools -> AdminTools[op]
    [] OTHER -> Tool({}, {}, FALSE)

Operations == {"mailboxes"} \cup DOMAIN ReadingTools \cup DOMAIN OrganizingTools
                \cup DOMAIN ComposingTools \cup DOMAIN AdminTools

\* The routes of server.py: what of the method each of them lets its caller choose.
ReadingRoutes ==
  [op \in {"inbox", "folders", "list_messages", "search", "get_message", "get_raw",
           "get_attachment", "thread", "threads", "identities", "stats"} |-> {}]
AdminRoutes ==
  [op \in {"health_deep", "mailboxes", "audit_log", "webhook_deliveries",
           "replay_webhook"} |-> {}]
OrganizingRoutes ==
  [op \in {"create_folder", "delete", "mark_seen", "set_labels", "move"} |->
     CASE op = "delete" -> {"permanent"} [] op = "set_labels" -> {"unchanged"}
       [] OTHER -> {}]
ComposingRoutes ==
  [op \in {"send", "reply", "list_drafts", "create_draft", "update_draft",
           "delete_draft", "send_draft"} |->
     CASE op \in {"send", "create_draft"} -> {"dry_run", "attached"}
       [] op = "reply" -> {"draft", "dry_run", "attached"}
       [] op = "update_draft" -> {"attached"}
       [] op = "send_draft" -> {"dry_run"}
       [] OTHER -> {}]
Route(op) ==
  CASE op \in DOMAIN ReadingRoutes -> ReadingRoutes[op]
    [] op \in DOMAIN AdminRoutes -> AdminRoutes[op]
    [] op \in DOMAIN OrganizingRoutes -> OrganizingRoutes[op]
    [] op \in DOMAIN ComposingRoutes -> ComposingRoutes[op]

\* ident is what the caller names the mailbox by, None when it names none.
Options == {"permanent", "draft", "dry_run", "attached", "unchanged"}
Forms == {"fine", "malformed", "bad_uids", "oversized"}
Request == [token : Tokens \cup {None}, surface : {"http", "mcp"}, op : Operations,
            ident : Idents \cup {None}, options : SUBSET Options, form : Forms]
ASSUME AskedAssumption == \A c \in Calls : Asked(c) \subseteq Request

Selectable(r) == IF r.surface = "mcp" THEN Catalog(r.op).options ELSE Route(r.op)

-----------------------------------------------------------------------------
(* principal.py                                                            *)

Sees(t, m) == AllowedOf[t] = Everywhere \/ m \in AllowedOf[t]
Visible(t) == {m \in Mailboxes : Sees(t, m)}

\* Fault: of a name that matches it is not asked who sees it.
HitsByName(t, ident) ==
  {i \in DOMAIN Configured : \/ ident = Configured[i]
                             \/ ident \in Logins[Configured[i]] /\ Sees(t, Configured[i])}

\* resolve_mailbox: the first that has the name or the address and is visible.
Hits(t, ident) ==
  {i \in DOMAIN Configured : /\ ident = Configured[i] \/ ident \in Logins[Configured[i]]
                             /\ Sees(t, Configured[i])}
Resolve(t, ident) ==
  IF Hits(t, ident) = {} THEN None
  ELSE Configured[CHOOSE i \in Hits(t, ident) : \A j \in Hits(t, ident) : i <= j]

-----------------------------------------------------------------------------
(* services.py: the checks of each method, in their order.                 *)

\* Fault: the mailbox is not resolved before its server is used.
ReadingUnresolved(op) ==
  IF op \in {"mailboxes", "inbox"} THEN <<>> ELSE <<"scope">>

ReadingOrder(op) ==
  CASE op = "mailboxes" -> <<>>
    [] op = "inbox" -> <<"scope", "targets">>
    [] op = "identities" -> <<"mailbox", "scope", "smtp">>
    [] op \in {"get_message", "get_raw", "get_attachment"} ->
         <<"mailbox", "scope", "uids", "imap">>
    [] OTHER -> <<"mailbox", "scope", "imap">>

AdminOrder(op) ==
  CASE op = "health_deep" -> <<"scope">>
    [] op = "audit_log" -> <<"scope", "filter">>
    [] op = "webhook_deliveries" -> <<"scope", "mailbox">>
    [] OTHER -> <<"mailbox", "scope">>

OrganizingOrder(op) ==
  CASE op = "set_labels" -> <<"mailbox", "scope", "labels", "imap", "uids", "scope">>
    [] op = "create_folder" -> <<"mailbox", "imap", "scope">>
    [] OTHER -> <<"mailbox", "imap", "uids", "scope">>

ComposingOrder(op) ==
  CASE op = "send" -> <<"mailbox", "scope", "smtp", "attachments">>
    [] op = "reply" -> <<"mailbox", "imap", "uids", "scope", "smtp", "attachments">>
    [] op = "create_draft" -> <<"mailbox", "scope", "imap", "smtp", "attachments">>
    [] op = "update_draft" -> <<"mailbox", "scope", "smtp", "imap", "uids", "attachments">>
    [] op = "delete_draft" -> <<"mailbox", "imap", "uids", "scope">>
    [] OTHER -> <<"mailbox", "scope", "smtp", "imap", "uids">>

CheckOrder(op) ==
  CASE op \in {"health_deep", "audit_log", "webhook_deliveries", "replay_webhook"} ->
         AdminOrder(op)
    [] op \in {"delete", "mark_seen", "set_labels", "move", "create_folder"} ->
         OrganizingOrder(op)
    [] op \in {"send", "reply", "create_draft", "update_draft", "delete_draft",
               "send_draft"} -> ComposingOrder(op)
    [] OTHER -> ReadingOrder(op)

\* The scope the method asks for.
Needed(r) ==
  CASE r.op \in {"health_deep", "audit_log", "webhook_deliveries", "replay_webhook"} -> "admin"
    [] r.op = "delete" -> IF "permanent" \in r.options THEN "delete" ELSE "organize"
    [] r.op \in DOMAIN OrganizingRoutes \ {"delete"} -> "organize"
    [] r.op \in {"send", "send_draft"} -> "send"
    [] r.op = "reply" -> IF "draft" \in r.options THEN "draft" ELSE "send"
    [] r.op \in {"create_draft", "update_draft", "delete_draft"} -> "draft"
    [] OTHER -> "read"

\* The methods that run in a _mutation block.
Mutations == {"replay_webhook", "delete", "mark_seen", "set_labels", "move", "create_folder",
              "send", "reply", "create_draft", "update_draft", "delete_draft", "send_draft"}

Target(r) == Resolve(r.token, r.ident)

\* inbox without a mailbox reads every visible one; those without IMAP are left out.
Targets(r) == (IF r.ident = None THEN Visible(r.token) ELSE {Target(r)}) \cap WithImap

Passes(check, r) ==
  CASE check = "mailbox" -> Target(r) # None
    [] check = "targets" -> Targets(r) # {}
    [] check = "filter" -> r.ident = None \/ Target(r) # None
    [] check = "scope" -> Needed(r) \in ScopesOf[r.token]
    [] check = "imap" -> Target(r) \in WithImap
    [] check = "smtp" -> Target(r) \in WithSmtp
    [] check = "uids" -> r.form # "bad_uids"
    [] check = "labels" -> "unchanged" \notin r.options
    [] check = "attachments" -> "attached" \in r.options => "read" \in ScopesOf[r.token]

CodeOf(check) ==
  CASE check \in {"mailbox", "targets", "filter"} -> "not_found"
    [] check \in {"scope", "attachments"} -> "permission_denied"
    [] check \in {"imap", "smtp"} -> "conflict"
    [] OTHER -> "validation_error"

Indexes(op, check) == {i \in DOMAIN CheckOrder(op) : CheckOrder(op)[i] = check}
Failing(r) == {i \in DOMAIN CheckOrder(r.op) : ~ Passes(CheckOrder(r.op)[i], r)}
FirstFailing(r) == CHOOSE i \in Failing(r) : \A j \in Failing(r) : i <= j

\* Fault: only the _mutation block leaves rows, as if nothing were checked before it.
AuditedInBlock(op, i) ==
  op \in Mutations /\ \A j \in Indexes(op, "scope") : j <= i

\* A refused scope is audited, and so is all that fails in the _mutation block.
Audited(op, i) ==
  /\ op \in Mutations
  /\ \/ CheckOrder(op)[i] = "scope"
     \/ \A j \in Indexes(op, "scope") : j < i

\* What the method answers without working, and the outcome its row would have.
Refusal(code, outcome) == [code |-> code, outcome |-> outcome]
Works == Refusal("work", None)
ServiceVerdict(r) ==
  IF Failing(r) = {} THEN Works
  ELSE LET i == FirstFailing(r)
           code == CodeOf(CheckOrder(r.op)[i])
       IN Refusal(code, IF ~ Audited(r.op, i) THEN None
                        ELSE IF code = "permission_denied" THEN "denied" ELSE "error")

-----------------------------------------------------------------------------
(* The surfaces.                                                           *)

\* _check_scopes of mcp_server.py.
ToolAllowed(op, t) ==
  Catalog(op).scopes = {} \/ Catalog(op).scopes \cap ScopesOf[t] # {}
\* Fault: a reply is not asked whether it is one to send.
ToolRefusedByName(r) ==
  \/ ~ ToolAllowed(r.op, r.token)
  \/ /\ r.op = "delete" /\ "permanent" \in r.options
     /\ "delete" \notin ScopesOf[r.token]

ToolRefused(r) ==
  \/ ~ ToolAllowed(r.op, r.token)
  \/ /\ r.op = "delete" /\ "permanent" \in r.options
     /\ "delete" \notin ScopesOf[r.token]
  \/ /\ r.op = "reply" /\ "draft" \notin r.options
     /\ "send" \notin ScopesOf[r.token]

\* Before Service: the MCP scopes come before its schema.
FrontVerdict(r) ==
  IF r.form = "oversized" THEN Refusal("too_large", None)
  ELSE IF r.surface = "mcp" /\ ToolRefused(r)
  THEN Refusal("permission_denied", IF Catalog(r.op).mutating THEN "denied" ELSE None)
  ELSE IF r.form = "malformed" THEN Refusal("validation_error", None)
  ELSE Works

Verdict(r) == IF FrontVerdict(r) = Works THEN ServiceVerdict(r) ELSE FrontVerdict(r)

-----------------------------------------------------------------------------
VARIABLES
  pc,        \* where each call is
  call,      \* its request, or None
  answer,    \* the code it is answered with, or will be once audited
  outcome,   \* the outcome of the row it is about to write
  audit,     \* the table audit
  \* history
  deeds      \* what each call did and showed: the kind of it, and the mailbox
vars == <<pc, call, answer, outcome, audit, deeds>>

Init ==
  /\ pc = [c \in Calls |-> "new"]
  /\ call = [c \in Calls |-> None]
  /\ answer = [c \in Calls |-> None]
  /\ outcome = [c \in Calls |-> None]
  /\ audit = <<>>
  /\ deeds = [c \in Calls |-> {}]

Goto(c, place) == pc' = [pc EXCEPT ![c] = place]
Answer(c, code) == answer' = [answer EXCEPT ![c] = code]
Leave(c, code, out) ==
  /\ Answer(c, code)
  /\ outcome' = [outcome EXCEPT ![c] = out]
  /\ Goto(c, IF out = None THEN "done" ELSE "auditing")

\* The request arrives; without a token that is configured it goes no further.
Receive(c) ==
  /\ pc[c] = "new"
  /\ \E r \in Asked(c) :
       /\ r.options \subseteq Selectable(r)
       /\ call' = [call EXCEPT ![c] = r]
       /\ IF r.token = None THEN Leave(c, "unauthorized", None)
          ELSE Goto(c, "front") /\ UNCHANGED <<answer, outcome>>
  /\ UNCHANGED <<audit, deeds>>

PassFront(c) ==
  /\ pc[c] = "front"
  /\ LET v == FrontVerdict(call[c])
     IN IF v = Works THEN Goto(c, "service") /\ UNCHANGED <<answer, outcome>>
        ELSE Leave(c, v.code, v.outcome)
  /\ UNCHANGED <<call, audit, deeds>>

PassChecks(c) ==
  /\ pc[c] = "service"
  /\ LET v == ServiceVerdict(call[c])
     IN IF v = Works THEN Goto(c, "working") /\ UNCHANGED <<answer, outcome>>
        ELSE Leave(c, v.code, v.outcome)
  /\ UNCHANGED <<call, audit, deeds>>

Dry(r) == DryRun \/ r.token \in DryTokens \/ "dry_run" \in r.options
Sends(r) == r.op \in {"send", "send_draft"} \/ (r.op = "reply" /\ "draft" \notin r.options)

\* Fault: the filter of the call replaces that of the token.
ListedAsAsked(r) == {i \in DOMAIN audit : r.ident # None => audit[i].mailbox = Target(r)}

\* list_audit: a restricted token gets the rows that name one of its mailboxes.
Listed(r) ==
  {i \in DOMAIN audit :
     /\ AllowedOf[r.token] # Everywhere => audit[i].mailbox \in AllowedOf[r.token]
     /\ r.ident # None => audit[i].mailbox = Target(r)}

\* What the work does to which mailbox, and shows of it: the scope it is a matter of, or
\* "list" (that the mailbox is there), or "own" (the message a call answers or sends).
Kinds == Scopes \cup {"list", "own"}
Deed(scope, m) == [scope |-> scope, mailbox |-> m]
DeedsOf(r) ==
  CASE r.op = "mailboxes" -> {Deed("list", m) : m \in Visible(r.token)}
    [] r.op = "inbox" -> {Deed("read", m) : m \in Targets(r)}
    [] r.op = "health_deep" -> {Deed("admin", m) : m \in Visible(r.token)}
    [] r.op = "audit_log" ->
         {Deed("admin", audit[i].mailbox) : i \in Listed(r)} \ {Deed("admin", None)}
    [] r.op = "delete" ->
         {Deed(IF "permanent" \in r.options THEN "delete" ELSE "organize", Target(r))}
    [] Sends(r) -> IF Dry(r) THEN {} ELSE {Deed("send", Target(r))}
    [] r.op \in {"create_draft", "update_draft", "delete_draft", "reply"} /\ ~ Sends(r) ->
         {Deed("draft", Target(r))}
    [] r.op \in DOMAIN OrganizingTools \ {"delete"} -> {Deed("organize", Target(r))}
    [] r.op \in {"replay_webhook", "webhook_deliveries"} -> {Deed("admin", Target(r))}
    [] OTHER -> {Deed("read", Target(r))}
AttachedDeed(r) ==
  IF "attached" \in r.options /\ r.op \in {"send", "reply", "create_draft", "update_draft"}
  THEN {Deed("read", Target(r))} ELSE {}

\* The message that a reply answers, and the draft that is sent or edited, is read
\* without the scope read: a reply quotes it, a dry run shows its text (_preview).
OwnDeed(r) ==
  IF r.op \in {"reply", "send_draft", "update_draft"} THEN {Deed("own", Target(r))} ELSE {}

Work(r) == DeedsOf(r) \cup AttachedDeed(r) \cup OwnDeed(r)

\* The work is done; a mutation goes on to its row.
Succeed(c) ==
  /\ pc[c] = "working"
  /\ deeds' = [deeds EXCEPT ![c] = Work(call[c])]
  /\ Leave(c, "ok", IF call[c].op \notin Mutations THEN None
                    ELSE IF Sends(call[c]) /\ Dry(call[c]) THEN "dry_run" ELSE "ok")
  /\ UNCHANGED <<call, audit>>

\* It fails, before, after or in the middle of what it does.
Fail(c) ==
  /\ pc[c] = "working"
  /\ \E done \in SUBSET Work(call[c]) : deeds' = [deeds EXCEPT ![c] = done]
  /\ Leave(c, "failed", IF call[c].op \in Mutations THEN "error" ELSE None)
  /\ UNCHANGED <<call, audit>>

\* A refusal of the MCP layer has the mailbox as the caller wrote it.
RowOf(c) ==
  LET r == call[c]
      front == FrontVerdict(r) # Works
  IN [call |-> c, token |-> r.token, action |-> r.op, outcome |-> outcome[c],
      mailbox |-> IF front THEN r.ident ELSE Target(r)]

WriteRow(c) ==
  /\ pc[c] = "auditing"
  /\ audit' = Append(audit, RowOf(c))
  /\ Goto(c, "done")
  /\ UNCHANGED <<call, answer, outcome, deeds>>

\* The store cannot be written: its exception replaces the answer.
WriteFails(c) ==
  /\ pc[c] = "auditing"
  /\ Answer(c, "internal_error") /\ Goto(c, "done")
  /\ UNCHANGED <<call, outcome, audit, deeds>>

Crash(c) ==
  /\ pc[c] \in {"front", "service", "working", "auditing"}
  /\ Answer(c, "lost") /\ Goto(c, "done")
  /\ IF pc[c] = "working"
     THEN \E done \in SUBSET Work(call[c]) : deeds' = [deeds EXCEPT ![c] = done]
     ELSE UNCHANGED deeds
  /\ UNCHANGED <<call, outcome, audit>>

Next ==
  \E c \in Calls :
    \/ Receive(c) \/ PassFront(c) \/ PassChecks(c)
    \/ Succeed(c) \/ Fail(c) \/ WriteRow(c) \/ WriteFails(c) \/ Crash(c)

Spec == Init /\ [][Next]_vars

-----------------------------------------------------------------------------
(* Properties.                                                             *)

Places == {"new", "front", "service", "working", "auditing", "done"}
Codes == {"unauthorized", "too_large", "permission_denied", "validation_error", "not_found",
          "conflict", "ok", "failed", "internal_error", "lost"}

TypeOK ==
  /\ pc \in [Calls -> Places]
  /\ \A c \in Calls : call[c] \in Request \/ (call[c] = None /\ pc[c] = "new")
  /\ answer \in [Calls -> Codes \cup {None}]
  /\ outcome \in [Calls -> Outcomes \cup {None}]
  /\ \A i \in DOMAIN audit : audit[i].call \in Calls /\ audit[i].outcome # None
  /\ deeds \in [Calls -> SUBSET [scope : Kinds, mailbox : Mailboxes \cup Idents]]

\* What docs/configuration.md demands for a deed of a call: the scope it is a matter
\* of.  For the one message that a call answers, sends or edits that is the scope of
\* this call, and not read.
Demanded(r, d) ==
  IF d.scope # "own" THEN d.scope
  ELSE IF r.op = "update_draft" \/ (r.op = "reply" /\ "draft" \in r.options) THEN "draft"
  ELSE "send"

(***************************************************************************)
(* Whatever a call did to a mailbox, and whatever of a mailbox it showed,  *)
(* its token sees that mailbox and holds the scope that is demanded for    *)
(* it: by every route and tool, with every option, in a dry run, when it   *)
(* fails halfway, and for what an administrator reads in the audit log.    *)
(* So a token that may send reads no mail but the message it answers and   *)
(* the draft it sends, and one that may draft only the message it answers  *)
(* and the draft it edits; attachments of other messages take read.        *)
(***************************************************************************)
Authorised ==
  \A c \in Calls : \A d \in deeds[c] :
    /\ Sees(call[c].token, d.mailbox)
    /\ d.scope = "list" \/ Demanded(call[c], d) \in ScopesOf[call[c].token]

Rows(c) == {i \in DOMAIN audit : audit[i].call = c}
Changed(c) == \E d \in deeds[c] : d.scope \in {"draft", "organize", "send", "delete"}

(***************************************************************************)
(* The audit log tells all (docs/api.md, "Audit"): who was told that the   *)
(* change is done has one row that says so, or one that says it was a dry  *)
(* run that sent nothing; a change that is denied has one row "denied",    *)
(* whichever layer denied it, and did nothing; and only a crash or a store *)
(* that cannot be written leaves a change without a row.                   *)
(***************************************************************************)
AuditTellsAll ==
  \A c \in Calls : pc[c] = "done" =>
    /\ Cardinality(Rows(c)) <= 1
    /\ \A i \in Rows(c) :
         /\ audit[i].outcome = "denied" <=> answer[c] = "permission_denied"
         /\ audit[i].outcome \in {"denied", "dry_run"} => ~ \E d \in deeds[c] : d.scope = "send"
         /\ audit[i].outcome = "denied" => deeds[c] = {}
    /\ (call[c].op \in Mutations /\ answer[c] \in {"ok", "permission_denied"}) => Rows(c) # {}
    /\ (Changed(c) /\ Rows(c) = {}) => answer[c] \in {"lost", "internal_error"}

(***************************************************************************)
(* A hidden mailbox is indistinguishable from a missing one (docs/api.md): *)
(* a call that names one its token does not see, by its name or a login,   *)
(* is answered and audited as the same call with a name nobody has.        *)
(***************************************************************************)
Named(ident) == {m \in Mailboxes : ident = m \/ ident \in Logins[m]}
Nobody == CHOOSE i \in Idents : Named(i) = {}
HiddenLooksMissing ==
  \A c \in Calls :
    LET r == call[c]
    IN (pc[c] # "new" /\ r.token # None /\ r.ident # None
          /\ Named(r.ident) \cap Visible(r.token) = {})
         => Verdict(r) = Verdict([r EXCEPT !.ident = Nobody])

(***************************************************************************)
(* The tools do what the routes do: with the same token and arguments the  *)
(* one surface works exactly when the other does, except that MCP has no   *)
(* permanent deletion for a token without the scope organize.  And the     *)
(* arguments that tools/list offers a token are those MCP does not refuse. *)
(***************************************************************************)
OnHttp(r) == [r EXCEPT !.surface = "http"]
Offered(r) ==
  /\ ToolAllowed(r.op, r.token)
  /\ r.op = "delete" /\ "delete" \notin ScopesOf[r.token] => "permanent" \notin r.options
  /\ r.op = "reply" /\ "send" \notin ScopesOf[r.token] => "draft" \in r.options
SurfacesAgree ==
  \A c \in Calls :
    LET r == call[c]
    IN (pc[c] # "new" /\ r.token # None /\ r.surface = "mcp") =>
         /\ Verdict(r) = Works => Verdict(OnHttp(r)) = Works
         /\ Verdict(OnHttp(r)) = Works =>
              \/ Verdict(r) = Works
              \/ r.op = "delete" /\ "organize" \notin ScopesOf[r.token]
         /\ Offered(r) <=> ~ ToolRefused(r)
=============================================================================

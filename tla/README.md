# mailboxd in TLA+

mailboxd gives programs and agents access to mailboxes over HTTP and MCP: it
reads and organises mail through IMAP, sends through SMTP, and notifies webhooks
of new mail. It keeps no mail itself. What it keeps is one SQLite database that
all HTTP workers and the `mailboxd watch` process share, and what makes it hard is
what happens between that database, the IMAP server, the SMTP server and the
receivers of webhooks, none of which takes part in a common transaction.

This directory holds TLA+ modules of those protocols, TLC runs on small
instances, and proofs about every instance. Paths like `state.py:215` are relative
to `src/mailboxd/`; docs and tests are named from the root of the repository.

1. Inventory: the parts of the system
2. The modules, and how they correspond to the code
3. The runs, their bounds, and what they show
4. Fairness
5. What is proved, and how
6. Where the code and its documentation disagree
7. What is not modelled, and the plan

## 1. Inventory

Shared state: the SQLite database (`state.py`: tables `audit`, `send_log`,
`cursors`, `draft_sends`, `deliveries`, `watchers`), with one connection per
operation, `BEGIN IMMEDIATE` and a busy timeout of 10 s; the IMAP server, which
other clients and the mail transport change at any time; SMTP servers and webhook
receivers, which answer or do not.

| Component | State it keeps | Operations | Interacts with | Correct when |
| --- | --- | --- | --- | --- |
| **Webhook delivery queue** (`state.py:180-280`, `watch.py:67-194`) | `deliveries`: status, attempts, next_attempt, lease, lease_until | insert, claim, POST, finish, replay, list | discovery fills it; receivers; administrators replay | at least once; nobody's late answer settles a row; the schedule is kept; every row ends delivered or dead |
| **New-mail discovery** (`watch.py:134-300`) | the watch cursor; per thread the selected UIDVALIDITY, last UID, batch | connect, select, baseline, search, fetch header, enqueue, IDLE, poll | IMAP server; queue | no mail skipped, no history announced, everything announced in the end |
| **Watch supervision** (`watch.py:307-348`, `state.py` watchers, `cli.py`) | threads, the event stop, heartbeat rows | start, heartbeat, leave on a dead thread or a signal, join, health check | supervisor of the container; the database's start | a dead thread ends the process; healthy means watched; a watcher that runs is never found dead |
| **Send quota** (`state.py:370-417`) | `send_log` | check and record in one transaction | every send | never more admitted than the limit |
| **Sending pipeline** (`services.py:821-942`, `1125-1171`) | `draft_sends`; the call's own progress | send, reply, send_draft, dry run | quota, SMTP, Sent, original, Drafts | a draft sent at most once, no refusal costs a draft, no draft lost, warnings complete |
| **Read checkpoints** (`services.py:220-475`) | `cursors` of named checkpoints | inbox, search with checkpoint or since_cursor | search_page | new mail skips nothing |
| **Paging and search** (`imap_client.py:640-720`) | none | search_page up and down, unified_search | IMAP | adjoining pages |
| **Draft editing** (`services.py:979-1124`) | none of its own | create, update (append, then remove the old one), delete | Drafts folder, sending pipeline | an edit loses no text |
| **Organising mail** (`services.py`, `imap_client.py:420-460`) | none | delete, move, flags, labels, folders | IMAP | nothing is expunged that was not named |
| **IMAP session** (`imap_client.py:110-480`) | selected folder, capabilities, literal limit | connect, select, search, fetch, store, append | IMAP | write commands only in a folder selected for writing |
| **Access control** (`principal.py`, `services.py`, `server.py`, `mcp_server.py`) | none | authenticate, resolve mailbox, require scope, refuse, on both surfaces | everything | nothing done or shown beyond the token; both surfaces refuse the same; hidden looks missing |
| **Audit log** (`services.py:149-176`, `state.py`) | `audit` | append, query | every mutation | one row per mutation with its outcome, and no secret read through it |
| **State schema** (`state.py:109-160`) | `user_version`, the tables, `_ready` of each process | WAL, migrations | all processes and threads at their first use | each step once, in order; nobody works on tables it does not know |
| **Replies and composition** (`compose.py`) | none | recipients of a reply, identity, references, signature, MIME | sending, drafts | never replies to itself, leaves nobody out |
| **Conversation grouping** (`insights.py`) | none | thread of a message, groups of the newest messages | inbox views, callers that look before they answer | the groups are the conversations; answers are seen |
| **Authentication verdicts** (`mime.py`) | none | signals from Authentication-Results | messages, webhooks | fails closed |
| **HTTP, MCP, schemas, configuration, CLI, errors** | none after start | routing, serialisation, validation | Service | see Access control |

What is hard here, besides the database: a worker acts on a reading of the clock, a
cursor or a UIDVALIDITY that is old by the time it is used; a process dies between
an effect outside (POST, SMTP, APPEND) and the row that records it; leases lapse
while their holder is still at work; calls of several clients and workers
interleave at each IMAP session and each transaction; the IMAP server may
renumber a folder between any two commands. `PROJECT.json` lists these hazards
one by one at their lines, with the property that covers each, or why none does.

## 2. The modules

| Module | Models | Proofs |
| --- | --- | --- |
| `WebhookPromise` | abstract: what the queue promises per notification | |
| `DeliveryQueue` | the delivery queue; implements `WebhookPromise` | `DeliveryQueueProofs` |
| `WatchDiscovery` | the discovery threads, the folder, the watch cursor | `WatchDiscoveryProofs` |
| `Sending` | send, reply, send_draft and `_deliver` | `SendingProofs` |
| `RateLimit` | `check_and_record_send` | `RateLimitProofs` |
| `Folders` | delete, move and the drafts' operations as sequences of IMAP commands | `FoldersProofs` |
| `SearchPage` | `search_page` as a function of what a session finds | |
| `Checkpoints` | inbox/search with a named checkpoint; uses `SearchPage` | `CheckpointsProofs` |
| `Startup` | the database's opening and migration by threads of processes of different releases | `WatchSupervisionProofs` |
| `WatchSupervision` | the process `mailboxd watch` and `watch-health`; composed with `Startup`, whose steps its threads take | `WatchSupervisionProofs` |
| `Access` | a call from its route or tool to its audit row, for every operation | `ServiceProofs` |
| `Conversation` | replies and what finds a conversation again | `ServiceProofs` |
| `Service` | a behaviour of `Access` or one of `Conversation`, in one specification | `ServiceProofs` |

`MC*` modules hold the definitions (schedules, symmetry sets) that the `.cfg` files
refer to. An action is one atomic step of the code: one transaction, one command
to a server, or one step of a thread that others can see. Where steps of others
cannot come in between, or would make no difference, code is in one action.
Definitions that a comment introduces as *Fault* are not part of a model: each is
a plausible bug in the definition after it, and a property of the model must
fail if it takes that definition's place.

**DeliveryQueue.** `status, attempts, next_attempt, lease_until, lease` are the
columns. A worker goes from `idle` to `claiming` (`BeginClaim`: `now` is read
before `BEGIN IMMEDIATE`), `posting` (`ClaimDelivery`, one transaction), `finishing`
(`PostAccepted`, `PostFailed`) and back (`FinishDelivery`, or `FinishStale` when the
guarded UPDATE matches nothing). `PostRaises` is the exception nobody catches,
`Abort` a failed transaction or a kill; both give the worker up and start it again.
Times are distances from the present, so `Tick` needs no clock and no bound; `age`
is how old a worker's reading of the clock is. `received`, `failures` and `quiet`
are history for the properties. The abstract `WebhookPromise` has neither clock nor
worker nor lease; the refinement mapping is `PromiseOf(status)`, `received`,
`attempts`.

**WatchDiscovery.** One thread per watched mailbox: `Connect`, `Current` (SELECT and
SEARCH), `Resume` or `StartFromNow` and `SetCursor` (`check_folder`), `SearchNew`,
`FetchHeader`, `EnqueueNotifications` (rows and cursor, one transaction), then
IDLE: `IdleWake`, `Reissue`, `Disconnect`, `CloseInIdle`. `told` is what the server has
announced to the session: an announcement that came along with the answer to
another command is not repeated in IDLE, and only the reissue finds the message.
The folder is external: `Arrive`, `Expunge`, `Renumber`. The rows of a message are in
`queued` as the message itself, since the event identifier is a hash of mailbox,
folder, UIDVALIDITY and UID.

**Sending.** `ready -> claiming -> sending -> filing -> answering -> removing -> done`
is the order of `_deliver`: quota, claim of the draft, SMTP, copy in Sent, `\Answered`,
removal of the draft. Every step can fail in the way its own `except` clause or the lack of one
makes it fail. `Crash` may come anywhere. A retry by a client is another request. There are two folders, `folder` (Drafts) and `inbox`
(that of the messages answered), which others change at any time: a call reads its draft (`ReadDraft`) and its original (`FindOriginal`) in
one session and works on their UIDs in a later one, which does not compare the UIDVALIDITY (`Removed`, `Marked`). `mailed` means that
SMTP took the mail for one recipient or more.
`RateLimit` refines the quota, which here is a set of rows that leave at any time.

**RateLimit.** `Begin` reads the clock, `Admit`/`Refuse` are the transaction under
the lock, up to `LockWait` later, which deletes and counts by the old reading.

**Folders.** `mail` is each folder's messages by UID, and an action is one IMAP command. A call
starts with its SELECT (`Move`, `Delete`, `DeletePermanent`, `DeleteDraft`, `ReadDraft`) and then does
`MoveMessages` where the server has MOVE, else `CopyMessages`, `StoreDeleted`, `ExpungeUids`; an edit does
`AppendDraft`, `Reselect` in a second session, `StoreDeleted`, `ExpungeUids`. `caps` is any set of the two
capabilities the code asks for. `Fail` is a command that fails, a broken connection, a session whose folder was
renumbered or a dead worker; the server may have obeyed, in part. Other clients flag (`FlagDeleted`), expunge
whole folders (`ExpungeAll`) and the server renumbers. `condemned` has the messages that somebody named for
removal or that an edit has replaced; `misled` the edits whose second SELECT found Drafts renumbered, and `mistaken` the texts they then flag or
remove, because their UID means another draft by then or comes to mean one between two of their commands. Copies of a message are told from other messages by `text`.

**SearchPage, Checkpoints.** `Following` and `Listing` are the two directions of
`search_page`: page, `next_after`, `next_before`. The code's chunks of 200 UIDs are
left out, since stopping inside a chunk leads to the same page and position. In `Checkpoints` a call
reads the cursor, asks in one session (`SearchNewest`, `SearchAfter`), in a second one if
the numbering is not that of its position (`FindRenumbered`, `SearchAgain`), and
stores what it got without a comparison (`SetCursor`). `Fail` may come anywhere before. `given` counts a page as
given when its position is stored: whether the answer then reaches the client is
outside (see section 6).

**Startup.** A thread goes from `idle` to `using` (`Call`) when its process is `ready`, else through `Lock` (the
`threading.Lock` of `_ensure`, and `_ready` read again), `Open` (file, WAL mode), `BeginImmediate`, `AcceptVersion` or
`RejectVersion`, one `Migrate` per step of the schema, `Commit` and `MarkReady`. `staged` is the open transaction,
`applied` what the tables have been through; `FailToOpen` and `Vanish` roll it back. Each process has its own `Schema`: a
deployment overlaps with the one before it.

**WatchSupervision.** `phase` is where the main thread is in `run`: `polling`, the two statements of a heartbeat
(`StartBeat`, `DeleteOld`, `Insert`), `joining`, `removing`, `down`. Every one of these statements, and the other threads', opens the database
as `Startup` says (`Call`, `Ensure`, `Return`). `ThreadDies`, `Terminate`, `BeatFails`, `RemoveFails` and `Kill` may come
anywhere; `Launch` is the supervisor's restart. Time stamps are ages: `row` that of a process's heartbeat, `left` that of the youngest one
a dead process left behind, `stamp` that of the time an INSERT carries. `sound` is history: how long
ago a main thread found all its threads alive.

**Access.** A call has a token, a surface, an operation, the name of a mailbox, options and a form (fine, malformed, too
large, with a bad argument). HTTP (`Receive`) authenticates and validates; MCP first asks its catalog for the tool's scopes
(`ToolAllowed`, `ToolRefused`). `CheckOrder(op)` lists the checks of each method of `services.py` in their order: those up to the last scope check are
made before the `_mutation` block and leave no row, the others leave one. Then the work is a set of deeds, each a scope and a mailbox
(`Work`): what the operation is for (`DeedsOf`), reading for attachments of other messages (`AttachedDeed`), and reading the one
message that is answered, sent or edited, which a quote or a preview shows also in a dry run (`OwnDeed`). The work succeeds (`Succeed`), fails after some of
them (`Fail`), writes its row (`WriteRow`, `WriteFails`), or dies (`Crash`).
The row and the deeds are what the properties are about; the deeds themselves are in `Sending`, `Folders`,
`Checkpoints` and `DeliveryQueue`. Which scope a deed takes is what `docs/configuration.md` says, not what the code checks (`Demanded`); for the one message of a call that is the
scope of the call.

**Conversation.** Messages arrive (`Arrive`) from clients that set References and In-Reply-To well, badly or not at all; `Reply` answers
one as `reply_fields` and `_reply_identity` say; its copy is filed in Sent or, without `save_sent` or after a `sent_copy_failed`, nowhere
(`box["unfiled"]`); `Echo` delivers what was sent to oneself.
`Thread` is the search of `thread` for one message, `GroupMessages` the union-find of `threads`. The loops over lists are
folds (`Kept`, `Firsts`, `Distinct`, `UnionAll`), so that they can be reasoned about. Ids are numbers, `Lost`
one of a message that is in neither folder.

**Service** puts `Access` and `Conversation` into one specification, which `service_calls` checks. They share no state: a behaviour is one of
either (`part`).

## 3. The runs

| Run | Instance | Shows |
| --- | --- | --- |
| `queue_slow` | 2 rows, 2 workers, retries after 1 and 3, lease 2, POST up to 3, lock wait 1 | attempts outlive their lease: bookkeeping, schedule, `OnlyHolderSettles`, `Backoff`, and `KeepsPromise` (the refinement) hold all the same |
| `queue_live` | 2 rows, 2 workers, one retry, lease 4 > 1+1+1 | with a lease that covers the attempt, never two senders (`ExclusivePosting`); every row is settled in the end |
| `queue_poison` | 1 row, answers that are not HTTP | **violated**: `EventuallySettled` |
| `discovery_watch` | 2 watchers, 3 UIDs, 1 renumbering, empty state volume; the second watcher overlaps the first only after that one stored a position, and not while the folder is renumbered | `NeverSkips`, `NoHistoryReplayed`, `OnlyForward`, and every later message is queued in the end though only the first watcher has to keep running |
| `discovery_closed` | as `discovery_watch`, server may close in IDLE | **violated**: `EventuallyQueued` |
| `send_race` | 2 calls, 2 drafts, 1 original and other mail beside it, quota 1, 1 renumbering of either folder, copy in Sent | `DraftSentOnce`, `ClaimMeansAttempt`, `SilentSuccessIsComplete` through the whole pipeline, and `OnlyRenumberingHitsOthers` |
| `send_renumbered` | 2 calls, 2 drafts, 1 renumbering | **violated**: `DraftKeptUntilSent` |
| `folders_kept` | 2 calls, trash and drafts, 2 texts, 2 UIDs per folder, drafts renumbered once, any capabilities | `NothingLost`; with MOVE also `NeverDoubled` |
| `quota_capped` | 4 calls, 2 mailboxes, 3 tokens, limits 2 and 1, window 3, lock wait 1, 5 ticks | `CappedPerWindow` |
| `lifecycle` | a watcher of release 1 and an HTTP worker of release 2, 2 threads in the watcher, databases of versions 0 and 3, `MAX_AGE` 4, lock wait 1 | `MigratedOnce`, `NoUseBeforeSchema`, `HealthMeansWatched`, `NoFalseAlarm`; `DeadThreadEndsProcess` and `Recovers` |
| `service_calls` | 3 mailboxes of which two share a login, 9 tokens, every operation, form and surface, with up to 3 options; one call works, the other reads the audit log at any moment; 4 messages of 2 subjects | `Authorised`, `AuditTellsAll`, `HiddenLooksMissing`, `SurfacesAgree`; `ReachesPeople`, `AnswersAreSeen`, `GroupsAreConversations`, `ThreadWithinGroup` |
| `checkpoint_race` | 2 callers, 2 UIDs, 1 renumbering, page of 1 | `NeverSkips`, `OnlyOvertakenGoBack`, `PagesAdjoin`, `EventuallyGiven` |

*Why the bounds are enough to be interesting.* Two workers are what it takes for a late
one; a lease of 2 and a POST of 3 let the lease lapse in the POST, with the other
worker claiming, finishing or an administrator replaying meanwhile; retries of
different lengths show an index that is off by one. The real values (lease 60 s,
lock wait 10 s, retries of 30 s to 12 h) are an instance with
`LeaseSeconds > LockWait + MaxPost + LockWait` only as long as an attempt takes less than 40 s.
`WEBHOOK_TIMEOUT` (10 s) bounds each wait on the socket and not the attempt, so both sides
are checked. Three UIDs allow a batch of two, a deletion in the middle and an arrival during the
batch; two UIDVALIDITY values make a renumbering under an open session and between two sessions.
Two calls for a quota of one are a send and its competitor, which the claim or the quota refuses, and the quota
has room again when the first one's row expires. One original and one renumbering of its folder are what it takes to find it gone, found
again at its UID, or another message there. Two calls on two folders are a move
and a deletion, or an edit and a deletion, of the same message; two UIDs hold two messages or a message and its
copy, and an edit of a draft beside another one takes them all. With pages of one
message every position is a page boundary. Four calls are one more than the larger limit
can admit together with one for the other mailbox, with three tokens the mailbox's limit refuses where the token's would not and the other way round, and five ticks are longer than window
and lock wait together. A watcher and a worker are two processes on one
database, of different releases, so that one migrates, waits or finds the other's version; version 3 is newer than both. A `MAX_AGE` of 4 is what one
heartbeat and three waits add up to: one tick less and `NoFalseAlarm` fails, for the lock waits are used up in `Startup`, in DELETE and in INSERT. In
`service_calls` the mailbox `a` has both servers, `b` only IMAP, `s` only SMTP, and the tokens are those of
`docs/configuration.md` and the ones that separate two scopes; calls meet in the audit log only, and one that reads it beside one that
writes it is enough. Four messages are a question, an answer, an answer to that and an echo; references are cut at 2 instead of 20 and
hits at 2 instead of 200, so that both cuts happen; only who answers the first message may name the sender to answer as. The UIDs, the values of UIDVALIDITY, the messages (`MaxCopies`) and the clock of
`RateLimit` are bounded by `MaxUid`, `MaxValidity`, `MaxCopies`, `MaxClock` in the guards;
`attempts` and `failures` saturate past the schedule, `quiet` at the longest delay.
Deadlock is checked where the system goes on for ever; in `Sending`, `RateLimit`, `Folders` and `Access`
each call is made once, and in `Conversation` the mail is bounded, so the runs end.

*What the subtle properties say.* `ClaimMeansAttempt`: a draft that could not be sent
because of the quota, a conflict or a dry run can still be sent later; only an
attempt at SMTP, or a call that was lost on the way, spends its claim (and
`no_recipients`, a refusal that comes after the claim: `smtp_client.py:41`).
`OnlyRenumberingHitsOthers`: what `send_renumbered` refutes holds but for that one cause, and a message is flagged `\Answered` only by a call
that answered it and whose mail has left, with the same exception.
`NothingLost`: however calls race and fail, a message that nobody asked to be rid of is in some folder; it may be
there twice. `SilentSuccessIsComplete`: `ok` without a warning means mail accepted for one recipient at least, copy filed, draft gone, and original
flagged unless it is no longer where the call had read it: then nothing is flagged, or another message, and there is no warning (section 6).
`Authorised`: whatever a call does to a mailbox or shows of it is a matter of a scope its token has, so a token with `send` alone sees no mail but the
message it answers and the draft it sends. `OnlyOvertakenGoBack`: since `set_cursor` does not compare, a
checkpoint can move back, but only by a call that another one overtook, and mail is
then given twice, never passed over. `NeverSkips` of `WatchDiscovery` holds for one watcher always, and for two that overlap
only once the first has stored its position and while the folder keeps its numbering: that is what `OverlapSpec` of
`MCWatchDiscovery` says, and section 6 what happens otherwise. The documentation tells operators to run one (`docs/api.md:199`).
`NeverDoubled`: with MOVE no message is ever in two places, through failures, retries and races; without it a retry makes another copy.
`HealthMeansWatched`: a fresh heartbeat was written by a process that had all its threads alive shortly before, not by one that was
about to find one dead. `Recovers`: after the last trouble, `watch-health` is soon and for good right. `AuditTellsAll`: who was told
that a change is done has its one row, a denied one has its row "denied" whichever layer refused, and a change without a row means a crash
or a store that cannot be written. `HiddenLooksMissing` compares a whole verdict, code and audit outcome, with that for a name nobody has.
`AnswersAreSeen` is about callers that look before they answer. They see the answers of which the mailbox has a copy, in Sent or echoed: in the thread but
for the two cuts, and in the groups of `threads`, cut or not, whenever it reads both messages. An answer without a copy nobody sees.

## 4. Fairness

`DeliveryQueue`, `Calm`: time passes, and every delivery thread takes its next step
sooner or later (the loop polls every second; a lost thread is started again by the
supervisor); transactions stop failing and administrators stop replaying.
`FairSpec` adds that threads stop being killed in a POST; `PoisonSpec` does not, since
a receiver that always answers nonsense does exactly that. `WatchDiscovery`, `Calm`:
a watcher takes its next step (IDLE is reissued after 25 minutes, polling after
`poll_seconds`, reconnection with a capped backoff), and connections stop breaking. `NoCloseSpec`
excludes the orderly close in IDLE, `FairSpec` admits it. Nothing is assumed about when mail
arrives. `Checkpoints`, `FairSpec`: clients keep asking, each call ends, and calls stop failing. It
needs no assumption that calls stop overtaking each other. `OverlapSpec` of `MCWatchDiscovery`: only the first of two watchers has to
keep running.

`WatchSupervision`, `Fairness`: the main thread takes its next step (it polls every half second, and a statement ends within its busy timeout); a
thread that opens the database goes on (weak fairness), and gets the lock of its process in the end (strong fairness: the other threads
pause for a second between their uses, so the lock is free again and again). That `Recovers` needs more it says itself, as its
premise: openings and troubles (dead threads, signals, kills, failed statements) come to an end, time passes, and the supervisor starts a
container that went down (`restart: unless-stopped` in `docker-compose.yml`). No other module uses strong fairness.

"Failures stop" is stated so that it forbids no step of the code that works: a failed transaction
that would have found nothing due (`NothingDue`), a broken session whose request is refused anyway
(`RequestFails`) and a failed call whose position was stored already (`SetCursor`) are the same step as
the successful one, and may go on for ever.

## 5. What is proved

TLAPS checks these for all values of the constants under the module's named
assumption, without bounds on rows, workers, calls or time. A theorem that needs more of a constant says so: `LeaseCoversAttempt`, `DelaysGrow`,
`Supported`.

| Theorem | States | Argument |
| --- | --- | --- |
| `DeliveryQueueProofs!TypeCorrect` | `Spec => []TypeOK` | `TypeInv`: `TypeOK`, plus a claimed row for a thread past its claim, plus the bound on waiting that `Tick` keeps |
| `...!DeliveredOnlyIfReceived` | `Spec => []DeliveredWasReceived` | `DeliveredInv`: a thread about to record a success either has had its row received or lost its lease |
| `...!OneSenderPerRow` | assuming `LeaseCoversAttempt`, `Spec => []ExclusivePosting` | `LeaseInv`: a busy thread holds the lease of its row, and what is left of the lease exceeds what it may still take; hence a row of a busy thread is never due, also for a reading of the clock that is `LockWait` old |
| `...!QueueKeepsPromise` | `Spec => KeepsPromise` | refinement: with `CountInv` (the attempts of a job are those of its row, or its lease is gone) each step is a step of `WebhookPromise` or a stutter |
| `...!HolderSettles` | `Spec => OnlyHolderSettles` | from `TypeInv`, step by step |
| `...!RetriesBackOff` | assuming `DelaysGrow`, `Spec => Backoff` | `WaitInv`: a waiting row is not due before the delay after its recorded failures is over, and a claimed one has rested; an attempt whose outcome was lost moves the row to a later delay, which must not be shorter |
| `SendingProofs!SentOnce` | `Spec => []DraftSentOnce` | one inductive invariant: who is in SMTP or was owns the claim of its draft, and nobody else does |
| `SendingProofs!ClaimNeverWasted` | `Spec => []ClaimMeansAttempt` | same invariant |
| `...!SendingTyped`, `!SilentSuccess` | `Spec => []TypeOK`, `Spec => []SilentSuccessIsComplete` | `PipelineInv`: a call past a stage has its effect or a warning (`StageInv`); where it read its draft or its original there is this message or none while the numbering lasts (`SourceInv`, with an empty folder above `uidnext`, and `OriginalInv`), so an original that is displaced stays so |
| `...!OnlyRenumbering` | `Spec => OnlyRenumberingHitsOthers` | who removes or flags has mailed (`StageInv`), and hits its own draft or original unless the numbering changed (`SourceInv`, `OriginalInv`) |
| `RateLimitProofs!RateLimitTyped`, `!QuotaHolds` | `Spec => []TypeOK`, `Spec => []CappedPerWindow` | `Timely` and `Kept`: a send admitted within `Window - LockWait` read its clock within `Window`, so no call deleted its row, and the next one counts it |
| `CheckpointsProofs!CheckpointNeverSkips` | `Spec => []NeverSkips` | `PageComplete`: all wanted mail between the two positions of a page is on it; and a position that is stored or held has everything below it on stored pages, which stays true when an older one is stored |
| `CheckpointsProofs!ListingsAdjoin` | `Spec => []PagesAdjoin` | a page of `Listing` is exactly the wanted mail between its ends, by the cardinality of initial segments |
| `...!OvertakenGoBack` | `Spec => OnlyOvertakenGoBack` | `OrderInv`: a call nobody overtook still holds the cursor as it is, and its page does not end below it |
| `WatchDiscoveryProofs!DiscoverySkipsNothing`, `!HistoryStaysQuiet`, `!CheckpointMovesOn` | assuming `Supported`, `Spec => []NeverSkips`, `[]NoHistoryReplayed`, `OnlyForward` | `DiscoveryInv`: `TypeOK`, the cursor never ahead of the folder (`CursorInv`), what a thread holds between SELECT and its transaction is right for the numbering it selected, also when the folder has another one by now (`ThreadInv`), and the two safety properties themselves |
| `WatchSupervisionProofs!SchemaMigratedOnce`, `!SchemaBeforeUse` | `StoreSpec => []MigratedOnce`, `[]NoUseBeforeSchema` | `StoreInv`: the write lock makes the version that was read that of the tables until the commit, `staged` goes on from it (`StagedNext`), and versions only grow, so `_ready` stays true (`UpToDate`) |
| `...!WatchersUseStore` | `Spec => StoreSpec` | every step of the watchers is one of `Startup` or leaves the database alone; a thread that dies returns. The two theorems above thus hold of the composition |
| `...!SupervisionTyped`, `!HealthyMeansWatched`, `!RunningIsHealthy` | `Spec => []TypeOK`, `[]HealthMeansWatched`, `[]NoFalseAlarm` | `BeatInv`: `sound` is at most `LockWait` above the age of every heartbeat and of the one in hand; the age of a running watcher's row is bounded at each place by the waits behind it, `Heartbeat + 3 * LockWait` in all |
| `FoldersProofs!FoldersTyped` | `Spec => []TypeOK` | `Core`: `TypeOK`, nothing above `uidnext`, and what each place says of the call's job |
| `...!NothingIsLost` | `Spec => []NothingLost` | `SoundInv`: a text neither condemned nor mistaken is *sound* somewhere: there, not flagged by the program, and at no UID that a call which knows its folder is about to remove. Every action is one of five effects on folders (`Adds`, `Drops`, `Flags`, `Transfers`, `Reorders`), and each keeps it |
| `...!NeverIsDoubled` | `Spec => []NeverDoubled` | `SingleInv`: with MOVE no call copies, so each text is at one UID of one folder |
| `ServiceProofs!NothingUnauthorised` | `Spec => []Authorised` | `AccessInv`: work begins only when no check of the method fails, and the checks of each operation cover its deeds, of which `Work` names every one |
| `...!AuditIsComplete` | `Spec => []AuditTellsAll` | `AuditInv`: the rows of a call before, at and after its write, with what it did and what its caller was told |
| `...!HiddenIsMissing` | `Spec => []HiddenLooksMissing` | a hidden name resolves to no mailbox, as one that nobody has; then no check of any operation tells the two apart, on either surface |
| `...!SurfacesAgreeAlways` | `Spec => []SurfacesAgree` | the catalog's scopes against those `CheckOrder` asks for, operation by operation |
| `...!AccessTyped` | `Spec => []TypeOK` | `Typed` |
| `...!ConversationTyped` | `ConversationSpec => []ConversationTypeOK` | `MailInv`: that, at most `MaxCopies` messages, each with one id of its own or none, and every reply an `AnswerOf` what it answers |
| `...!PeopleAreReached` | `ConversationSpec => []ReachesPeople` | `Distinct` keeps every address once and in order; the identity chosen is the first that covers an address written to |
| `...!AnswersAreAlwaysSeen` | `ConversationSpec => []AnswersAreSeen` | from `MailInv`: a reply has the id of what it answers among its references unless they were cut, and that is what `Thread` searches for; cut or not it has the last of them, which the union-find joins by (`AnswerShares`) |
| `...!ConversationsAreGrouped`, `!ThreadIsWithinGroup` | `ConversationSpec => []GroupsAreConversations`, `[]ThreadWithinGroup` | the union-find: after any number of messages the parents form a forest (`Forests`) whose trees are exactly the conversations of these messages (`Respects`, `Joined`) |
| `...!ServiceIsBoth`, `!ServiceTyped` | `ServiceSpec => Spec /\ ConversationSpec`, `ServiceSpec => []WellTyped` | each step is one of a half and leaves the other alone; so the theorems above hold of the specification that `service_calls` checks |

`Supported` is one watcher, or any number of them with a stable numbering and a cursor that exists. It is less than `discovery_watch`
admits, and each half is needed: without it the properties are false (section 6).

The invariants named here are inductive, the properties are not: a state in which a
stale worker's job shows success for a row that was never received, for instance,
satisfies `DeliveredWasReceived` and leads out of it.

The heartbeat's proof shows where the 90 seconds of `MAX_AGE` go: the assumption `Heartbeat + 3 * LockWait <= MaxAge` is the weakest under which
`NoFalseAlarm` holds, so a longer busy timeout needs a longer age.

*Two assumptions are about data.* `DelaysGrow`: the schedule never asks for less patience than before; `watch.py` has 30 seconds to 12 hours,
growing. `AccessAssumption` has some name that no mailbox carries, since `HiddenLooksMissing` compares with one; every deployment has such names.

*Induction over data.* What a fold makes of a sequence, and that following parents in the union-find reaches a root, are claims for every length.
They are proved by the least number for which they fail: `LeastNumber` states as a fact about sets of numbers that a set of them that is not empty has a
least one, `UpTo` turns it around, and `Unrolled` is one element of a fold after another.

*What a failed proof showed.* An earlier `NothingLost` held in `folders_kept` and was false: a message may come to the UID of an edit after the
edit's second SELECT in a renumbered folder, and goes with the old draft. It takes four texts and three UIDs, more than the run has. The proof stuck at that step; hence
`misled`, and the wider `mistaken`.

Only model-checked: liveness, which is out of the prover's reach (`EventuallySettled`, `EventuallyQueued`, `EventuallyGiven`,
`DeadThreadEndsProcess`, `Recovers`).

## 6. Where the code and its documentation disagree

Shown by runs that are expected to be violated:

- `queue_poison`. `deliver` (`watch.py:94`) catches `URLError` and `OSError`. An answer that is not
  HTTP raises `http.client.HTTPException`, which nothing catches: the delivery
  thread dies, `run()` ends the process, and after the restart and the lease the same
  row does it again. It never becomes `dead`, whatever its count (`docs/operations.md:21`).
- `discovery_closed`. When the server closes the connection in good order while `idle_wait` waits,
  `readline` returns `b""` for ever and the loop at `watch.py:255` never ends; the thread lives, so
  the heartbeat stays fresh (`watch.py:234`, `watch.py:274`).
- `send_renumbered`. After a send the draft is removed by UID in a new session
  (`services.py:872`) without looking at UIDVALIDITY; in a renumbered folder this is another draft.

Noticed while modelling; no run of their own:

- An edit of a draft removes the old version by UID in a second session, without looking at UIDVALIDITY
  (`services.py:1011`). In a renumbered folder this is another draft, though `docs/api.md:151`
  says that it replaces only that draft. A message that comes to that UID after
  the second SELECT may go too. `NothingLost` excepts both by name (`mistaken`).
- A failed removal of a draft that answers a message is reported as `answered_flag_failed`, since
  both steps share one `except` (`services.py:875`); `docs/operations.md:58` lists
  `draft_not_removed` for it.
- A send refused as a conflict has used a place of the quota (`services.py:852-855`); so has
  a draft without recipients. `docs/operations.md:58` speaks of attempted deliveries.
- If the Sent folder has a name that is not ASCII, `imaplib` raises `UnicodeEncodeError` after the mail
  left, and the client gets an internal error instead of a warning (`FilingRaises`).
- Over the full window the quota may be exceeded by sends that had waited for the lock:
  the rows carry the time before the wait. `CappedPerWindow` therefore speaks of `Window - LockWait`.
- A checkpoint is stored before the client has the page. An answer that is lost takes its mail with
  it: at most once, although `docs/api.md:89` says a checkpoint never skips mail.
- The original is flagged by UID in a new session, too (`services.py:866-871`). If it was moved or expunged meanwhile, STORE
  succeeds and nothing is flagged; if its folder was renumbered, another message may be. The call is `ok` without a warning, although
  `docs/api.md:128` says that the original gets `\Answered` after a real send. `SilentSuccessIsComplete` and `OnlyRenumberingHitsOthers` except both.
- `send_message` ignores which recipients the server refused as long as it took one (`smtp_client.py:47`): such a send is `ok`
  without a warning, and its draft is removed.
- A token with `send` and without `read` sees mail all the same: `reply` fetches and quotes the message it answers, `send_draft` the draft,
  and a dry run shows the text in its preview (`services.py:813-819`, `849`, `921-927`, `1133-1148`). The same goes for `draft`, with a reply prepared as a draft.
  By `docs/configuration.md:56` reading takes `read`. `Authorised` allows it for the one message of the call and for no other.
- A reply without a copy in Sent (`save_sent` off, or `sent_copy_failed`, `services.py:858-865`) is in no thread and no group,
  unless it comes back as mail: who looks first answers a second time.
- A draft's claim is per UIDVALIDITY and UID. A renumbered draft that was sent and not removed
  can be sent again.
- Without MOVE and UIDPLUS a move copies the messages and leaves the originals flagged (`imap_client.py:460`); the
  same call again copies them again, though `docs/api.md:153` and `mcp_server.py:676` call moving idempotent. `NeverDoubled`
  therefore speaks of servers with MOVE.
- Over MCP a permanent deletion takes the scopes `organize` and `delete`, since the catalog asks for the first; over HTTP, and in
  `docs/api.md:152`, `delete` is enough. `SurfacesAgree` excepts it by name.
- A denial over MCP is audited under the mailbox as the caller wrote it, one by the service under the name it resolved to.
- A login that is also another mailbox's name means the mailbox that is configured first, among those the token sees.
- `create_draft` ignores a `dry_run` over HTTP, where the body has none, and takes `read` besides `draft` when it attaches from a message.
- A process that is `ready` keeps using a database that a newer release has migrated meanwhile (`state.py:110`); only its next start is refused.
- `watch-health` asks for any row that is not older than 90 s. A killed watcher looks healthy for so long, and an old watcher that
  overlaps a new one hides that the new one is dead. `HealthMeansWatched` is about some watcher, not about each.
- Two watchers that both start on an empty state volume, or that overlap while the folder is renumbered, may each take a first
  position; the later one is stored without a comparison (`set_cursor`) and passes over the mail in between.
- `thread` does not find everything that `mcp_server.py:588` promises (the whole conversation): once References are cut at 20 the root is
  gone from the program's own reply; a reply with only In-Reply-To is not found from the root; the thread of a message in Sent looks
  in Sent only; and a message without an id of its own that has only In-Reply-To is not in its own thread. `AnswersAreSeen` and
  `ThreadWithinGroup` say what remains true.

## 7. Not modelled, and the plan

Components left out: *Authentication verdicts* (`mime.py`), whose decisions are made on parsed strings, so that a model would be of the parser;
*Configuration and CLI*, which validate one file at the start and change no state afterwards.

Left out of the modelled parts:

- of the queue and the quota: `retry_after` of a refusal; several events of one message as separate rows in `WatchDiscovery`.
- of the folders: flags, labels and `create_folder` as effects (single commands whose checks and rows are in `Access`); the cache of
  special folders' names, which outlives a rename for 600 s (`imap_client.py:286`); UIDs that a client names before they are given out.
- of the session: connecting, literal limits, a server that reports no UIDVALIDITY (the code then compares with the empty string), a
  CAPABILITY that fails and falls back on the greeting.
- of reading: a `since_cursor` brought by the client, the fan-out of inbox over mailboxes, `unified_search`, list operations without a position.
- of conversations: dates, and the order and the cut of lists that depend on them; statistics of folders; bodies, quotes, signatures, MIME.
- of access: paging of the audit log, the wording and status of errors.
- Text everywhere: formatting, search criteria, IMAP response parsing.

Built, in this order: `DeliveryQueue` with `WebhookPromise`, `WatchDiscovery`, `Sending`, `RateLimit`, `SearchPage`, `Checkpoints`, `Folders`;
then `Startup`, `WatchSupervision`, `Access`, `Conversation`, `Service`; and the proofs about all of them.

Next, in this order:

1. `Notifier`: discovery and queue in one module over one database, implementing one abstract promise per message from arrival
   to confirmation, and the refinement proved.
2. The rest of `Folders`: flags and labels under renumbering, the cache of special folders' names and what permanent deletion then admits.
3. The decision part of authentication verdicts, on verdicts as they are after parsing.

----------------------------- MODULE Conversation -----------------------------
(***************************************************************************)
(* Which messages belong together: the recipients, the sender and the      *)
(* threading headers that compose.py and services.py derive for a reply,   *)
(* and the two ways insights.py finds a conversation again: thread         *)
(* searches the ids of one message on the server, threads groups the       *)
(* newest messages with a union-find over their ids.                       *)
(*                                                                         *)
(* Messages arrive in the default folder from clients that thread well or  *)
(* badly, the program answers any message of either folder, and its copy   *)
(* is filed in Sent or, when that fails or is not wanted, nowhere.  A      *)
(* header that holds ids is a sequence of them, empty when the header is   *)
(* missing.  Dates, and the order and the cut of the lists that depend on  *)
(* them, are left out.                                                     *)
(***************************************************************************)
EXTENDS Naturals, Sequences, SequencesExt

CONSTANTS
  Letters(_),        \* the envelopes that may arrive after a number of messages
  Wanted(_),         \* the identities callers ask for then, NoOne for none
  MaxCopies,         \* bound: messages of both folders and those without a copy
  Addresses, Subjects,
  Identities,        \* smtp.identities in their order
  Patterns,          \* those of the form *@domain
  Covers,            \* the addresses that each identity matches
  Default,           \* default_identity()
  Login,             \* imap.username
  MaxReferences,     \* 20 in reply_fields
  MaxThreadIds,      \* MAX_THREAD_IDS, 30
  MaxHits,           \* MAX_FOLDER_HITS, 200
  MaxScan, PerThread,  \* MAX_SCAN, 500, and the 4 headers read for each thread asked for
  NoOne

ASSUME ConversationAssumption ==
  /\ Identities \in Seq(Addresses \cup Patterns)
  /\ Patterns \cap Addresses = {} /\ NoOne \notin Addresses
  /\ \A n \in 0..MaxCopies :
       /\ Wanted(n) \subseteq Addresses \cup {NoOne}
       /\ Letters(n) \subseteq [from : Addresses, reply_to : Seq(Addresses), to : Seq(Addresses),
                               cc : Seq(Addresses), subject : Subjects]
  /\ Covers \in [ToSet(Identities) -> SUBSET Addresses]
  /\ \A i \in ToSet(Identities) \ Patterns : Covers[i] = {i}
  /\ Default \in ToSet(Identities) \ Patterns
  /\ {MaxCopies, MaxReferences, MaxThreadIds, MaxHits, MaxScan, PerThread} \subseteq Nat \ {0}

Folders == {"inbox", "sent"}
Boxes == Folders \cup {"unfiled"}   \* what the program sent without a copy in Sent
Lost == 0            \* the id of a message that is in neither folder
Ids == Lost..MaxCopies

VARIABLE box         \* the messages of each folder, oldest first, and those of "unfiled"
conversationVars == <<box>>

MailIn(fs) == UNION {[folder : {f}, uid : DOMAIN box[f]] : f \in fs}
Copies == MailIn(Boxes)
Held == MailIn(Folders)            \* those that the mailbox has
At(c) == box[c.folder][c.uid]
Count == Len(box["inbox"]) + Len(box["sent"]) + Len(box["unfiled"])

-----------------------------------------------------------------------------
(* Who a reply goes to, who it is from, and what it refers to.             *)

\* The elements of s that are in S, in their order.  (The comprehensions of the code;
\* SelectSeq would do, but TLAPS has no definition of it.)
Kept(s, S) == FoldLeft(LAMBDA acc, x : IF x \in S THEN Append(acc, x) ELSE acc, <<>>, s)

\* The elements of s that are not the same, by the relation given, as one kept before.
\* (The loops of the code that carry `seen`.)
Firsts(s, same) ==
  FoldLeft(LAMBDA acc, x : IF \E y \in ToSet(acc) : <<y, x>> \in same THEN acc
                           ELSE Append(acc, x), <<>>, s)
Distinct(s) == Firsts(s, {<<x, x>> : x \in ToSet(s)})

\* own_addresses and, for a pattern among them, what reply_fields matches with it.
Own == {Login} \cup UNION {Covers[i] : i \in ToSet(Identities)}

\* Fault: a pattern is compared with an address as if it were one.
AddedByName(pairs, seen) ==
  Distinct(Kept(pairs, Addresses \ ({Login} \cup ToSet(Identities) \cup seen)))

\* add of reply_fields: the addresses of the list that are new and not one's own.
Added(pairs, seen) == Distinct(Kept(pairs, Addresses \ (Own \cup seen)))

Primary(m) == IF m.reply_to # <<>> THEN m.reply_to ELSE <<m.from>>
\* Of a reply to one's own message: the original recipients.
Answered(m) ==
  LET to == Added(Primary(m), {}) IN IF to # <<>> THEN to ELSE Added(m.to, {})

\* [to, cc] of the reply; to is empty when there is no usable address.
Recipients(m, all) ==
  LET to == Answered(m)
      cc == IF all THEN Added(m.to \o m.cc, ToSet(to)) ELSE <<>>
  IN IF to = <<>> /\ cc # <<>> THEN [to |-> <<cc[1]>>, cc |-> Tail(cc)]
                               ELSE [to |-> to, cc |-> cc]

Earlier(m) == IF m.refs # <<>> THEN m.refs ELSE m.irt
LastOf(s, n) == IF Len(s) <= n THEN s ELSE SubSeq(s, Len(s) - n + 1, Len(s))
References(m) ==
  LastOf(Kept(Earlier(m), Ids \ ToSet(m.own)) \o m.own, MaxReferences)

\* resolve_identity: an identity that matches, an exact one before a pattern.
Matching(a, kind) ==
  Kept(Identities, {i \in ToSet(Identities) \cap kind : a \in Covers[i]})
ResolveIdentity(a) ==
  LET found == Matching(a, Addresses) \o Matching(a, Patterns)
  IN IF found = <<>> THEN NoOne ELSE a

\* _reply_identity: the one asked for, else an exact one that was addressed, else an
\* address of a pattern that was, else the default.
ReplyIdentity(m, wanted) ==
  LET addrs == m.to \o m.cc
      exact == Kept(Identities, ToSet(addrs) \ Patterns)
      covered == Kept(addrs, {a \in ToSet(addrs) : Matching(a, Patterns) # <<>>})
  IN IF wanted # NoOne THEN ResolveIdentity(wanted)
     ELSE IF exact # <<>> THEN exact[1]
     ELSE IF covered # <<>> THEN ResolveIdentity(covered[1])
     ELSE Default

-----------------------------------------------------------------------------
(* thread: one message's conversation, searched on the server.             *)

\* _id_set; a message with no id at all has no root.
Root(m) == LET s == IF Earlier(m) # <<>> THEN Earlier(m) ELSE m.own
           IN IF s = <<>> THEN {} ELSE {s[1]}
ThreadIds(m) == LastOf(Distinct(m.refs \o m.irt \o m.own), MaxThreadIds)

\* The messages of a folder, oldest first.
Uids(f) == [u \in DOMAIN box[f] |-> u]

\* Fault: only the messages that m names are looked for, not those that name its root.
RelatedUpwards(m, f) ==
  LastOf(Kept(Uids(f),
              {u \in DOMAIN box[f] : ToSet(box[f][u].own) \cap ToSet(ThreadIds(m)) # {}}), MaxHits)

\* _find_related: the uids of folder f, the last MaxHits of them.
Related(m, f) ==
  LastOf(Kept(Uids(f),
              {u \in DOMAIN box[f] : \/ ToSet(box[f][u].own) \cap ToSet(ThreadIds(m)) # {}
                                    \/ ToSet(box[f][u].refs) \cap Root(m) # {}}), MaxHits)

\* Of the copies of one message the first is kept; one without an id is its own.
FirstCopies(cs) ==
  Firsts(cs, {p \in ToSet(cs) \X ToSet(cs) : At(p[1]).own # <<>> /\ At(p[1]).own = At(p[2]).own})

InFolder(f, uids) == [i \in DOMAIN uids |-> [folder |-> f, uid |-> uids[i]]]
\* The conversation of message m of folder f, across f and Sent.
Thread(f, m) ==
  FirstCopies(InFolder(f, Related(m, f))
              \o IF f = "sent" THEN <<>> ELSE InFolder("sent", Related(m, "sent")))

-----------------------------------------------------------------------------
(* threads: the newest messages of a folder and of Sent, grouped here.     *)

\* Fault: In-Reply-To is not read.
MsgIdsWithoutParent(m) == m.own \o m.refs
MsgIds(m) == m.own \o m.refs \o m.irt

\* The union-find: p gives every id its parent, a root itself.  The shortening of
\* the paths on a find changes no root and is left out.
Find(p, x) == LET up[y \in DOMAIN p] == IF p[y] = y THEN y ELSE up[p[y]] IN up[x]
\* Fault: the id is moved, not the whole set it is in.
UnionOfIds(p, a, b) == [p EXCEPT ![b] = Find(p, a)]
Union(p, a, b) == [p EXCEPT ![Find(p, b)] = Find(p, a)]

\* The ids of one message are joined to the first of them.
UnionAll(p, ids) == FoldLeft(LAMBDA q, other : Union(q, ids[1], other), p, ids)
UnionFind(cs) == FoldLeft(LAMBDA p, c : UnionAll(p, MsgIds(At(c))), [x \in Ids |-> x], cs)

\* group_messages: by the root of the first id, and by the subject when there is none.
GroupMessages(cs) ==
  LET p == UnionFind(cs)
      keyOf(c) == LET m == At(c) IN IF MsgIds(m) = <<>> THEN <<"subject", m.subject>>
                                    ELSE <<"id", Find(p, MsgIds(m)[1])>>
  IN {Kept(cs, {c \in ToSet(cs) : keyOf(c) = k}) : k \in {keyOf(c) : c \in ToSet(cs)}}

Scan(f, count) ==
  InFolder(f, LastOf(Uids(f), count))
Scanned(f, limit) ==
  LET wanted == limit * PerThread
      count == IF wanted = 0 THEN 1 ELSE IF wanted > MaxScan THEN MaxScan ELSE wanted
  IN Scan(f, count) \o IF f = "sent" THEN <<>> ELSE Scan("sent", count)

\* _thread_entry: the messages of a group, once each.
Entry(group) == FirstCopies(group)

-----------------------------------------------------------------------------
(* The steps.  all and answers record what a reply was made from.          *)

Mail(letter, own, refs, irt) ==
  [from |-> letter.from, reply_to |-> letter.reply_to, to |-> letter.to, cc |-> letter.cc,
   subject |-> letter.subject, own |-> own, refs |-> refs, irt |-> irt,
   answers |-> {}, all |-> FALSE]

\* The threading headers of what other clients write: a new message, an answer to one
\* that is not here, and answers with all references, with one and with none.
Headers ==
  {[refs |-> <<>>, irt |-> <<>>], [refs |-> <<Lost>>, irt |-> <<Lost>>]}
  \cup UNION {{[refs |-> Earlier(m) \o m.own, irt |-> m.own], [refs |-> m.own, irt |-> m.own],
               [refs |-> <<>>, irt |-> m.own]} : m \in {At(c) : c \in Copies}}

Deliver(f, m) == Count < MaxCopies /\ box' = [box EXCEPT ![f] = Append(@, m)]

Arrive(letter, h) ==
  \E own \in {<<>>, <<Count + 1>>} : Deliver("inbox", Mail(letter, own, h.refs, h.irt))

\* A list, or a Cc to oneself, brings a sent message back.
Echo(c) == c.folder # "inbox" /\ Deliver("inbox", At(c))

\* reply of services.py, sent; its copy is filed in Sent, or it is not: without
\* save_sent, or with the warning sent_copy_failed.
Reply(c, all, wanted) ==
  LET m == At(c)
      people == Recipients(m, all)
      sender == ReplyIdentity(m, wanted)
      letter == [from |-> sender, reply_to |-> <<>>, to |-> people.to, cc |-> people.cc,
                 subject |-> m.subject]
  IN /\ people.to # <<>>                                     \* InvalidRequest
     /\ sender # NoOne                                       \* InvalidIdentity
     /\ \E f \in {"sent", "unfiled"} :
          Deliver(f, [Mail(letter, <<Count + 1>>, References(m), m.own)
                        EXCEPT !.answers = {c}, !.all = all])

ConversationInit == box = [f \in Boxes |-> <<>>]
ConversationNext ==
  \/ \E letter \in Letters(Count), h \in Headers : Arrive(letter, h)
  \/ \E c \in Copies : Echo(c)
  \/ \E c \in Held, all \in BOOLEAN, wanted \in Wanted(Count) : Reply(c, all, wanted)
ConversationSpec == ConversationInit /\ [][ConversationNext]_conversationVars

-----------------------------------------------------------------------------
Replies == {c \in Copies : At(c).answers # {}}

\* The mailbox holds messages; the references of what the program sends are bounded
\* however long the conversation is (reply_fields), and it sends from its identities.
ConversationTypeOK ==
  /\ box \in [Boxes -> Seq([from : Addresses, reply_to : Seq(Addresses), to : Seq(Addresses),
                              cc : Seq(Addresses), subject : Subjects, own : Seq(Ids),
                              refs : Seq(Ids), irt : Seq(Ids), answers : SUBSET Copies,
                              all : BOOLEAN])]
  /\ \A c \in Replies : Len(At(c).refs) <= MaxReferences /\ At(c).from \in Own

\* A reply reaches the people of the original and never the mailbox itself, under
\* whichever of its addresses it was written to; a reply to all leaves nobody out; and
\* whoever was written to answers: the sender is an address the original was sent to
\* whenever the mailbox may send from one of them.  (reply_fields, _reply_identity)
ReachesPeople ==
  /\ \A c \in Replies : \A d \in At(c).answers :
       LET r == At(c)  m == At(d)
           people == ToSet(r.to) \cup ToSet(r.cc)
           everyone == ToSet(Primary(m)) \cup ToSet(m.to) \cup ToSet(m.cc)
       IN /\ people \cap Own = {} /\ people \subseteq everyone /\ r.to # <<>>
          /\ Len(r.to) + Len(r.cc) = Cardinality(people)
          /\ r.all => people = everyone \ Own
  /\ \A c \in Copies :
       LET m == At(c)
           addressed == (ToSet(m.to) \cup ToSet(m.cc))
                          \cap UNION {Covers[i] : i \in ToSet(Identities)}
       IN addressed # {} => ReplyIdentity(m, NoOne) \in addressed

\* Two messages are of one conversation when no set of messages that shares no id with
\* the rest has one of them only.
Shares(m, n) == \/ ToSet(MsgIds(m)) \cap ToSet(MsgIds(n)) # {}
                \/ MsgIds(m) = <<>> /\ MsgIds(n) = <<>> /\ m.subject = n.subject
SameConversation(i, j, cs) ==
  \A S \in SUBSET DOMAIN cs :
    i \in S /\ j \notin S => \E k \in S, l \in DOMAIN cs \ S : Shares(At(cs[k]), At(cs[l]))

\* However the messages that threads reads are ordered and cut, its groups are the
\* conversations of what it has read: an answer is with what it answers, messages with
\* nothing in common are apart, and no message is listed twice though its copy is in
\* both folders.  (group_messages, _thread_entry)
GroupsAreConversations ==
  \A cs \in {Scanned(f, limit) : f \in Folders, limit \in 0..MaxCopies} :
    LET groups == {ToSet(g) : g \in GroupMessages(cs)}
        listed == UNION {{<<g, i>> : i \in DOMAIN Entry(g)} : g \in GroupMessages(cs)}
        own(x) == At(Entry(x[1])[x[2]]).own
    IN /\ \A i, j \in DOMAIN cs :
            SameConversation(i, j, cs) <=> \E g \in groups : {cs[i], cs[j]} \subseteq g
       /\ \A x, y \in listed : own(x) # <<>> /\ own(x) = own(y) => x = y

\* Who looks sees what the mailbox has answered, and answers nobody twice.  A reply of
\* which the mailbox has a copy, in Sent or come back to the inbox, is in the thread of
\* the message it answers, unless its references were cut or more messages were hit than
\* are kept; and, cut or not, threads has it in one group with that message whenever it
\* reads both.  (A reply without any copy nobody sees: save_sent is off, or there was a
\* sent_copy_failed.)  (thread, reply_fields, group_messages)
AnswersAreSeen ==
  \A c \in Replies \cap Held : \A d \in At(c).answers :
    LET m == At(d)
    IN MsgIds(m) # <<>> =>
         /\ (d.folder = "inbox" /\ Len(Earlier(m)) < MaxReferences /\ Len(box[c.folder]) <= MaxHits)
              => At(c).own \in {At(t).own : t \in ToSet(Thread("inbox", m))}
         /\ \A f \in Folders, limit \in 0..MaxCopies :
              {c, d} \subseteq ToSet(Scanned(f, limit))
                => \E g \in GroupMessages(Scanned(f, limit)) : {c, d} \subseteq ToSet(g)

\* The two ways agree: what thread finds for a message is in the group that threads
\* would put it in.  (_find_related, _msg_ids)
ThreadWithinGroup ==
  LET cs == Scan("inbox", MaxCopies) \o Scan("sent", MaxCopies)
      groups == {ToSet(g) : g \in GroupMessages(cs)}
  IN \A c \in Held : LET found == ToSet(Thread(c.folder, At(c)))
                     IN found # {} => \E g \in groups : {c} \cup found \subseteq g
=============================================================================

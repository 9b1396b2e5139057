----------------------------- MODULE FoldersProofs ----------------------------
(***************************************************************************)
(* No message is lost that nobody asked to be rid of, and on a server with *)
(* MOVE none is doubled, for any number of calls, folders, messages and    *)
(* renumberings.                                                           *)
(*                                                                         *)
(* The argument: every command has one of five effects on the folders      *)
(* (Adds, Drops, Flags, Transfers, Reorders).  A message is sound at a     *)
(* place when it is not flagged by a call and no call that knows what it   *)
(* does is about to remove it there.  SoundInv says that every text that   *)
(* is neither condemned nor a victim of a misled edit is sound somewhere;  *)
(* a text that is only present somewhere may be gone with the next step.   *)
(***************************************************************************)
EXTENDS Folders, FiniteSetTheorems, TLAPS

-----------------------------------------------------------------------------
(* Sets of UIDs in their order.                                            *)

Upto(us, u) == {v \in us : v <= u}

LEMMA UidsFinite ==
  ASSUME NEW us \in SUBSET Uids
  PROVE  /\ IsFiniteSet(us) /\ Cardinality(us) \in Nat /\ Cardinality(us) <= MaxUid
         /\ \A u \in us : IsFiniteSet(Upto(us, u)) /\ Cardinality(Upto(us, u)) \in 1..Cardinality(us)
<1>1. IsFiniteSet(Uids) /\ Cardinality(Uids) = MaxUid
  BY FoldersAssumption, FS_Interval DEF Uids
<1>2. IsFiniteSet(us) /\ Cardinality(us) \in Nat /\ Cardinality(us) <= MaxUid
  BY <1>1, FS_Subset, FS_CardinalityType
<1>3. ASSUME NEW u \in us
      PROVE  IsFiniteSet(Upto(us, u)) /\ Cardinality(Upto(us, u)) \in 1..Cardinality(us)
  <2>1. Upto(us, u) \in SUBSET us /\ u \in Upto(us, u)
    BY DEF Upto, Uids
  <2>2. /\ IsFiniteSet(Upto(us, u)) /\ Cardinality(Upto(us, u)) \in Nat
        /\ Cardinality(Upto(us, u)) <= Cardinality(us)
    BY <1>2, <2>1, FS_Subset, FS_CardinalityType
  <2>3. Cardinality(Upto(us, u)) # 0
    BY <2>1, <2>2, FS_EmptySet
  <2> QED
    BY <1>2, <2>2, <2>3
<1> QED
  BY <1>2, <1>3

\* Different members have different ranks.
LEMMA RankInjective ==
  ASSUME NEW us \in SUBSET Uids, NEW u \in us, NEW v \in us,
         Cardinality(Upto(us, u)) = Cardinality(Upto(us, v))
  PROVE  u = v
<1>1. ASSUME NEW x \in us, NEW y \in us, x < y,
             Cardinality(Upto(us, x)) = Cardinality(Upto(us, y))
      PROVE  FALSE
  <2>0. us \subseteq Int
    BY FoldersAssumption DEF Uids
  <2>1. Upto(us, x) \in SUBSET Upto(us, y)
    <3>1. ASSUME NEW w \in us, w <= x PROVE w <= y
      BY <1>1, <2>0, <3>1
    <3> QED
      BY <3>1 DEF Upto
  <2>2. Upto(us, x) = Upto(us, y)
    BY <1>1, <2>1, UidsFinite, FS_Subset
  <2>3. y \in Upto(us, y) /\ y \notin Upto(us, x)
    BY <1>1, <2>0 DEF Upto
  <2> QED
    BY <2>2, <2>3
<1>2. u \in Int /\ v \in Int
  BY DEF Uids
<1>3. u < v \/ v < u \/ u = v
  BY <1>2
<1> QED
  BY <1>1, <1>3

\* Nth counts through a set of UIDs: all of it, each once.
LEMMA NthCounts ==
  ASSUME NEW us \in SUBSET Uids
  PROVE  /\ \A k \in 1..Cardinality(us) :
              Nth(us, k) \in us /\ Cardinality(Upto(us, Nth(us, k))) = k
         /\ \A u \in us : Nth(us, Cardinality(Upto(us, u))) = u
<1> DEFINE n == Cardinality(us)
           rank == [u \in us |-> Cardinality(Upto(us, u))]
<1>1. n \in Nat /\ IsFiniteSet(us) /\ rank \in [us -> 1..n]
  BY UidsFinite
<1>2. rank \in Injection(us, 1..n)
  <2>1. \A u, v \in us : rank[u] = rank[v] => u = v
    BY RankInjective
  <2> QED
    BY <1>1, <2>1 DEF Injection, IsInjective
<1>3. IsFiniteSet(1..n) /\ Cardinality(1..n) = n
  BY <1>1, FS_Interval
<1>4. rank \in Surjection(us, 1..n)
  BY <1>1, <1>2, <1>3, FS_Injection
<1>5. ASSUME NEW k \in 1..n PROVE Nth(us, k) \in us /\ Cardinality(Upto(us, Nth(us, k))) = k
  <2>1. PICK u \in us : rank[u] = k
    BY <1>4 DEF Surjection
  <2>2. Cardinality({v \in us : v <= u}) = k
    BY <2>1 DEF Upto
  <2> QED
    BY <2>2 DEF Nth, Upto
<1>6. ASSUME NEW u \in us PROVE Nth(us, Cardinality(Upto(us, u))) = u
  <2>1. Cardinality(Upto(us, u)) \in 1..n
    BY UidsFinite
  <2>2. LET w == Nth(us, Cardinality(Upto(us, u)))
        IN w \in us /\ Cardinality(Upto(us, w)) = Cardinality(Upto(us, u))
    BY <1>5, <2>1
  <2> QED
    BY <2>2, RankInjective
<1> QED
  BY <1>5, <1>6

\* J is the folder with each message at us of from once more at next and after, where
\* source says which is where.
Appended(J, folder, next, from, us, source) ==
  LET fresh == next..next + Cardinality(us) - 1
  IN /\ fresh \subseteq Uids
     /\ source \in [fresh -> us]
     /\ \A u \in us : \E w \in fresh : source[w] = u
     /\ \A v, w \in fresh : source[v] = source[w] => v = w
     /\ \A w \in fresh : J[w] = from[source[w]]
     /\ \A w \in Uids \ fresh : J[w] = folder[w]

LEMMA JoinedPlaces ==
  ASSUME NEW us \in SUBSET Uids, NEW next \in Nat \ {0},
         next + Cardinality(us) <= MaxUid + 1, NEW folder, NEW from
  PROVE  \E source : Appended(Joined(folder, next, from, us), folder, next, from, us, source)
<1> DEFINE n == Cardinality(us)
           J == Joined(folder, next, from, us)
           fresh == next..next + n - 1
           source == [w \in fresh |-> Nth(us, w - next + 1)]
<1>1. n \in Nat /\ MaxUid \in Nat
  BY UidsFinite, FoldersAssumption
<1>2. fresh \subseteq Uids
  BY <1>1 DEF Uids
<1>3. \A w \in fresh : w - next + 1 \in 1..n
  BY <1>1
<1>4. source \in [fresh -> us]
  BY <1>3, NthCounts
<1>5. ASSUME NEW u \in us PROVE \E w \in fresh : source[w] = u
  <2>1. Cardinality(Upto(us, u)) \in 1..n
    BY UidsFinite
  <2> DEFINE w == next + Cardinality(Upto(us, u)) - 1
  <2>2. w \in fresh /\ w - next + 1 = Cardinality(Upto(us, u))
    BY <1>1, <2>1
  <2>3. Nth(us, w - next + 1) = u
    BY <2>2, NthCounts
  <2> QED
    BY <2>2, <2>3
<1>6. ASSUME NEW v \in fresh, NEW w \in fresh, source[v] = source[w] PROVE v = w
  <2>1. Nth(us, v - next + 1) = Nth(us, w - next + 1)
    BY <1>6
  <2>2. v - next + 1 = w - next + 1
    BY <1>3, <2>1, NthCounts
  <2> QED
    BY <1>1, <2>2
<1>7. /\ \A w \in fresh : J[w] = from[source[w]]
      /\ \A w \in Uids \ fresh : J[w] = folder[w]
  BY <1>2 DEF Joined
<1> HIDE DEF J, source
<1>8. Appended(J, folder, next, from, us, source)
  BY <1>2, <1>4, <1>5, <1>6, <1>7 DEF Appended
<1> QED
  BY <1>8 DEF J

-----------------------------------------------------------------------------
(* The inductive invariant.                                                *)

\* The folders: UIDs are handed out in order, and every text in them has been seen.
Filled ==
  /\ uidnext \in [Boxes -> 1..MaxUid + 1]
  /\ mail \in [Boxes -> [Uids -> Messages \cup {None}]]
  /\ \A f \in Boxes, u \in Uids :
       /\ u >= uidnext[f] => mail[f][u] = None
       /\ mail[f][u] # None => mail[f][u].text \in seen
MailInv ==
  /\ Filled
  /\ uidvalidity \in [Boxes -> Validities]
  /\ condemned \cup mistaken \subseteq seen /\ seen \subseteq Texts

\* What a call is about, and what it knows of its folder while the numbering lasts:
\* that its UIDs were given out, and, between the two sessions of an edit, what text is
\* there.
CallInv(c) ==
  /\ job[c].op = "erase" <=> job[c].box = Trash /\ job[c].dest = None
  /\ job[c].op = "delete" => job[c].dest = Trash /\ job[c].box # Trash
  /\ pc[c] \in {"new", "done"} => job[c] = NoJob
  /\ pc[c] \notin {"new", "done"} =>
       /\ job[c] \in Jobs /\ job[c].text \in seen \cup {None}
       /\ job[c].selected <= uidvalidity[job[c].box]
       /\ pc[c] = "moving" => job[c].dest \in Boxes
       /\ Live(c) /\ c \notin misled => \A u \in job[c].uids : u < uidnext[job[c].box]
  /\ pc[c] \in {"appending", "reselecting"} =>
       /\ job[c].box = Drafts /\ c \notin misled
       /\ Live(c) => \A u \in Held(Drafts, job[c].uids) : mail[Drafts][u].text = job[c].text
  /\ pc[c] = "reselecting" => job[c].text \in condemned /\ job[c].op = "update_draft"
  /\ pc[c] = "appending" => /\ job[c].op \in {"create_draft", "update_draft"}
                            /\ job[c].op = "update_draft" => job[c].text \in seen
  /\ c \in misled => pc[c] # "new"

Core ==
  /\ MailInv
  /\ pc \in [Calls -> Places] /\ job \in [Calls -> Jobs \cup {NoJob}]
  /\ caps \subseteq {"MOVE", "UIDPLUS"} /\ misled \subseteq Calls
  /\ \A c \in Calls : CallInv(c)

\* A call that knows what it does is about to remove what is at this place.
DoomedBy(c, f, u) ==
  /\ pc[c] \in {"flagging", "expunging"} /\ c \notin misled
  /\ job[c].box = f /\ Live(c) /\ u \in job[c].uids
Doomed(f, u) == \E c \in Calls : DoomedBy(c, f, u)

Sound(f, u) ==
  mail[f][u] # None /\ mail[f][u].deleted # "ours" /\ ~ Doomed(f, u)
SoundSomewhere(t) ==
  \E f \in Boxes, u \in Uids : Sound(f, u) /\ mail[f][u].text = t
SoundInv ==
  \A t \in seen : t \in condemned \cup mistaken \/ SoundSomewhere(t)

FoldersInv == Core /\ SoundInv

\* With MOVE no two places have the same text.
SingleInv ==
  "MOVE" \in caps =>
    \A f, g \in Boxes, u, v \in Uids :
      mail[f][u] # None /\ mail[g][v] # None /\ mail[f][u].text = mail[g][v].text
      => f = g /\ u = v

-----------------------------------------------------------------------------
(* The effects of commands on the folders.                                 *)

Adds(f, t) ==
  /\ Room(f, 1)
  /\ mail' = [mail EXCEPT ![f][uidnext[f]] = [text |-> t, deleted |-> "no"]]
  /\ Bumped(f, 1)
Drops(f, us) ==
  mail' = [mail EXCEPT ![f] = Without(@, us)] /\ uidnext' = uidnext
Flags(f, us, who) ==
  mail' = [mail EXCEPT ![f] = Flagged(@, us, who)] /\ uidnext' = uidnext
Transfers(f, d, us, moved) ==
  /\ Room(d, Cardinality(us))
  /\ mail' = Transferred(f, d, us, moved)
  /\ Bumped(d, Cardinality(us))

MailTyped ==
  uidnext' \in [Boxes -> 1..MaxUid + 1] /\ mail' \in [Boxes -> [Uids -> Messages \cup {None}]]

LEMMA NoMessageIsNone == ASSUME NEW m \in Messages PROVE m # None
  BY FoldersAssumption DEF Messages

Added(f, t) ==
  /\ MailTyped /\ uidnext[f] \in Uids
  /\ \A g \in Boxes : uidnext'[g] = IF g = f THEN uidnext[g] + 1 ELSE uidnext[g]
  /\ \A g \in Boxes, u \in Uids :
       mail'[g][u] = IF g = f /\ u = uidnext[f] THEN [text |-> t, deleted |-> "no"]
                     ELSE mail[g][u]

LEMMA AddsFacts ==
  ASSUME MailInv, NEW f \in Boxes, NEW t \in Texts, Adds(f, t)
  PROVE  Added(f, t)
<1> DEFINE m == [text |-> t, deleted |-> "no"]
<1>1. uidnext[f] \in Uids /\ uidnext[f] + 1 \in 1..MaxUid + 1
  BY FoldersAssumption DEF MailInv, Filled, Adds, Room, Uids
<1>2. m \in Messages
  BY DEF Messages
<1>3. uidnext' = [uidnext EXCEPT ![f] = uidnext[f] + 1]
  BY DEF Adds, Bumped
<1>4. mail' = [mail EXCEPT ![f] = [mail[f] EXCEPT ![uidnext[f]] = m]]
  BY DEF Adds
<1>5. mail[f] \in [Uids -> Messages \cup {None}]
  BY DEF MailInv, Filled
<1>6. [mail[f] EXCEPT ![uidnext[f]] = m] \in [Uids -> Messages \cup {None}]
  BY <1>1, <1>2, <1>5
<1>7. MailTyped
  BY <1>1, <1>3, <1>4, <1>6 DEF MailInv, Filled, MailTyped
<1>8. \A g \in Boxes, u \in Uids : mail'[g][u] = IF g = f /\ u = uidnext[f] THEN m ELSE mail[g][u]
  BY <1>1, <1>4, <1>5 DEF MailInv, Filled
<1>9. \A g \in Boxes : uidnext'[g] = IF g = f THEN uidnext[g] + 1 ELSE uidnext[g]
  BY <1>3 DEF MailInv, Filled
<1> QED
  BY <1>1, <1>7, <1>8, <1>9 DEF Added

LEMMA DropsFacts ==
  ASSUME MailInv, NEW f \in Boxes, NEW us, Drops(f, us)
  PROVE  /\ MailTyped /\ uidnext' = uidnext
         /\ \A g \in Boxes, u \in Uids :
              mail'[g][u] = IF g = f /\ u \in us THEN None ELSE mail[g][u]
<1>1. Without(mail[f], us) \in [Uids -> Messages \cup {None}]
  BY DEF MailInv, Filled, Without
<1>2. mail' = [mail EXCEPT ![f] = Without(mail[f], us)]
  BY DEF Drops
<1>3. MailTyped /\ uidnext' = uidnext
  BY <1>1, <1>2 DEF MailInv, Filled, MailTyped, Drops
<1>4. \A g \in Boxes, u \in Uids : mail'[g][u] = IF g = f /\ u \in us THEN None ELSE mail[g][u]
  BY <1>2 DEF MailInv, Filled, Without
<1> QED
  BY <1>3, <1>4

LEMMA FlagsFacts ==
  ASSUME MailInv, NEW f \in Boxes, NEW us, NEW who \in {"ours", "theirs"}, Flags(f, us, who)
  PROVE  /\ MailTyped /\ uidnext' = uidnext
         /\ \A g \in Boxes, u \in Uids :
              IF g = f /\ u \in us /\ mail[g][u] # None
              THEN mail'[g][u] \in Messages /\ mail'[g][u].text = mail[g][u].text
                   /\ mail'[g][u].deleted = who
              ELSE mail'[g][u] = mail[g][u]
<1>1. ASSUME NEW u \in Uids
      PROVE  LET now == Flagged(mail[f], us, who)[u]
             IN /\ now \in Messages \cup {None}
                /\ IF u \in us /\ mail[f][u] # None
                   THEN now \in Messages /\ now.text = mail[f][u].text /\ now.deleted = who
                   ELSE now = mail[f][u]
  <2>1. mail[f][u] \in Messages \cup {None}
    BY DEF MailInv, Filled
  <2>2. CASE u \in us /\ mail[f][u] # None
    <3>1. mail[f][u] \in [text : Texts, deleted : {"no", "ours", "theirs"}]
      BY <2>1, <2>2 DEF Messages
    <3>2. Flagged(mail[f], us, who)[u] = [mail[f][u] EXCEPT !.deleted = who]
      BY <2>2 DEF Flagged
    <3>3. /\ [mail[f][u] EXCEPT !.deleted = who] \in Messages
          /\ [mail[f][u] EXCEPT !.deleted = who].text = mail[f][u].text
          /\ [mail[f][u] EXCEPT !.deleted = who].deleted = who
      BY <3>1 DEF Messages
    <3> QED
      BY <2>2, <3>2, <3>3
  <2>3. CASE ~(u \in us /\ mail[f][u] # None)
    BY <2>1, <2>3 DEF Flagged
  <2> QED
    BY <2>2, <2>3
<1>2. Flagged(mail[f], us, who) \in [Uids -> Messages \cup {None}]
  BY <1>1 DEF Flagged
<1>3. mail' = [mail EXCEPT ![f] = Flagged(mail[f], us, who)]
  BY DEF Flags
<1>4. MailTyped /\ uidnext' = uidnext
  BY <1>2, <1>3 DEF MailInv, Filled, MailTyped, Flags
<1>5. \A g \in Boxes, u \in Uids :
        mail'[g][u] = IF g = f THEN Flagged(mail[f], us, who)[u] ELSE mail[g][u]
  BY <1>3 DEF MailInv, Filled
<1> QED
  BY <1>1, <1>4, <1>5

\* Where the messages of a transfer come from.
Sources(f, d, us, source) ==
  LET fresh == uidnext[d]..uidnext[d] + Cardinality(us) - 1
  IN /\ fresh \subseteq Uids
     /\ source \in [fresh -> us]
     /\ \A u \in us : \E w \in fresh : source[w] = u
     /\ \A v, w \in fresh : source[v] = source[w] => v = w
     /\ \A w \in fresh : w \notin us \/ f # d
     /\ \A w \in fresh : mail'[d][w] = mail[f][source[w]]

Transferring(f, d, us, moved) ==
  /\ MailTyped
  /\ \A g \in Boxes :
       uidnext'[g] = IF g = d THEN uidnext[g] + Cardinality(us) ELSE uidnext[g]
  /\ \E source : Sources(f, d, us, source)
  /\ \A g \in Boxes, u \in Uids :
       (g = d => u \notin uidnext[d]..uidnext[d] + Cardinality(us) - 1) =>
       mail'[g][u] = IF moved /\ g = f /\ u \in us THEN None ELSE mail[g][u]

LEMMA TransfersFacts ==
  ASSUME MailInv, NEW f \in Boxes, NEW d \in Boxes, NEW us \in SUBSET Held(f, Uids),
         NEW moved, Transfers(f, d, us, moved)
  PROVE  Transferring(f, d, us, moved)
<1> DEFINE n == Cardinality(us)
           J == Joined(mail[d], uidnext[d], mail[f], us)
           fresh == uidnext[d]..uidnext[d] + n - 1
           now(g, u) == LET placed == IF g = d THEN J[u] ELSE mail[g][u]
                        IN IF moved /\ g = f /\ u \in us THEN None ELSE placed
<1>1. us \in SUBSET Uids /\ n \in Nat /\ uidnext[d] \in 1..MaxUid + 1
  BY UidsFinite DEF Held, MailInv, Filled
<1>2. uidnext[d] + n <= MaxUid + 1
  BY DEF Transfers, Room
<1>found. PICK source : Appended(J, mail[d], uidnext[d], mail[f], us, source)
  BY <1>1, <1>2, JoinedPlaces
<1>3. /\ fresh \subseteq Uids /\ source \in [fresh -> us]
      /\ \A u \in us : \E w \in fresh : source[w] = u
      /\ \A v, w \in fresh : source[v] = source[w] => v = w
      /\ \A w \in fresh : J[w] = mail[f][source[w]]
      /\ \A w \in Uids \ fresh : J[w] = mail[d][w]
  BY <1>found DEF Appended
<1>4. \A w \in fresh : w \notin us \/ f # d
  <2>1. ASSUME NEW w \in us, f = d PROVE w < uidnext[d]
    BY <1>1, <2>1 DEF Held, MailInv, Filled, Uids
  <2> QED
    BY <1>1, <2>1
<1>5. J \in [Uids -> Messages \cup {None}]
  <2>1. ASSUME NEW u \in Uids PROVE J[u] \in Messages \cup {None}
    BY <1>1, <1>3 DEF MailInv, Filled
  <2>2. J = [u \in Uids |-> J[u]]
    BY DEF Joined
  <2> QED
    BY <2>1, <2>2
<1>6. /\ mail' \in [Boxes -> [Uids -> Messages \cup {None}]]
      /\ \A g \in Boxes, u \in Uids : mail'[g][u] = now(g, u)
  <2> DEFINE placed == [mail EXCEPT ![d] = J]
  <2>1. mail' = IF moved THEN [placed EXCEPT ![f] = Without(placed[f], us)] ELSE placed
    BY DEF Transfers, Transferred
  <2>2. /\ placed \in [Boxes -> [Uids -> Messages \cup {None}]]
        /\ \A g \in Boxes : placed[g] = IF g = d THEN J ELSE mail[g]
    BY <1>5 DEF MailInv, Filled
  <2>3. Without(placed[f], us) \in [Uids -> Messages \cup {None}]
    BY <2>2 DEF Without
  <2> HIDE DEF placed, J
  <2>5. mail' \in [Boxes -> [Uids -> Messages \cup {None}]]
    BY <2>1, <2>2, <2>3
  <2>6. ASSUME NEW g \in Boxes, NEW u \in Uids PROVE mail'[g][u] = now(g, u)
    <3>1. mail'[g] = IF g = f /\ moved THEN Without(placed[f], us) ELSE placed[g]
      BY <2>1, <2>2
    <3>2. placed[g] = IF g = d THEN J ELSE mail[g]
      BY <2>2
    <3> QED
      BY <3>1, <3>2 DEF Without
  <2> QED
    BY <2>5, <2>6
<1>7. uidnext' = [uidnext EXCEPT ![d] = uidnext[d] + n]
  BY DEF Transfers, Bumped
<1>8. uidnext[d] + n \in 1..MaxUid + 1
  BY <1>1, <1>2
<1>9. MailTyped
  BY <1>6, <1>7, <1>8 DEF MailTyped, MailInv, Filled
<1>10. \A g \in Boxes : uidnext'[g] = IF g = d THEN uidnext[g] + n ELSE uidnext[g]
  BY <1>7 DEF MailInv, Filled
<1>11. Sources(f, d, us, source)
  <2>1. ASSUME NEW w \in fresh PROVE mail'[d][w] = mail[f][source[w]]
    <3>1. w \in Uids /\ J[w] = mail[f][source[w]] /\ (w \notin us \/ f # d)
      BY <1>3, <1>4
    <3>2. mail'[d][w] = now(d, w)
      BY <1>6, <3>1
    <3> HIDE DEF J
    <3>3. now(d, w) = J[w]
      BY <3>1
    <3> QED
      BY <3>1, <3>2, <3>3
  <2> QED
    BY <1>3, <1>4, <2>1 DEF Sources
<1>12. ASSUME NEW g \in Boxes, NEW u \in Uids, g = d => u \notin fresh
       PROVE  mail'[g][u] = IF moved /\ g = f /\ u \in us THEN None ELSE mail[g][u]
  BY <1>3, <1>6, <1>12
<1> QED
  BY <1>9, <1>10, <1>11, <1>12 DEF Transferring

-----------------------------------------------------------------------------
(* No effect puts another message at a UID that was given out, while the    *)
(* numbering lasts; and all keep the folders filled.                       *)

Grows ==
  /\ \A g \in Boxes : uidnext'[g] >= uidnext[g]
  /\ \A g \in Boxes, u \in Uids :
       u < uidnext[g] /\ mail'[g][u] # None =>
         mail[g][u] # None /\ mail'[g][u].text = mail[g][u].text

LEMMA UidFacts ==
  ASSUME MailInv
  PROVE  /\ \A g \in Boxes : uidnext[g] \in Int
         /\ \A u \in Uids : u \in Int
  BY FoldersAssumption DEF MailInv, Filled, Uids

LEMMA StaysFilled ==
  ASSUME MailInv, UNCHANGED <<mail, uidnext>>, seen \subseteq seen'
  PROVE  Grows /\ Filled'
  BY UidFacts DEF MailInv, Filled, Grows

LEMMA AddsFills ==
  ASSUME MailInv, NEW f \in Boxes, NEW t \in Texts, Adds(f, t), seen' = seen \cup {t}
  PROVE  Grows /\ Filled'
<1>0. Added(f, t)
  BY AddsFacts
<1>1. Grows
  BY <1>0, UidFacts DEF Added, Grows
<1>2. ASSUME NEW g \in Boxes, NEW u \in Uids
      PROVE  /\ u >= uidnext'[g] => mail'[g][u] = None
             /\ mail'[g][u] # None => mail'[g][u].text \in seen'
  <2>1. CASE g = f /\ u = uidnext[f]
    <3>1. mail'[g][u] = [text |-> t, deleted |-> "no"] /\ uidnext'[g] = u + 1
      BY <1>0, <2>1 DEF Added
    <3> QED
      BY <3>1, UidFacts
  <2>2. CASE ~(g = f /\ u = uidnext[f])
    <3>1. mail'[g][u] = mail[g][u] /\ uidnext'[g] >= uidnext[g]
      BY <1>0, <2>2, UidFacts DEF Added
    <3>2. /\ u >= uidnext[g] => mail[g][u] = None
          /\ mail[g][u] # None => mail[g][u].text \in seen
      BY DEF MailInv, Filled
    <3>3. uidnext'[g] \in Int /\ u \in Int /\ uidnext[g] \in Int
      BY <1>0, UidFacts DEF Added
    <3> QED
      BY <3>1, <3>2, <3>3
  <2> QED
    BY <2>1, <2>2
<1> QED
  BY <1>0, <1>1, <1>2 DEF Added, Filled, MailTyped

LEMMA DropsFills ==
  ASSUME MailInv, NEW f \in Boxes, NEW us, Drops(f, us), seen' = seen
  PROVE  Grows /\ Filled'
<1>1. Grows
  BY DropsFacts, UidFacts DEF Grows
<1>2. ASSUME NEW g \in Boxes, NEW u \in Uids
      PROVE  /\ u >= uidnext'[g] => mail'[g][u] = None
             /\ mail'[g][u] # None => mail'[g][u].text \in seen'
  BY DropsFacts DEF MailInv, Filled
<1> QED
  BY <1>1, <1>2, DropsFacts DEF Filled, MailTyped

LEMMA FlagsFills ==
  ASSUME MailInv, NEW f \in Boxes, NEW us, NEW who \in {"ours", "theirs"}, Flags(f, us, who),
         seen' = seen
  PROVE  Grows /\ Filled'
<1>1. ASSUME NEW g \in Boxes, NEW u \in Uids
      PROVE  /\ mail'[g][u] # None <=> mail[g][u] # None
             /\ mail'[g][u].text = mail[g][u].text
  BY FlagsFacts, NoMessageIsNone
<1>2. Grows
  BY <1>1, FlagsFacts, UidFacts DEF Grows
<1>3. ASSUME NEW g \in Boxes, NEW u \in Uids
      PROVE  /\ u >= uidnext'[g] => mail'[g][u] = None
             /\ mail'[g][u] # None => mail'[g][u].text \in seen'
  BY <1>1, FlagsFacts DEF MailInv, Filled
<1> QED
  BY <1>2, <1>3, FlagsFacts DEF Filled, MailTyped

LEMMA TransfersFills ==
  ASSUME MailInv, NEW f \in Boxes, NEW d \in Boxes, NEW us \in SUBSET Held(f, Uids),
         NEW moved, Transfers(f, d, us, moved), seen' = seen
  PROVE  Grows /\ Filled'
<1> DEFINE n == Cardinality(us)
           fresh == uidnext[d]..uidnext[d] + n - 1
<1>0. Transferring(f, d, us, moved)
  BY TransfersFacts
<1>1. us \in SUBSET Uids /\ n \in Nat /\ \A g \in Boxes : uidnext'[g] \in Int /\ uidnext[g] \in Int
  <2>1. us \in SUBSET Uids /\ n \in Nat
    BY UidsFinite DEF Held
  <2>2. \A g \in Boxes : uidnext[g] \in Int
    BY UidFacts
  <2> QED
    BY <1>0, <2>1, <2>2 DEF Transferring
<1>2. PICK source : Sources(f, d, us, source)
  BY <1>0 DEF Transferring
<1>3. \A g \in Boxes, u \in Uids : (g = d => u \notin fresh) =>
        mail'[g][u] = IF moved /\ g = f /\ u \in us THEN None ELSE mail[g][u]
  BY <1>0 DEF Transferring
<1>4. \A g \in Boxes : uidnext'[g] = IF g = d THEN uidnext[g] + n ELSE uidnext[g]
  BY <1>0 DEF Transferring
<1>5. Grows
  <2>1. \A g \in Boxes : uidnext'[g] >= uidnext[g]
    BY <1>1, <1>4
  <2>2. ASSUME NEW g \in Boxes, NEW u \in Uids, u < uidnext[g], mail'[g][u] # None
        PROVE  mail[g][u] # None /\ mail'[g][u].text = mail[g][u].text
    <3>1. g = d => u \notin fresh
      BY <1>1, <2>2, UidFacts
    <3> QED
      BY <1>3, <2>2, <3>1
  <2> QED
    BY <2>1, <2>2 DEF Grows
<1>6. ASSUME NEW g \in Boxes, NEW u \in Uids
      PROVE  /\ u >= uidnext'[g] => mail'[g][u] = None
             /\ mail'[g][u] # None => mail'[g][u].text \in seen'
  <2>1. CASE g = d /\ u \in fresh
    <3>1. mail'[g][u] = mail[f][source[u]] /\ source[u] \in us
      BY <1>2, <2>1 DEF Sources
    <3>2. mail[f][source[u]] # None /\ mail[f][source[u]].text \in seen
      BY <1>1, <3>1 DEF Held, MailInv, Filled
    <3>3. u < uidnext'[g]
      BY <1>1, <1>4, <2>1
    <3> QED
      BY <1>1, <3>1, <3>2, <3>3, UidFacts
  <2>2. CASE g = d => u \notin fresh
    <3>1. mail'[g][u] = None \/ mail'[g][u] = mail[g][u]
      BY <1>3, <2>2
    <3>2. u >= uidnext'[g] => u >= uidnext[g]
      BY <1>1, <1>4, UidFacts
    <3> QED
      BY <3>1, <3>2 DEF MailInv, Filled
  <2> QED
    BY <2>1, <2>2
<1> QED
  BY <1>0, <1>5, <1>6 DEF Transferring, Filled, MailTyped

-----------------------------------------------------------------------------
(* The calls.                                                              *)

\* A step of c alone, or of none: what the others know stays true.
Quiet ==
  /\ Grows /\ MailInv' /\ uidvalidity' = uidvalidity /\ caps' = caps
  /\ seen \subseteq seen' /\ condemned \subseteq condemned'

LEMMA OtherCallKept ==
  ASSUME Core, Quiet, NEW c \in Calls, pc'[c] = pc[c], job'[c] = job[c],
         c \in misled' <=> c \in misled
  PROVE  CallInv(c)'
<1>1. CallInv(c)
  BY DEF Core
<1>2. Live(c)' <=> Live(c)
  BY DEF Quiet, Live
<1>3. CASE pc[c] \in {"new", "done"}
  BY <1>1, <1>3 DEF CallInv, Live
<1>4. CASE pc[c] \notin {"new", "done"}
  <2>1. job[c] \in Jobs /\ job[c].box \in Boxes /\ job[c].uids \subseteq Uids
    BY <1>1, <1>4 DEF CallInv, Jobs
  <2>2. /\ job'[c] \in Jobs /\ job'[c].text \in seen' \cup {None}
        /\ job'[c].selected <= uidvalidity'[job'[c].box]
        /\ pc'[c] = "moving" => job'[c].dest \in Boxes
    BY <1>1, <1>4 DEF CallInv, Quiet
  <2>3. Live(c)' /\ c \notin misled' => \A u \in job'[c].uids : u < uidnext'[job'[c].box]
    <3>1. ASSUME Live(c), c \notin misled, NEW u \in job[c].uids PROVE u < uidnext'[job[c].box]
      <4>1. u < uidnext[job[c].box] /\ uidnext'[job[c].box] >= uidnext[job[c].box]
        BY <1>1, <1>4, <2>1, <3>1 DEF CallInv, Quiet, Grows
      <4>2. u \in Int /\ uidnext[job[c].box] \in Int /\ uidnext'[job[c].box] \in Int
        BY <2>1, UidFacts DEF Core, Quiet, MailInv, Filled
      <4> QED
        BY <4>1, <4>2
    <3> QED
      BY <1>2, <3>1
  <2>4. ASSUME pc[c] \in {"appending", "reselecting"}, Live(c),
               NEW u \in job[c].uids, mail'[Drafts][u] # None
        PROVE  mail'[Drafts][u].text = job[c].text
    <3>1. job[c].box = Drafts /\ c \notin misled /\ u < uidnext[Drafts]
      BY <1>1, <1>4, <2>4 DEF CallInv
    <3>2. mail[Drafts][u] # None /\ mail'[Drafts][u].text = mail[Drafts][u].text
      BY <2>1, <2>4, <3>1, FoldersAssumption DEF Quiet, Grows
    <3> QED
      BY <1>1, <2>4, <3>2 DEF CallInv, Held
  <2>5. /\ pc'[c] \in {"appending", "reselecting"} =>
            /\ job'[c].box = Drafts /\ c \notin misled'
            /\ Live(c)' => \A u \in Held(Drafts, job[c].uids)' : mail'[Drafts][u].text = job'[c].text
        /\ pc'[c] = "reselecting" => job'[c].text \in condemned' /\ job'[c].op = "update_draft"
    BY <1>1, <1>2, <2>4 DEF CallInv, Quiet, Held
  <2>6. pc'[c] = "appending" => /\ job'[c].op \in {"create_draft", "update_draft"}
                                /\ job'[c].op = "update_draft" => job'[c].text \in seen'
    BY <1>1 DEF CallInv, Quiet
  <2> QED
    BY <1>1, <2>2, <2>3, <2>5, <2>6 DEF CallInv
<1> QED
  BY <1>3, <1>4

\* A step of the others that renumbers nothing.
LEMMA OthersKeepCore ==
  ASSUME Core, Quiet, UNCHANGED <<pc, job, misled>>
  PROVE  Core'
<1>1. \A c \in Calls : CallInv(c)'
  BY OtherCallKept
<1> QED
  BY <1>1 DEF Core, Quiet

\* A step of the call c, for which CallInv has to be shown.
LEMMA CallKeepsCore ==
  ASSUME Core, Quiet, NEW c \in Calls, NEW place \in Places, NEW j \in Jobs \cup {NoJob},
         pc' = [pc EXCEPT ![c] = place], job' = [job EXCEPT ![c] = j],
         misled' \in {misled, misled \cup {c}}, CallInv(c)'
  PROVE  Core'
<1>1. \A e \in Calls \ {c} : CallInv(e)'
  BY OtherCallKept DEF Core
<1> QED
  BY <1>1 DEF Core, Quiet

LEMMA FinishKeepsCore ==
  ASSUME Core, Quiet, NEW c \in Calls, Finish(c), misled' = misled
  PROVE  Core'
<1>1. pc'[c] = "done" /\ job'[c] = NoJob
  BY DEF Core, Finish, Goto
<1>2. CallInv(c)'
  BY <1>1, FoldersAssumption DEF CallInv, NoJob, Ops
<1> QED
  BY <1>2, CallKeepsCore DEF Finish, Goto, Places

\* A call selects its folder.
LEMMA SelectKeepsCore ==
  ASSUME Core, NEW c \in Calls, NEW f \in Boxes, NEW us \in SUBSET Uids,
         NEW place \in {"moving", "flagging", "appending"}, NEW op \in Ops,
         NEW dest \in Boxes \cup {None}, NEW text \in seen \cup {None},
         Select(c, place, op, f, us, dest, text),
         UNCHANGED <<serverVars, seen, misled, mistaken>>,
         condemned \subseteq condemned', condemned' \subseteq seen,
         op = "erase" <=> f = Trash /\ dest = None,
         op = "delete" => dest = Trash /\ f # Trash,
         place = "moving" => dest \in Boxes,
         place = "appending" => /\ f = Drafts /\ op = "update_draft" /\ text \in seen
                                /\ \A u \in Held(Drafts, us) : mail[Drafts][u].text = text
  PROVE  Core'
<1> DEFINE j == [op |-> op, box |-> f, uids |-> us, dest |-> dest, text |-> text,
                 selected |-> uidvalidity[f]]
<1>1. Quiet
  <2>1. Grows /\ Filled'
    BY StaysFilled DEF Core, serverVars
  <2> QED
    BY <2>1 DEF Core, MailInv, Quiet, serverVars
<1>2. j \in Jobs
  BY DEF Jobs, Core, MailInv
<1>3. pc' = [pc EXCEPT ![c] = place] /\ job' = [job EXCEPT ![c] = j]
  BY DEF Select, Goto
<1>4. pc'[c] = place /\ job'[c] = j
  BY <1>3 DEF Core
<1>5. CallInv(c)'
  <2>1. us \subseteq 1..uidnext[f] - 1 /\ pc[c] = "new"
    BY DEF Select
  <2>2. \A u \in us : u < uidnext[f]
    BY <2>1, UidFacts DEF Core
  <2>3. c \notin misled'
    BY <2>1 DEF Core, CallInv
  <2>4. /\ job'[c].op = op /\ job'[c].box = f /\ job'[c].uids = us /\ job'[c].dest = dest
        /\ job'[c].text = text /\ job'[c].selected = uidvalidity'[f]
    BY <1>4 DEF serverVars
  <2>5. uidvalidity'[f] \in Int
    BY FoldersAssumption DEF Core, MailInv, Validities, serverVars
  <2>6. pc'[c] \in {"moving", "flagging", "appending"} /\ job'[c] \in Jobs
    BY <1>2, <1>4
  <2>7. \A u \in job'[c].uids : u < uidnext'[f]
    BY <2>2, <2>4 DEF serverVars
  <2>8. pc'[c] = "appending" =>
          /\ f = Drafts /\ op = "update_draft"
          /\ \A u \in Held(Drafts, job[c].uids)' : mail'[Drafts][u].text = text
    BY <1>4, <2>4 DEF serverVars, Held
  <2> QED
    BY <1>4, <2>3, <2>4, <2>5, <2>6, <2>7, <2>8 DEF CallInv, serverVars
<1>6. misled' \in {misled, misled \cup {c}} /\ place \in Places
  BY DEF Places
<1> QED
  BY <1>1, <1>2, <1>3, <1>5, <1>6, CallKeepsCore

LEMMA StartKeepsCore == ASSUME Core, NEW c \in Calls, Start(c) PROVE Core'
<1>1. ASSUME NEW f \in Boxes, NEW d \in Boxes, NEW us \in SUBSET Uids, Move(c, f, us, d)
      PROVE  Core'
  <2>1. d # None /\ "move" \in Ops
    BY FoldersAssumption DEF Ops
  <2> QED
    BY <1>1, <2>1, SelectKeepsCore DEF Move, historyVars, Core, MailInv
<1>2. ASSUME NEW f \in Boxes, NEW us \in SUBSET Uids, Delete(c, f, us) PROVE Core'
  <2>1. Trash # None /\ Trash \in Boxes /\ "delete" \in Ops
    BY FoldersAssumption DEF Ops
  <2> QED
    BY <1>2, <2>1, SelectKeepsCore DEF Delete, historyVars, Core, MailInv
<1>3. ASSUME NEW us \in SUBSET Uids, DeletePermanent(c, us) PROVE Core'
  <2>1. Trash \in Boxes /\ "erase" \in Ops
    BY FoldersAssumption DEF Ops
  <2>2. condemned \subseteq condemned' /\ condemned' \subseteq seen
    BY <1>3, <2>1 DEF DeletePermanent, TextsAt, Held, Core, MailInv, Filled
  <2> QED
    BY <1>3, <2>1, <2>2, SelectKeepsCore DEF DeletePermanent
<1>4. ASSUME NEW u \in Uids, DeleteDraft(c, u) PROVE Core'
  <2>1. Drafts \in Boxes /\ Drafts # Trash /\ "delete_draft" \in Ops /\ {u} \in SUBSET Uids
    BY FoldersAssumption DEF Ops
  <2>2. condemned \subseteq condemned' /\ condemned' \subseteq seen
    BY <1>4, <2>1 DEF DeleteDraft, TextsAt, Held, Core, MailInv, Filled
  <2> QED
    BY <1>4, <2>1, <2>2, SelectKeepsCore DEF DeleteDraft
<1>5. ASSUME NEW u \in Uids, ReadDraft(c, u) PROVE Core'
  <2>1. Drafts \in Boxes /\ Drafts # Trash /\ "update_draft" \in Ops /\ {u} \in SUBSET Uids
    BY FoldersAssumption DEF Ops
  <2>2. mail[Drafts][u].text \in seen
    BY <1>5, <2>1 DEF ReadDraft, Core, MailInv, Filled
  <2>3. \A v \in Held(Drafts, {u}) : mail[Drafts][v].text = mail[Drafts][u].text
    BY DEF Held
  <2> QED
    BY <1>5, <2>1, <2>2, <2>3, SelectKeepsCore DEF ReadDraft, historyVars, Core, MailInv
<1>6. ASSUME CreateDraft(c) PROVE Core'
  <2> DEFINE j == [op |-> "create_draft", box |-> Drafts, uids |-> {}, dest |-> None,
                   text |-> None, selected |-> uidvalidity[Drafts]]
  <2>1. Quiet
    <3>1. Grows /\ Filled'
      BY <1>6, StaysFilled DEF CreateDraft, Core, serverVars, historyVars
    <3> QED
      BY <1>6, <3>1 DEF CreateDraft, Core, MailInv, Quiet, serverVars, historyVars
  <2>2. pc' = [pc EXCEPT ![c] = "appending"] /\ job' = [job EXCEPT ![c] = j]
    BY <1>6 DEF CreateDraft, Goto
  <2>3. j \in Jobs /\ Drafts \in Boxes /\ Drafts # Trash
    BY FoldersAssumption DEF Jobs, Ops, Core, MailInv
  <2>4. pc'[c] = "appending" /\ job'[c] = j /\ pc[c] = "new"
    BY <1>6, <2>2 DEF CreateDraft, Core
  <2>5. c \notin misled' /\ misled' = misled
    BY <1>6, <2>4 DEF CreateDraft, Core, CallInv, historyVars
  <2>6. /\ job'[c].op = "create_draft" /\ job'[c].box = Drafts /\ job'[c].uids = {}
        /\ job'[c].text = None /\ job'[c].selected = uidvalidity'[Drafts]
        /\ uidvalidity'[Drafts] \in Int
    BY <1>6, <2>3, <2>4, FoldersAssumption DEF CreateDraft, serverVars, Core, MailInv, Validities
  <2>7. CallInv(c)'
    BY <2>3, <2>4, <2>5, <2>6 DEF CallInv, Held
  <2> QED
    BY <2>1, <2>2, <2>3, <2>5, <2>7, CallKeepsCore DEF Places
<1>7. ASSUME Refuse(c) PROVE Core'
  <2>1. Quiet
    <3>1. Grows /\ Filled'
      BY <1>7, StaysFilled DEF Refuse, Core, serverVars, historyVars
    <3> QED
      BY <1>7, <3>1 DEF Refuse, Core, MailInv, Quiet, serverVars, historyVars
  <2>2. job[c] = NoJob
    BY <1>7 DEF Refuse, Core, CallInv
  <2>3. Finish(c)
    BY <1>7, <2>2 DEF Refuse, Finish, Core
  <2> QED
    BY <1>7, <2>1, <2>3, FinishKeepsCore DEF Refuse, historyVars
<1> QED
  BY <1>1, <1>2, <1>3, <1>4, <1>5, <1>6, <1>7 DEF Start

-----------------------------------------------------------------------------
(* The commands of a call, by their effect.                                *)

\* What a command does to the folders and to the history.
Effect(c) ==
  LET f == job[c].box
  IN /\ UNCHANGED <<caps, uidvalidity>>
     /\ condemned' \in {condemned, condemned \cup ({job[c].text} \ {None})}
     /\ \/ UNCHANGED <<mail, uidnext, seen, mistaken>>
        \/ /\ pc[c] = "moving" /\ Live(c)
           /\ \E us \in SUBSET Held(f, job[c].uids) :
                /\ "MOVE" \notin caps => us = Held(f, job[c].uids)
                /\ Transfers(f, job[c].dest, us, "MOVE" \in caps)
           /\ UNCHANGED <<seen, mistaken>>
        \/ /\ pc[c] = "appending"
           /\ \E t \in Texts \ seen : Adds(Drafts, t) /\ seen' = seen \cup {t}
           /\ UNCHANGED mistaken
        \/ /\ pc[c] = "flagging" /\ Live(c)
           /\ \E us \in SUBSET job[c].uids : Flags(f, us, "ours") /\ Mistake(c, us)
           /\ UNCHANGED seen
        \/ /\ pc[c] = "expunging" /\ Live(c)
           /\ \E us \in SUBSET Expunged(c) : Drops(f, us) /\ Mistake(c, us)
           /\ UNCHANGED seen

\* What it does to the call.
Control(c) ==
  \/ Finish(c) /\ UNCHANGED misled
  \/ /\ pc[c] = "moving" /\ Goto(c, "flagging") /\ UNCHANGED <<job, misled, condemned>>
     /\ Live(c) /\ Transfers(job[c].box, job[c].dest, Held(job[c].box, job[c].uids), FALSE)
  \/ /\ pc[c] = "appending" /\ Goto(c, "reselecting") /\ UNCHANGED <<job, misled>>
     /\ job[c].op # "create_draft" /\ condemned' = condemned \cup ({job[c].text} \ {None})
  \/ Reselect(c)
  \/ pc[c] = "flagging" /\ Live(c) /\ Goto(c, "expunging") /\ UNCHANGED <<job, misled, condemned>>

LEMMA CommandEffect ==
  ASSUME Core, NEW c \in Calls, Command(c)
  PROVE  Effect(c) /\ Control(c) /\ pc[c] \notin {"new", "done"}
<1> DEFINE f == job[c].box
           held == Held(f, job[c].uids)
<1>1. CASE MoveMessages(c)
  <2>1. TRUE = ("MOVE" \in caps)
    BY <1>1 DEF MoveMessages
  <2>2. Transfers(f, job[c].dest, held, "MOVE" \in caps)
    BY <1>1, <2>1 DEF MoveMessages, Transfers
  <2> QED
    BY <1>1, <2>2 DEF MoveMessages, Effect, Control, historyVars
<1>2. CASE CopyMessages(c)
  <2>1. FALSE = ("MOVE" \in caps)
    BY <1>2 DEF CopyMessages
  <2>2. Transfers(f, job[c].dest, held, FALSE)
    BY <1>2 DEF CopyMessages, Transfers
  <2>3. Transfers(f, job[c].dest, held, "MOVE" \in caps)
    BY <2>1, <2>2
  <2> QED
    BY <1>2, <2>2, <2>3 DEF CopyMessages, Effect, Control, historyVars
<1>3. ASSUME NEW t \in Texts, AppendDraft(c, t) PROVE Effect(c) /\ Control(c) /\ pc[c] = "appending"
  <2>1. Adds(Drafts, t)
    BY <1>3 DEF AppendDraft, Adds
  <2> QED
    BY <1>3, <2>1 DEF AppendDraft, Effect, Control
<1>4. CASE Reselect(c)
  BY <1>4 DEF Reselect, Effect, Control, serverVars
<1>5. CASE StoreDeleted(c)
  <2>1. Flags(f, job[c].uids, "ours") /\ Mistake(c, job[c].uids)
    BY <1>5 DEF StoreDeleted, Flags
  <2> QED
    BY <1>5, <2>1 DEF StoreDeleted, Effect, Control
<1>6. CASE ExpungeUids(c)
  <2>1. \/ UNCHANGED <<mail, uidnext, seen, mistaken>>
        \/ Drops(f, Expunged(c)) /\ Mistake(c, Expunged(c))
    BY <1>6 DEF ExpungeUids, Drops
  <2> QED
    BY <1>6, <2>1 DEF ExpungeUids, Effect, Control
<1>7. CASE Fail(c)
  <2>0. /\ UNCHANGED <<caps, uidvalidity, condemned, misled>> /\ Finish(c)
        /\ pc[c] \notin {"new", "done"}
    BY <1>7 DEF Fail
  <2>1. job[c] \in Jobs /\ job[c].uids \in SUBSET Uids
    BY <2>0 DEF Core, CallInv, Jobs
  <2>2. ASSUME pc[c] = "moving", Room(job[c].dest, Cardinality(job[c].uids)),
               NEW us \in SUBSET held
        PROVE  Room(job[c].dest, Cardinality(us))
    <3>1. us \in SUBSET job[c].uids /\ IsFiniteSet(job[c].uids)
      BY <2>1, UidsFinite DEF Held
    <3>2. Cardinality(us) <= Cardinality(job[c].uids) /\ Cardinality(us) \in Nat
          /\ Cardinality(job[c].uids) \in Nat
      BY <3>1, FS_Subset, FS_CardinalityType
    <3>3. uidnext[job[c].dest] \in Int
      BY <2>0, <2>2, UidFacts DEF Core, CallInv
    <3> QED
      BY <2>2, <3>2, <3>3, FoldersAssumption DEF Room
  <2>3. \/ UNCHANGED <<mail, uidnext, seen, mistaken>>
        \/ /\ pc[c] = "moving" /\ Live(c)
           /\ \E us \in SUBSET held :
                /\ "MOVE" \notin caps => us = held
                /\ Transfers(f, job[c].dest, us, "MOVE" \in caps)
           /\ UNCHANGED <<seen, mistaken>>
        \/ /\ pc[c] = "appending"
           /\ \E t \in Texts \ seen : Adds(Drafts, t) /\ seen' = seen \cup {t}
           /\ UNCHANGED mistaken
        \/ /\ pc[c] = "flagging" /\ Live(c)
           /\ \E us \in SUBSET job[c].uids : Flags(f, us, "ours") /\ Mistake(c, us)
           /\ UNCHANGED seen
        \/ /\ pc[c] = "expunging" /\ Live(c)
           /\ \E us \in SUBSET Expunged(c) : Drops(f, us) /\ Mistake(c, us)
           /\ UNCHANGED seen
    BY <1>7, <2>2 DEF Fail, Transfers, Adds, Flags, Drops
  <2> QED
    BY <2>0, <2>3 DEF Effect, Control
<1> QED
  BY <1>1, <1>2, <1>3, <1>4, <1>5, <1>6, <1>7
     DEF Command, MoveMessages, CopyMessages, Reselect, StoreDeleted, ExpungeUids

LEMMA EffectQuiet ==
  ASSUME Core, NEW c \in Calls, Effect(c), pc[c] \notin {"new", "done"}
  PROVE  Quiet
<1> DEFINE f == job[c].box
<1>0. /\ job[c] \in Jobs /\ f \in Boxes /\ job[c].uids \in SUBSET Uids
      /\ job[c].text \in seen \cup {None} /\ MailInv
      /\ pc[c] = "moving" => job[c].dest \in Boxes
  BY DEF Core, CallInv, Jobs
<1>1. /\ UNCHANGED <<caps, uidvalidity>> /\ condemned \subseteq condemned'
      /\ condemned' \subseteq seen
  BY <1>0 DEF Effect, MailInv
<1>2. ASSUME NEW us \in SUBSET Uids, Mistake(c, us) PROVE mistaken' \subseteq seen
  BY <1>0, <1>2 DEF Mistake, TextsAt, Held, MailInv, Filled
<1>3. Grows /\ Filled' /\ mistaken' \subseteq seen /\ seen \subseteq seen' /\ seen' \subseteq Texts
  <2>1. CASE UNCHANGED <<mail, uidnext, seen, mistaken>>
    BY <1>0, <2>1, StaysFilled DEF MailInv
  <2>2. ASSUME NEW us \in SUBSET Held(f, job[c].uids), pc[c] = "moving",
               Transfers(f, job[c].dest, us, "MOVE" \in caps), UNCHANGED <<seen, mistaken>>
        PROVE  Grows /\ Filled' /\ mistaken' \subseteq seen
    <3>1. us \in SUBSET Held(f, Uids)
      BY <1>0 DEF Held
    <3> QED
      BY <1>0, <2>2, <3>1, TransfersFills DEF MailInv
  <2>3. ASSUME NEW t \in Texts \ seen, Adds(Drafts, t), seen' = seen \cup {t}, UNCHANGED mistaken
        PROVE  Grows /\ Filled' /\ mistaken' \subseteq seen
    BY <1>0, <2>3, AddsFills, FoldersAssumption DEF MailInv
  <2>4. ASSUME NEW us \in SUBSET job[c].uids, Flags(f, us, "ours"), Mistake(c, us), UNCHANGED seen
        PROVE  Grows /\ Filled' /\ mistaken' \subseteq seen
    BY <1>0, <1>2, <2>4, FlagsFills
  <2>5. ASSUME NEW us \in SUBSET Expunged(c), Drops(f, us), Mistake(c, us), UNCHANGED seen
        PROVE  Grows /\ Filled' /\ mistaken' \subseteq seen
    <3>1. us \in SUBSET Uids
      BY <1>0 DEF Expunged, Held
    <3> QED
      BY <1>0, <1>2, <2>5, <3>1, DropsFills
  <2> QED
    BY <1>0, <2>1, <2>2, <2>3, <2>4, <2>5 DEF Effect, MailInv
<1> QED
  BY <1>0, <1>1, <1>3 DEF Quiet, MailInv

LEMMA CommandKeepsCore == ASSUME Core, NEW c \in Calls, Command(c) PROVE Core'
<1>0. /\ Effect(c) /\ Control(c) /\ pc[c] \notin {"new", "done"} /\ Quiet
      /\ CallInv(c) /\ job[c] \in Jobs /\ job[c].box \in Boxes
      /\ job[c].uids \in SUBSET Uids
  BY CommandEffect, EffectQuiet DEF Core, CallInv, Jobs
<1>1. CASE Finish(c) /\ UNCHANGED misled
  BY <1>0, <1>1, FinishKeepsCore
\* The calls that stay on their folder know of it what they knew.
<1>2. ASSUME NEW place \in {"flagging", "expunging", "reselecting"}, UNCHANGED <<job, misled>>,
             Goto(c, place),
             place = "reselecting" => pc[c] = "appending" /\ job[c].op # "create_draft"
                                      /\ condemned' = condemned \cup ({job[c].text} \ {None})
      PROVE  Core'
  <2>1. pc' = [pc EXCEPT ![c] = place] /\ pc'[c] = place /\ place \in Places
    BY <1>2 DEF Core, Goto, Places
  <2>2. CallInv(c)'
    <3>1. Live(c)' <=> Live(c)
      BY <1>0, <1>2 DEF Quiet, Live
    <3>2. Live(c)' /\ c \notin misled' => \A u \in job'[c].uids : u < uidnext'[job'[c].box]
      <4>1. ASSUME Live(c), c \notin misled, NEW u \in job[c].uids
            PROVE  u < uidnext'[job[c].box]
        <5>1. u < uidnext[job[c].box] /\ uidnext'[job[c].box] >= uidnext[job[c].box]
          BY <1>0, <4>1 DEF CallInv, Quiet, Grows
        <5>2. u \in Int /\ uidnext[job[c].box] \in Int /\ uidnext'[job[c].box] \in Int
          BY <1>0, UidFacts DEF Core, Quiet, MailInv, Filled
        <5> QED
          BY <5>1, <5>2
      <4> QED
        BY <1>2, <3>1, <4>1
    <3>3. place = "reselecting" =>
            /\ job'[c].box = Drafts /\ c \notin misled'
            /\ Live(c)' => \A u \in Held(Drafts, job[c].uids)' : mail'[Drafts][u].text = job'[c].text
      <4>1. ASSUME pc[c] = "appending", Live(c), NEW u \in job[c].uids, mail'[Drafts][u] # None
            PROVE  mail'[Drafts][u].text = job[c].text
        <5>1. job[c].box = Drafts /\ u < uidnext[Drafts]
          BY <1>0, <4>1 DEF CallInv
        <5>2. mail[Drafts][u] # None /\ mail'[Drafts][u].text = mail[Drafts][u].text
          BY <1>0, <4>1, <5>1 DEF Quiet, Grows
        <5> QED
          BY <1>0, <4>1, <5>2 DEF CallInv, Held
      <4> QED
        BY <1>0, <1>2, <3>1, <4>1 DEF CallInv, Held
    <3>4. place = "reselecting" => job'[c].text \in condemned' /\ job'[c].op = "update_draft"
      <4>1. ASSUME place = "reselecting" PROVE job[c].text # None
        BY <1>0, <1>2, <4>1, FoldersAssumption DEF CallInv, Core, MailInv
      <4> QED
        BY <1>0, <1>2, <4>1 DEF CallInv
    <3>5. job'[c].text \in seen' \cup {None} /\ job'[c].selected <= uidvalidity'[job'[c].box]
      BY <1>0, <1>2 DEF CallInv, Quiet
    <3> QED
      BY <1>0, <1>2, <2>1, <3>2, <3>3, <3>4, <3>5 DEF CallInv
  <2>3. job' = [job EXCEPT ![c] = job[c]]
    BY <1>2 DEF Core
  <2> QED
    BY <1>0, <1>2, <2>1, <2>2, <2>3, CallKeepsCore
<1>3. CASE Reselect(c)
  <2> DEFINE j == [job[c] EXCEPT !.selected = uidvalidity[Drafts]]
  <2>1. /\ pc[c] = "reselecting" /\ pc' = [pc EXCEPT ![c] = "flagging"]
        /\ job' = [job EXCEPT ![c] = j]
        /\ misled' = (IF Live(c) THEN misled ELSE misled \cup {c})
        /\ UNCHANGED serverVars
    BY <1>3 DEF Reselect, Goto
  <2>2. pc'[c] = "flagging" /\ job'[c] = j
    BY <2>1 DEF Core
  <2>3. /\ job[c].box = Drafts /\ job[c].op = "update_draft"
        /\ Drafts \in Boxes /\ Drafts # Trash /\ uidvalidity[Drafts] \in Validities
    BY <1>0, <2>1, FoldersAssumption DEF CallInv, Core, MailInv
  <2>4. job[c] \in [op : Ops, box : Boxes, uids : SUBSET Uids, dest : Boxes \cup {None},
                    text : Texts \cup {None}, selected : Validities]
    BY <1>0 DEF Jobs
  <2>5. /\ j \in Jobs /\ j.op = job[c].op /\ j.box = job[c].box /\ j.uids = job[c].uids
        /\ j.dest = job[c].dest /\ j.text = job[c].text /\ j.selected = uidvalidity[Drafts]
    BY <2>3, <2>4 DEF Jobs
  <2>6. CallInv(c)'
    <3>1. Live(c)'
      BY <2>1, <2>2, <2>3, <2>5 DEF Live, serverVars
    <3>2. c \notin misled' => \A u \in job'[c].uids : u < uidnext'[job'[c].box]
      BY <1>0, <2>1, <2>2, <2>5 DEF CallInv, serverVars
    <3>3. job'[c].selected <= uidvalidity'[job'[c].box]
      <4>1. job'[c].selected = uidvalidity[Drafts] /\ uidvalidity'[job'[c].box] = uidvalidity[Drafts]
        BY <2>1, <2>2, <2>3, <2>5 DEF serverVars
      <4>2. uidvalidity[Drafts] \in Int
        BY <2>3 DEF Validities
      <4> QED
        BY <4>1, <4>2
    <3>4. job'[c].text \in seen' \cup {None}
      BY <1>0, <2>2, <2>5 DEF CallInv, Quiet
    <3> HIDE DEF j
    <3> QED
      BY <2>2, <2>3, <2>5, <3>1, <3>2, <3>3, <3>4 DEF CallInv
  <2> HIDE DEF j
  <2> QED
    BY <1>0, <2>1, <2>5, <2>6, CallKeepsCore DEF Places
<1> QED
  BY <1>0, <1>1, <1>2, <1>3 DEF Control

-----------------------------------------------------------------------------
(* The others.                                                             *)

\* A renumbering, with the order of the messages afterwards.
Reorders(f, order) ==
  LET held == Held(f, Uids)
      n == Cardinality(held)
  IN /\ n \in Nat /\ n <= MaxUid /\ order \in [1..n -> held]
     /\ \A u \in held : \E i \in 1..n : order[i] = u
     /\ \A i, j \in 1..n : order[i] = order[j] => i = j
     /\ \A g \in Boxes : uidnext'[g] = IF g = f THEN n + 1 ELSE uidnext[g]
     /\ \A g \in Boxes, u \in Uids :
          mail'[g][u] = IF g # f THEN mail[g][u]
                        ELSE IF u <= n THEN mail[f][order[u]] ELSE None
     /\ uidvalidity'[f] > uidvalidity[f]
     /\ \A g \in Boxes \ {f} : uidvalidity'[g] = uidvalidity[g]
     /\ Filled' /\ uidvalidity' \in [Boxes -> Validities]

LEMMA RenumberFacts ==
  ASSUME MailInv, NEW f \in Boxes, Renumber(f)
  PROVE  \E order : Reorders(f, order)
<1> DEFINE held == Held(f, Uids)
           n == Cardinality(held)
<1>1. IsFiniteSet(held) /\ n \in Nat /\ n <= MaxUid /\ held \in SUBSET Uids
  BY UidsFinite DEF Held
<1>2. PICK v \in Validities :
        /\ \A g \in Boxes : uidvalidity[g] < v
        /\ uidvalidity' = [uidvalidity EXCEPT ![f] = v]
  BY DEF Renumber
<1>3. PICK order \in [1..n -> held] :
        /\ \A u \in held : \E i \in 1..n : order[i] = u
        /\ mail' = [mail EXCEPT ![f] =
             [u \in Uids |-> IF u <= n THEN mail[f][order[u]] ELSE None]]
  BY DEF Renumber
<1>4. \A i, j \in 1..n : order[i] = order[j] => i = j
  <2>1. IsFiniteSet(1..n) /\ Cardinality(1..n) = n
    BY <1>1, FS_Interval
  <2>2. order \in Surjection(1..n, held)
    BY <1>3 DEF Surjection
  <2>3. order \in Injection(1..n, held)
    BY <1>1, <2>1, <2>2, FS_SurjSameCardinalityImpliesInj
  <2> QED
    BY <2>3 DEF Injection, IsInjective
<1>5. \A g \in Boxes : uidnext'[g] = IF g = f THEN n + 1 ELSE uidnext[g]
  BY DEF Renumber, MailInv, Filled
<1>6. uidnext' \in [Boxes -> 1..MaxUid + 1]
  BY <1>1, FoldersAssumption DEF Renumber, MailInv, Filled
<1>7. \A g \in Boxes, u \in Uids :
        mail'[g][u] = IF g # f THEN mail[g][u]
                      ELSE IF u <= n THEN mail[f][order[u]] ELSE None
  BY <1>3 DEF MailInv, Filled
<1>8. ASSUME NEW u \in Uids, u <= n
      PROVE  /\ order[u] \in Uids /\ mail[f][order[u]] \in Messages
             /\ mail[f][order[u]] # None /\ mail[f][order[u]].text \in seen
  <2>1. u \in 1..n
    BY <1>1, <1>8, FoldersAssumption DEF Uids
  <2>2. order[u] \in held
    BY <1>3, <2>1
  <2> QED
    BY <2>2 DEF Held, MailInv, Filled
<1>9. mail' \in [Boxes -> [Uids -> Messages \cup {None}]]
  <2>1. [u \in Uids |-> IF u <= n THEN mail[f][order[u]] ELSE None] \in [Uids -> Messages \cup {None}]
    BY <1>8
  <2> QED
    BY <1>3, <2>1 DEF MailInv, Filled
<1>10. ASSUME NEW g \in Boxes, NEW u \in Uids
       PROVE  /\ u >= uidnext'[g] => mail'[g][u] = None
              /\ mail'[g][u] # None => mail'[g][u].text \in seen'
  <2>1. seen' = seen
    BY DEF Renumber, historyVars
  <2>2. CASE g # f
    BY <1>5, <1>7, <2>1, <2>2 DEF MailInv, Filled
  <2>3. CASE g = f
    <3>1. u \in Int
      BY UidFacts
    <3> QED
      BY <1>1, <1>5, <1>7, <1>8, <2>1, <2>3, <3>1
  <2> QED
    BY <2>2, <2>3
<1>11. Filled'
  BY <1>6, <1>9, <1>10 DEF Filled
<1>12. /\ uidvalidity' \in [Boxes -> Validities] /\ uidvalidity'[f] > uidvalidity[f]
       /\ \A g \in Boxes \ {f} : uidvalidity'[g] = uidvalidity[g]
  BY <1>2, FoldersAssumption DEF MailInv, Validities
<1> QED
  BY <1>1, <1>3, <1>4, <1>5, <1>7, <1>11, <1>12 DEF Reorders

\* A session on the folder that is renumbered does not survive it.
LEMMA RenumberKeepsCore == ASSUME Core, NEW f \in Boxes, Renumber(f) PROVE Core'
<1>1. PICK order : Reorders(f, order)
  BY RenumberFacts DEF Core
<1>2. UNCHANGED <<caps, pc, job, seen, condemned, misled, mistaken>>
  BY DEF Renumber, historyVars
<1>3. MailInv'
  BY <1>1, <1>2 DEF Core, MailInv, Reorders
<1>4. ASSUME NEW c \in Calls PROVE CallInv(c)'
  <2>1. CallInv(c)
    BY DEF Core
  <2>2. CASE pc[c] \in {"new", "done"}
    BY <1>2, <2>1, <2>2 DEF CallInv
  <2>3. CASE pc[c] \notin {"new", "done"} /\ job[c].box = f
    <3>1. /\ uidvalidity[f] \in Int /\ uidvalidity'[f] \in Int /\ job[c].selected \in Int
          /\ job[c].selected <= uidvalidity[f]
      <4>1. job[c] \in Jobs /\ job[c].selected <= uidvalidity[f]
        BY <2>1, <2>3 DEF CallInv
      <4>2. job[c].selected \in Validities
        BY <4>1 DEF Jobs
      <4>3. uidvalidity[f] \in Validities /\ uidvalidity'[f] \in Validities
        BY <1>3 DEF Core, MailInv
      <4> QED
        BY <4>1, <4>2, <4>3 DEF Validities
    <3>2. job[c].selected < uidvalidity'[f]
      BY <1>1, <3>1 DEF Reorders
    <3>3. ~ Live(c)' /\ job'[c].selected <= uidvalidity'[job'[c].box]
      BY <1>2, <2>3, <3>1, <3>2 DEF Live
    <3> QED
      BY <1>2, <2>1, <2>3, <3>3 DEF CallInv
  <2>4. CASE pc[c] \notin {"new", "done"} /\ job[c].box # f
    <3>1. job[c].box \in Boxes /\ job[c].uids \in SUBSET Uids
      BY <2>1, <2>4 DEF CallInv, Jobs
    <3>2. /\ uidvalidity'[job[c].box] = uidvalidity[job[c].box]
          /\ uidnext'[job[c].box] = uidnext[job[c].box]
          /\ \A u \in job[c].uids : mail'[job[c].box][u] = mail[job[c].box][u]
      BY <1>1, <2>4, <3>1 DEF Reorders
    <3>3. Live(c)' <=> Live(c)
      BY <1>2, <3>2 DEF Live
    <3> QED
      BY <1>2, <2>1, <2>4, <3>1, <3>2, <3>3 DEF CallInv, Held
  <2> QED
    BY <2>2, <2>3, <2>4
<1> QED
  BY <1>2, <1>3, <1>4 DEF Core

OutOf(f) == {u \in Held(f, Uids) : mail[f][u].deleted # "no"}

LEMMA OthersKeepCoreAll == ASSUME Core, Others PROVE Core'
<1>1. PICK f \in Boxes : \/ \E t \in Texts : Arrive(f, t)
                         \/ \E u \in Uids : FlagDeleted(f, u)
                         \/ ExpungeAll(f)
                         \/ Renumber(f)
  BY DEF Others
<1>2. ASSUME NEW t \in Texts, Arrive(f, t) PROVE Core'
  <2>1. Adds(f, t)
    BY <1>2 DEF Arrive, Adds
  <2>2. Grows /\ Filled'
    BY <1>2, <2>1, AddsFills DEF Core, Arrive
  <2> QED
    BY <1>2, <2>2, OthersKeepCore DEF Arrive, Core, MailInv, Quiet
<1>3. ASSUME NEW u \in Uids, FlagDeleted(f, u) PROVE Core'
  <2>1. Flags(f, {u}, "theirs")
    BY <1>3 DEF FlagDeleted, Flags
  <2>2. Grows /\ Filled'
    BY <1>3, <2>1, FlagsFills DEF Core, FlagDeleted, historyVars
  <2> QED
    BY <1>3, <2>2, OthersKeepCore DEF FlagDeleted, historyVars, Core, MailInv, Quiet
<1>4. CASE ExpungeAll(f)
  <2>1. Drops(f, OutOf(f))
    BY <1>4 DEF ExpungeAll, Drops, OutOf
  <2>2. Grows /\ Filled'
    BY <1>4, <2>1, DropsFills DEF Core, ExpungeAll
  <2>3. condemned \subseteq condemned' /\ condemned' \subseteq seen
    BY <1>4 DEF ExpungeAll, Core, MailInv, Filled, Held
  <2> QED
    BY <1>4, <2>2, <2>3, OthersKeepCore DEF ExpungeAll, Core, MailInv, Quiet
<1>5. CASE Renumber(f)
  BY <1>5, RenumberKeepsCore
<1> QED
  BY <1>1, <1>2, <1>3, <1>4, <1>5

LEMMA CoreKept == ASSUME Core, [Next]_vars PROVE Core'
<1>1. CASE Others
  BY <1>1, OthersKeepCoreAll
<1>2. ASSUME NEW c \in Calls, Start(c) \/ Command(c) PROVE Core'
  BY <1>2, StartKeepsCore, CommandKeepsCore
<1>3. CASE UNCHANGED vars
  <2>1. \A c \in Calls : Live(c)' <=> Live(c)
    BY <1>3 DEF vars, Live
  <2> QED
    BY <1>3, <2>1 DEF vars, Core, MailInv, Filled, CallInv, Held
<1> QED
  BY <1>1, <1>2, <1>3 DEF Next

-----------------------------------------------------------------------------
(* No text ceases to be sound somewhere but those that may.                *)

NoNewDoom == \A f \in Boxes, u \in Uids : Doomed(f, u)' => Doomed(f, u)
SoundKept ==
  \A t \in Texts : SoundSomewhere(t) => t \in condemned' \cup mistaken' \/ SoundSomewhere(t)'

LEMMA SoundStep ==
  ASSUME Core, SoundInv, SoundKept, condemned \cup mistaken \subseteq condemned' \cup mistaken',
         \A t \in seen' \ seen : SoundSomewhere(t)'
  PROVE  SoundInv'
  BY DEF SoundInv, SoundKept, Core, MailInv

\* What a call is about to remove was there when it began.
LEMMA DoomedBelow ==
  ASSUME Core, NEW f \in Boxes, NEW u \in Uids, Doomed(f, u) PROVE u < uidnext[f]
  BY DEF Core, CallInv, Doomed, DoomedBy

LEMMA SoundBelow ==
  ASSUME Core, NEW f \in Boxes, NEW u \in Uids, mail[f][u] # None PROVE u < uidnext[f]
  BY UidFacts DEF Core, MailInv, Filled

LEMMA AddsSound ==
  ASSUME Core, NEW f \in Boxes, NEW t \in Texts, Adds(f, t), NoNewDoom
  PROVE  SoundKept /\ SoundSomewhere(t)'
<1>1. Added(f, t)
  BY AddsFacts DEF Core
<1>2. ASSUME NEW s \in Texts, NEW g \in Boxes, NEW u \in Uids, Sound(g, u), mail[g][u].text = s
      PROVE  SoundSomewhere(s)'
  <2>1. ~(g = f /\ u = uidnext[f])
    BY <1>2, SoundBelow, UidFacts DEF Sound, Core
  <2>2. mail'[g][u] = mail[g][u]
    BY <1>1, <2>1 DEF Added
  <2> QED
    BY <1>2, <2>2 DEF Sound, SoundSomewhere, NoNewDoom
<1>3. SoundSomewhere(t)'
  <2>1. uidnext[f] \in Uids /\ mail'[f][uidnext[f]] = [text |-> t, deleted |-> "no"]
    BY <1>1 DEF Added
  <2>2. ~ Doomed(f, uidnext[f])
    BY <2>1, DoomedBelow, UidFacts DEF Core
  <2>3. PICK u \in Uids : u = uidnext[f]
    BY <2>1
  <2>4. ~ Doomed(f, u)'
    BY <2>2, <2>3 DEF NoNewDoom
  <2>5. mail'[f][u] # None /\ mail'[f][u].deleted # "ours" /\ mail'[f][u].text = t
    <3>1. [text |-> t, deleted |-> "no"] \in Messages
      BY DEF Messages
    <3> QED
      BY <2>1, <2>3, <3>1, NoMessageIsNone
  <2> QED
    BY <2>4, <2>5 DEF Sound, SoundSomewhere
<1> QED
  BY <1>2, <1>3 DEF SoundKept, SoundSomewhere

LEMMA DropsSound ==
  ASSUME Core, NEW f \in Boxes, NEW us, Drops(f, us), NoNewDoom,
         \A u \in Uids : u \in us /\ Sound(f, u) => mail[f][u].text \in condemned' \cup mistaken'
  PROVE  SoundKept
<1>1. ASSUME NEW s \in Texts, NEW g \in Boxes, NEW u \in Uids, Sound(g, u), mail[g][u].text = s
      PROVE  s \in condemned' \cup mistaken' \/ SoundSomewhere(s)'
  <2>1. CASE g = f /\ u \in us
    BY <1>1, <2>1
  <2>2. CASE ~(g = f /\ u \in us)
    <3>1. mail'[g][u] = mail[g][u]
      BY <2>2, DropsFacts DEF Core
    <3> QED
      BY <1>1, <3>1 DEF Sound, SoundSomewhere, NoNewDoom
  <2> QED
    BY <2>1, <2>2
<1> QED
  BY <1>1 DEF SoundKept, SoundSomewhere

LEMMA FlagsSound ==
  ASSUME Core, NEW f \in Boxes, NEW us, NEW who \in {"ours", "theirs"}, Flags(f, us, who),
         NoNewDoom,
         \A u \in Uids : u \in us /\ Sound(f, u) =>
           who = "theirs" \/ mail[f][u].text \in condemned' \cup mistaken'
  PROVE  SoundKept
<1>1. ASSUME NEW s \in Texts, NEW g \in Boxes, NEW u \in Uids, Sound(g, u), mail[g][u].text = s
      PROVE  s \in condemned' \cup mistaken' \/ SoundSomewhere(s)'
  <2>0. IF g = f /\ u \in us
        THEN mail'[g][u] \in Messages /\ mail'[g][u].text = s /\ mail'[g][u].deleted = who
        ELSE mail'[g][u] = mail[g][u]
    BY <1>1, FlagsFacts DEF Core, Sound
  <2>1. CASE g = f /\ u \in us /\ who # "theirs"
    BY <1>1, <2>1
  <2>2. CASE ~(g = f /\ u \in us) \/ who = "theirs"
    <3>1. mail'[g][u] # None /\ mail'[g][u].text = s /\ mail'[g][u].deleted # "ours"
      BY <1>1, <2>0, <2>2, NoMessageIsNone DEF Sound
    <3> QED
      BY <1>1, <3>1 DEF Sound, SoundSomewhere, NoNewDoom
  <2> QED
    BY <2>1, <2>2
<1> QED
  BY <1>1 DEF SoundKept, SoundSomewhere

\* With a transfer, the call may from now on be about to remove what it copied.
LEMMA TransfersSound ==
  ASSUME Core, NEW f \in Boxes, NEW d \in Boxes, NEW us \in SUBSET Held(f, Uids),
         NEW moved, Transfers(f, d, us, moved),
         \A g \in Boxes, u \in Uids :
           Doomed(g, u)' => \/ Doomed(g, u)
                            \/ g = f /\ u < uidnext[f] /\ (mail[f][u] # None => u \in us)
  PROVE  SoundKept
<1>0. Transferring(f, d, us, moved) /\ us \in SUBSET Uids
  BY TransfersFacts DEF Core, Held
<1> DEFINE fresh == uidnext[d]..uidnext[d] + Cardinality(us) - 1
<1>1. PICK source : Sources(f, d, us, source)
  BY <1>0 DEF Transferring
<1>2. ASSUME NEW s \in Texts, NEW g \in Boxes, NEW u \in Uids, Sound(g, u), mail[g][u].text = s
      PROVE  SoundSomewhere(s)'
  <2>1. CASE g = f /\ u \in us
    <3>1. PICK w \in fresh : source[w] = u
      BY <1>1, <2>1 DEF Sources
    <3>2. w \in Uids /\ mail'[d][w] = mail[f][u]
      BY <1>1, <3>1 DEF Sources
    <3>3. w >= uidnext[d]
      BY UidsFinite, <1>0, <3>1, UidFacts DEF Core
    <3>4. ~ Doomed(d, w)'
      BY <3>2, <3>3, DoomedBelow, UidFacts DEF Core
    <3> QED
      BY <1>2, <2>1, <3>2, <3>4 DEF Sound, SoundSomewhere
  <2>2. CASE ~(g = f /\ u \in us)
    <3>1. u < uidnext[g]
      BY <1>2, SoundBelow DEF Sound
    <3>2. g = d => u \notin fresh
      BY <1>0, <3>1, UidFacts, UidsFinite DEF Core
    <3>3. mail'[g][u] = mail[g][u]
      BY <1>0, <2>2, <3>2 DEF Transferring
    <3>4. ~ Doomed(g, u)'
      BY <1>2, <2>2 DEF Sound
    <3> QED
      BY <1>2, <3>3, <3>4 DEF Sound, SoundSomewhere
  <2> QED
    BY <2>1, <2>2
<1> QED
  BY <1>2 DEF SoundKept, SoundSomewhere

\* Nothing happens to the folders, but a call may be about to remove more.
LEMMA StaysSound ==
  ASSUME Core, UNCHANGED mail,
         \A g \in Boxes, u \in Uids :
           Doomed(g, u)' => \/ Doomed(g, u)
                            \/ mail[g][u] # None => mail[g][u].text \in condemned' \cup mistaken'
  PROVE  SoundKept
<1>1. ASSUME NEW s \in Texts, NEW g \in Boxes, NEW u \in Uids, Sound(g, u), mail[g][u].text = s
      PROVE  s \in condemned' \cup mistaken' \/ SoundSomewhere(s)'
  BY <1>1 DEF Sound, SoundSomewhere
<1> QED
  BY <1>1 DEF SoundKept, SoundSomewhere

LEMMA RenumberSound ==
  ASSUME Core, NEW f \in Boxes, Renumber(f) PROVE SoundKept
<1>1. PICK order : Reorders(f, order)
  BY RenumberFacts DEF Core
<1> DEFINE n == Cardinality(Held(f, Uids))
<1>2. UNCHANGED <<caps, pc, job, seen, condemned, misled, mistaken>>
  BY DEF Renumber, historyVars
<1>3. ASSUME NEW g \in Boxes, NEW u \in Uids, Doomed(g, u)' PROVE g # f /\ Doomed(g, u)
  <2>1. PICK c \in Calls : DoomedBy(c, g, u)'
    BY <1>3 DEF Doomed
  <2>2. /\ job[c].box = g /\ job[c].selected = uidvalidity'[g]
        /\ job[c].selected <= uidvalidity[g]
    BY <1>2, <2>1 DEF DoomedBy, Live, Core, CallInv
  <2>3. uidvalidity[f] \in Int /\ uidvalidity'[f] \in Int
    BY <1>1 DEF Reorders, Core, MailInv, Validities
  <2>4. g # f
    BY <1>1, <2>2, <2>3 DEF Reorders
  <2>5. uidvalidity'[g] = uidvalidity[g]
    BY <1>1, <2>4 DEF Reorders
  <2> QED
    BY <1>2, <2>1, <2>2, <2>4, <2>5 DEF Doomed, DoomedBy, Live
<1>4. ASSUME NEW s \in Texts, NEW g \in Boxes, NEW u \in Uids, Sound(g, u), mail[g][u].text = s
      PROVE  SoundSomewhere(s)'
  <2>1. CASE g # f
    <3>1. mail'[g][u] = mail[g][u]
      BY <1>1, <2>1 DEF Reorders
    <3> QED
      BY <1>3, <1>4, <3>1 DEF Sound, SoundSomewhere
  <2>2. CASE g = f
    <3>1. u \in Held(f, Uids)
      BY <1>4, <2>2 DEF Held, Sound
    <3>2. PICK i \in 1..n : order[i] = u
      BY <1>1, <3>1 DEF Reorders
    <3>3. i \in Uids /\ i <= n
      BY <1>1, <3>2, FoldersAssumption DEF Reorders, Uids
    <3>4. mail'[f][i] = mail[f][u]
      BY <1>1, <3>2, <3>3 DEF Reorders
    <3> QED
      BY <1>3, <1>4, <2>2, <3>3, <3>4 DEF Sound, SoundSomewhere
  <2> QED
    BY <2>1, <2>2
<1> QED
  BY <1>4 DEF SoundKept, SoundSomewhere

LEMMA OthersKeepSound == ASSUME Core, SoundInv, Others PROVE SoundInv'
<1>1. PICK f \in Boxes : \/ \E t \in Texts : Arrive(f, t)
                         \/ \E u \in Uids : FlagDeleted(f, u)
                         \/ ExpungeAll(f)
                         \/ Renumber(f)
  BY DEF Others
<1>2. ASSUME UNCHANGED <<uidvalidity, pc, job, misled>> PROVE NoNewDoom
  BY <1>2 DEF NoNewDoom, Doomed, DoomedBy, Live
<1>3. ASSUME NEW t \in Texts, Arrive(f, t) PROVE SoundInv'
  <2>1. Adds(f, t) /\ NoNewDoom
    BY <1>2, <1>3 DEF Arrive, Adds
  <2>2. SoundKept /\ SoundSomewhere(t)'
    BY <2>1, AddsSound
  <2> QED
    BY <1>3, <2>2, SoundStep DEF Arrive
<1>4. ASSUME NEW u \in Uids, FlagDeleted(f, u) PROVE SoundInv'
  <2>1. Flags(f, {u}, "theirs") /\ NoNewDoom
    BY <1>2, <1>4 DEF FlagDeleted, Flags, historyVars
  <2>2. SoundKept
    BY <2>1, FlagsSound
  <2> QED
    BY <1>4, <2>2, SoundStep DEF FlagDeleted, historyVars
<1>5. CASE ExpungeAll(f)
  <2>1. Drops(f, OutOf(f)) /\ NoNewDoom
    BY <1>2, <1>5 DEF ExpungeAll, Drops, OutOf
  <2>2. ASSUME NEW u \in Uids, u \in OutOf(f), Sound(f, u)
        PROVE  mail[f][u].text \in condemned'
    <3>1. mail[f][u] \in Messages
      BY <2>2 DEF OutOf, Held, Core, MailInv, Filled
    <3>2. mail[f][u].deleted = "theirs"
      BY <2>2, <3>1 DEF OutOf, Sound, Messages
    <3> QED
      BY <1>5, <2>2, <3>2 DEF ExpungeAll, OutOf
  <2>3. SoundKept
    BY <2>1, <2>2, DropsSound
  <2> QED
    BY <1>5, <2>3, SoundStep DEF ExpungeAll
<1>6. CASE Renumber(f)
  BY <1>6, RenumberSound, SoundStep DEF Renumber, historyVars
<1> QED
  BY <1>1, <1>3, <1>4, <1>5, <1>6

\* Whoever starts to remove messages has condemned them.
LEMMA StartKeepsSound == ASSUME Core, SoundInv, NEW c \in Calls, Start(c) PROVE SoundInv'
<1>1. UNCHANGED <<mail, uidvalidity, seen, misled, mistaken>> /\ condemned \subseteq condemned'
  BY DEF Start, Move, Delete, DeletePermanent, DeleteDraft, ReadDraft, CreateDraft, Refuse,
         serverVars, historyVars
<1>2. \A e \in Calls \ {c} : pc'[e] = pc[e] /\ job'[e] = job[e]
  BY DEF Start, Move, Delete, DeletePermanent, DeleteDraft, ReadDraft, CreateDraft, Refuse,
         Select, Goto, Core
<1>3. ASSUME NEW f \in Boxes, NEW us, NEW op, Select(c, "flagging", op, f, us, None, None),
             condemned' = condemned \cup TextsAt(f, us),
             NEW g \in Boxes, NEW u \in Uids, DoomedBy(c, g, u)', mail[g][u] # None
      PROVE  mail[g][u].text \in condemned'
  <2>1. g = f /\ u \in us
    BY <1>3 DEF DoomedBy, Select, Core
  <2> QED
    BY <1>3, <2>1 DEF TextsAt, Held
<1>4. ASSUME NEW g \in Boxes, NEW u \in Uids, DoomedBy(c, g, u)', mail[g][u] # None
      PROVE  mail[g][u].text \in condemned'
  <2>1. pc'[c] \in {"flagging", "expunging"}
    BY <1>4 DEF DoomedBy
  <2>2. \/ \E us \in SUBSET Uids : DeletePermanent(c, us)
        \/ \E v \in Uids : DeleteDraft(c, v)
    BY <2>1 DEF Start, Move, Delete, ReadDraft, CreateDraft, Refuse, Select, Goto, Core
  <2>3. Trash \in Boxes /\ Drafts \in Boxes
    BY FoldersAssumption
  <2>4. ASSUME NEW us \in SUBSET Uids, DeletePermanent(c, us)
        PROVE  mail[g][u].text \in condemned'
    BY <1>3, <1>4, <2>3, <2>4 DEF DeletePermanent
  <2>5. ASSUME NEW v \in Uids, DeleteDraft(c, v)
        PROVE  mail[g][u].text \in condemned'
    BY <1>3, <1>4, <2>3, <2>5 DEF DeleteDraft
  <2> QED
    BY <2>2, <2>4, <2>5
<1>5. ASSUME NEW g \in Boxes, NEW u \in Uids, Doomed(g, u)'
      PROVE  \/ Doomed(g, u)
             \/ mail[g][u] # None => mail[g][u].text \in condemned' \cup mistaken'
  BY <1>1, <1>2, <1>4, <1>5 DEF Doomed, DoomedBy, Live
<1>6. SoundKept
  BY <1>1, <1>5, StaysSound
<1> QED
  BY <1>1, <1>6, SoundStep

LEMMA CommandKeepsSound == ASSUME Core, SoundInv, NEW c \in Calls, Command(c) PROVE SoundInv'
<1> DEFINE f == job[c].box
           held == Held(f, job[c].uids)
<1>0. /\ Effect(c) /\ Control(c) /\ pc[c] \notin {"new", "done"} /\ Quiet
      /\ CallInv(c) /\ job[c] \in Jobs /\ f \in Boxes /\ job[c].uids \in SUBSET Uids
      /\ pc[c] = "moving" => job[c].dest \in Boxes
  BY CommandEffect, EffectQuiet DEF Core, CallInv, Jobs
<1>1. \A e \in Calls \ {c} : /\ pc'[e] = pc[e] /\ job'[e] = job[e]
                             /\ e \in misled' <=> e \in misled
  BY <1>0 DEF Control, Finish, Goto, Reselect, Core
<1>2. \A g \in Boxes, u \in Uids : Doomed(g, u)' => Doomed(g, u) \/ DoomedBy(c, g, u)'
  BY <1>0, <1>1 DEF Doomed, DoomedBy, Live, Quiet
<1>3. condemned \cup mistaken \subseteq condemned' \cup mistaken'
  BY <1>0 DEF Quiet, Effect, Mistake
<1>4. CASE /\ pc[c] = "moving" /\ Goto(c, "flagging") /\ UNCHANGED <<job, misled, condemned>>
           /\ Live(c) /\ Transfers(f, job[c].dest, held, FALSE)
  <2>1. held \in SUBSET Held(f, Uids)
    BY <1>0 DEF Held
  <2>2. ASSUME NEW g \in Boxes, NEW u \in Uids, DoomedBy(c, g, u)'
        PROVE  g = f /\ u < uidnext[f] /\ (mail[f][u] # None => u \in held)
    BY <1>0, <1>4, <2>2 DEF DoomedBy, CallInv, Held
  <2>3. SoundKept
    BY <1>0, <1>2, <1>4, <2>1, <2>2, TransfersSound
  <2>4. seen' = seen
    BY <1>0, <1>4 DEF Effect
  <2> QED
    BY <1>3, <2>3, <2>4, SoundStep
<1>5. CASE Reselect(c)
  <2>1. UNCHANGED <<mail, seen>> /\ pc[c] = "reselecting" /\ f = Drafts
    BY <1>0, <1>5 DEF Reselect, serverVars, CallInv
  <2>2. ASSUME NEW g \in Boxes, NEW u \in Uids, DoomedBy(c, g, u)', mail[g][u] # None
        PROVE  mail[g][u].text \in condemned'
    <3>1. c \notin misled' /\ job'[c].box = g /\ u \in job'[c].uids
      BY <2>2 DEF DoomedBy
    <3>2. job[c] \in [op : Ops, box : Boxes, uids : SUBSET Uids, dest : Boxes \cup {None},
                      text : Texts \cup {None}, selected : Validities]
      BY <1>0 DEF Jobs
    <3>3. job'[c].box = job[c].box /\ job'[c].uids = job[c].uids
      BY <1>5, <3>2 DEF Reselect, Core
    <3>4. Live(c)
      BY <1>5, <3>1 DEF Reselect
    <3>5. mail[g][u].text = job[c].text /\ job[c].text \in condemned
      BY <1>0, <2>1, <2>2, <3>1, <3>3, <3>4 DEF CallInv, Held
    <3> QED
      BY <1>0, <3>5 DEF Quiet
  <2>3. SoundKept
    BY <1>2, <2>1, <2>2, StaysSound
  <2> QED
    BY <1>3, <2>1, <2>3, SoundStep
<1>6. CASE /\ ~ Reselect(c)
           /\ ~ (/\ pc[c] = "moving" /\ Goto(c, "flagging") /\ UNCHANGED <<job, misled, condemned>>
                 /\ Live(c) /\ Transfers(f, job[c].dest, held, FALSE))
  <2>1. \A g \in Boxes, u \in Uids : DoomedBy(c, g, u)' => DoomedBy(c, g, u)
    BY <1>0, <1>6 DEF Control, Finish, Goto, DoomedBy, Live, Quiet, Core
  <2>2. NoNewDoom
    BY <1>2, <2>1 DEF NoNewDoom, Doomed
  <2>3. ASSUME NEW us \in SUBSET job[c].uids, Mistake(c, us), Live(c),
               pc[c] \in {"flagging", "expunging"}, NEW u \in us, Sound(f, u)
        PROVE  mail[f][u].text \in condemned' \cup mistaken'
    <3>1. ~ DoomedBy(c, f, u)
      BY <2>3 DEF Sound, Doomed
    <3>2. c \in misled
      BY <2>3, <3>1 DEF DoomedBy
    <3> QED
      BY <2>3, <3>2 DEF Mistake, TextsAt, Held, Sound
  <2>4. SoundKept /\ \A t \in seen' \ seen : SoundSomewhere(t)'
    <3>1. CASE UNCHANGED <<mail, uidnext, seen, mistaken>>
      BY <2>2, <3>1, StaysSound DEF NoNewDoom
    <3>2. ASSUME pc[c] = "moving", NEW us \in SUBSET held,
                 Transfers(f, job[c].dest, us, "MOVE" \in caps), UNCHANGED seen
          PROVE  SoundKept /\ \A t \in seen' \ seen : SoundSomewhere(t)'
      <4>1. us \in SUBSET Held(f, Uids)
        BY <1>0 DEF Held
      <4> QED
        BY <1>0, <2>2, <3>2, <4>1, TransfersSound DEF NoNewDoom
    <3>3. ASSUME NEW t \in Texts, Adds(Drafts, t), seen' = seen \cup {t}
          PROVE  SoundKept /\ \A s \in seen' \ seen : SoundSomewhere(s)'
      <4>1. SoundKept /\ SoundSomewhere(t)'
        BY <2>2, <3>3, AddsSound, FoldersAssumption
      <4> QED
        BY <3>3, <4>1
    <3>4. ASSUME pc[c] = "flagging", Live(c), NEW us \in SUBSET job[c].uids,
                 Flags(f, us, "ours"), Mistake(c, us), UNCHANGED seen
          PROVE  SoundKept /\ \A t \in seen' \ seen : SoundSomewhere(t)'
      BY <1>0, <2>2, <2>3, <3>4, FlagsSound
    <3>5. ASSUME pc[c] = "expunging", Live(c), NEW us \in SUBSET Expunged(c),
                 Drops(f, us), Mistake(c, us), UNCHANGED seen
          PROVE  SoundKept /\ \A t \in seen' \ seen : SoundSomewhere(t)'
      <4>1. us \in SUBSET job[c].uids
        BY DEF Expunged, Held
      <4> QED
        BY <1>0, <2>2, <2>3, <3>5, <4>1, DropsSound
    <3> QED
      BY <1>0, <3>1, <3>2, <3>3, <3>4, <3>5 DEF Effect
  <2> QED
    BY <1>3, <2>4, SoundStep
<1> QED
  BY <1>4, <1>5, <1>6

-----------------------------------------------------------------------------
(* The theorems.                                                           *)

LEMMA InitFoldersInv == Init => FoldersInv
<1> SUFFICES ASSUME Init PROVE FoldersInv
  OBVIOUS
<1>1. MailInv
  <2>1. 1 \in 1..MaxUid + 1 /\ 1 \in Validities
    BY FoldersAssumption DEF Validities
  <2> QED
    BY <2>1 DEF Init, MailInv, Filled
<1>2. \A c \in Calls : CallInv(c)
  BY FoldersAssumption DEF Init, CallInv, NoJob, Ops
<1> QED
  BY <1>1, <1>2 DEF Init, FoldersInv, Core, SoundInv, Places

LEMMA FoldersInvKept == FoldersInv /\ [Next]_vars => FoldersInv'
<1> SUFFICES ASSUME FoldersInv, [Next]_vars PROVE FoldersInv'
  OBVIOUS
<1>1. Core'
  BY CoreKept DEF FoldersInv
<1>2. SoundInv'
  <2>1. CASE Others
    BY <2>1, OthersKeepSound DEF FoldersInv
  <2>2. ASSUME NEW c \in Calls, Start(c) \/ Command(c) PROVE SoundInv'
    BY <2>2, StartKeepsSound, CommandKeepsSound DEF FoldersInv
  <2>3. CASE UNCHANGED vars
    BY <2>3 DEF vars, FoldersInv, SoundInv, SoundSomewhere, Sound, Doomed, DoomedBy, Live
  <2> QED
    BY <2>1, <2>2, <2>3 DEF Next
<1> QED
  BY <1>1, <1>2 DEF FoldersInv

\* In every behaviour the inductive invariant holds.
THEOREM FoldersInvariant == Spec => []FoldersInv
  BY InitFoldersInv, FoldersInvKept, PTL DEF Spec

\* The server's state and the calls are well typed, UIDs are handed out once, and
\* nothing is deleted from the trash into the trash or erased outside it (services.py,
\* delete).
THEOREM FoldersTyped == Spec => []TypeOK
<1>1. FoldersInv => TypeOK
  <2> SUFFICES ASSUME Core PROVE TypeOK
    BY DEF FoldersInv
  <2>1. \A f \in Boxes, u \in Uids : u >= uidnext[f] => mail[f][u] = None
    BY DEF Core, MailInv, Filled
  <2>2. \A c \in Calls : /\ job[c].op = "erase" <=> job[c].box = Trash /\ job[c].dest = None
                         /\ job[c].op = "delete" => job[c].dest = Trash /\ job[c].box # Trash
    BY DEF Core, CallInv
  <2> QED
    BY <2>1, <2>2 DEF TypeOK, Core, MailInv, Filled
<1> QED
  BY <1>1, FoldersInvariant, PTL

\* Whatever calls race, break off between two commands or are made again, and whatever
\* other clients expunge meanwhile: a message that nobody asked to be rid of, and that no
\* misled edit removed, is in some folder (Session.move, _save_draft, expunge_uids).
THEOREM NothingIsLost == Spec => []NothingLost
<1>1. FoldersInv => NothingLost
  BY DEF FoldersInv, SoundInv, SoundSomewhere, Sound, NothingLost, Present, TextsAt, Held
<1> QED
  BY <1>1, FoldersInvariant, PTL

-----------------------------------------------------------------------------
(* With MOVE every message is in one place.                                *)

\* The text at a place is one that was at another place before.
From(g, u, h, v) == mail[h][v] # None /\ mail'[g][u].text = mail[h][v].text

LEMMA StaysSingle ==
  ASSUME SingleInv, UNCHANGED caps,
         \A g \in Boxes, u \in Uids : mail'[g][u] # None => From(g, u, g, u)
  PROVE  SingleInv'
  BY DEF SingleInv, From

LEMMA AddsSingle ==
  ASSUME Core, SingleInv, UNCHANGED caps, NEW f \in Boxes, NEW t \in Texts \ seen, Adds(f, t)
  PROVE  SingleInv'
<1>1. Added(f, t)
  BY AddsFacts DEF Core
<1>2. ASSUME NEW g \in Boxes, NEW u \in Uids, mail'[g][u] # None, ~(g = f /\ u = uidnext[f])
      PROVE  From(g, u, g, u) /\ mail'[g][u].text # t
  <2>1. mail'[g][u] = mail[g][u]
    BY <1>1, <1>2 DEF Added
  <2> QED
    BY <1>2, <2>1 DEF From, Core, MailInv, Filled
<1>3. ASSUME NEW g \in Boxes, NEW u \in Uids, g = f /\ u = uidnext[f]
      PROVE  mail'[g][u].text = t
  BY <1>1, <1>3 DEF Added
<1> QED
  BY <1>2, <1>3 DEF SingleInv, From

LEMMA TransfersSingle ==
  ASSUME Core, SingleInv, UNCHANGED caps, NEW f \in Boxes, NEW d \in Boxes,
         NEW us \in SUBSET Held(f, Uids), NEW moved, moved, Transfers(f, d, us, moved)
  PROVE  SingleInv'
<1> DEFINE fresh == uidnext[d]..uidnext[d] + Cardinality(us) - 1
<1>0. Transferring(f, d, us, moved) /\ us \in SUBSET Uids
  BY TransfersFacts DEF Core, Held
<1>1. PICK source : Sources(f, d, us, source)
  BY <1>0 DEF Transferring
<1>2. ASSUME NEW w \in fresh
      PROVE  /\ source[w] \in us /\ source[w] \in Uids /\ From(d, w, f, source[w])
             /\ \A v \in fresh : source[v] = source[w] => v = w
  BY <1>0, <1>1 DEF Sources, From, Held
<1>3. ASSUME NEW g \in Boxes, NEW u \in Uids, mail'[g][u] # None, ~(g = d /\ u \in fresh)
      PROVE  From(g, u, g, u) /\ ~(g = f /\ u \in us)
  BY <1>0, <1>3 DEF Transferring, From
<1> HIDE DEF fresh
<1>4. ASSUME "MOVE" \in caps, NEW g \in Boxes, NEW h \in Boxes, NEW u \in Uids, NEW v \in Uids,
             mail'[g][u] # None, mail'[h][v] # None, mail'[g][u].text = mail'[h][v].text
      PROVE  g = h /\ u = v
  <2>1. CASE (g = d /\ u \in fresh) /\ (h = d /\ v \in fresh)
    <3>1. source[u] = source[v]
      BY <1>2, <1>4, <2>1 DEF SingleInv, From
    <3> QED
      BY <1>2, <2>1, <3>1
  <2>2. CASE (g = d /\ u \in fresh) /\ ~(h = d /\ v \in fresh)
    <3>1. From(g, u, f, source[u]) /\ From(h, v, h, v) /\ source[u] \in us /\ source[u] \in Uids
          /\ ~(h = f /\ v \in us)
      BY <1>2, <1>3, <1>4, <2>2
    <3>2. /\ mail[f][source[u]] # None /\ mail[h][v] # None
          /\ mail[f][source[u]].text = mail[h][v].text
      BY <1>4, <3>1 DEF From
    <3>3. h = f /\ v = source[u]
      BY <1>4, <3>1, <3>2 DEF SingleInv
    <3> QED
      BY <3>1, <3>3
  <2>3. CASE ~(g = d /\ u \in fresh) /\ (h = d /\ v \in fresh)
    <3>1. From(h, v, f, source[v]) /\ From(g, u, g, u) /\ source[v] \in us /\ source[v] \in Uids
          /\ ~(g = f /\ u \in us)
      BY <1>2, <1>3, <1>4, <2>3
    <3>2. /\ mail[f][source[v]] # None /\ mail[g][u] # None
          /\ mail[g][u].text = mail[f][source[v]].text
      BY <1>4, <3>1 DEF From
    <3>3. g = f /\ u = source[v]
      BY <1>4, <3>1, <3>2 DEF SingleInv
    <3> QED
      BY <3>1, <3>3
  <2>4. CASE ~(g = d /\ u \in fresh) /\ ~(h = d /\ v \in fresh)
    BY <1>3, <1>4, <2>4 DEF SingleInv, From
  <2> QED
    BY <2>1, <2>2, <2>3, <2>4
<1> QED
  BY <1>4 DEF SingleInv

LEMMA RenumberSingle ==
  ASSUME Core, SingleInv, NEW f \in Boxes, Renumber(f) PROVE SingleInv'
<1>1. PICK order : Reorders(f, order)
  BY RenumberFacts DEF Core
<1> DEFINE n == Cardinality(Held(f, Uids))
<1>2. ASSUME NEW g \in Boxes, NEW u \in Uids, mail'[g][u] # None
      PROVE  IF g = f THEN u \in 1..n /\ order[u] \in Uids /\ From(f, u, f, order[u])
             ELSE From(g, u, g, u)
  <2>1. CASE g = f
    <3>1. u \in 1..n /\ mail'[f][u] = mail[f][order[u]]
      BY <1>1, <1>2, <2>1, FoldersAssumption DEF Reorders, Uids
    <3> QED
      BY <1>1, <2>1, <3>1 DEF Reorders, From, Held
  <2>2. CASE g # f
    BY <1>1, <1>2, <2>2 DEF Reorders, From
  <2> QED
    BY <2>1, <2>2
<1>3. \A i, j \in 1..n : order[i] = order[j] => i = j
  BY <1>1 DEF Reorders
<1>4. caps' = caps
  BY DEF Renumber
<1> HIDE DEF n
<1>5. ASSUME "MOVE" \in caps, NEW g \in Boxes, NEW h \in Boxes, NEW u \in Uids, NEW v \in Uids,
             mail'[g][u] # None, mail'[h][v] # None, mail'[g][u].text = mail'[h][v].text
      PROVE  g = h /\ u = v
  <2>1. CASE g = f /\ h = f
    <3>1. order[u] = order[v] /\ u \in 1..n /\ v \in 1..n
      BY <1>2, <1>5, <2>1 DEF SingleInv, From
    <3> QED
      BY <1>3, <2>1, <3>1
  <2>2. CASE ~(g = f /\ h = f)
    BY <1>2, <1>5, <2>2 DEF SingleInv, From
  <2> QED
    BY <2>1, <2>2
<1> QED
  BY <1>4, <1>5 DEF SingleInv

LEMMA FlagsFrom ==
  ASSUME Core, NEW f \in Boxes, NEW us, NEW who \in {"ours", "theirs"}, Flags(f, us, who),
         NEW g \in Boxes, NEW u \in Uids, mail'[g][u] # None
  PROVE  From(g, u, g, u)
  BY FlagsFacts, NoMessageIsNone DEF Core, From

LEMMA DropsFrom ==
  ASSUME Core, NEW f \in Boxes, NEW us, Drops(f, us),
         NEW g \in Boxes, NEW u \in Uids, mail'[g][u] # None
  PROVE  From(g, u, g, u)
  BY DropsFacts DEF Core, From

LEMMA SingleKept ==
  ASSUME Core, SingleInv, [Next]_vars PROVE SingleInv'
<1>1. ASSUME UNCHANGED <<caps, mail>> PROVE SingleInv'
  BY <1>1 DEF SingleInv
<1>2. CASE Others
  <2>1. PICK f \in Boxes : \/ \E t \in Texts : Arrive(f, t)
                           \/ \E u \in Uids : FlagDeleted(f, u)
                           \/ ExpungeAll(f)
                           \/ Renumber(f)
    BY <1>2 DEF Others
  <2>2. ASSUME NEW t \in Texts, Arrive(f, t) PROVE SingleInv'
    <3>1. Adds(f, t) /\ UNCHANGED caps /\ t \notin seen
      BY <2>2 DEF Arrive, Adds
    <3> QED
      BY <3>1, AddsSingle
  <2>3. ASSUME NEW u \in Uids, FlagDeleted(f, u) PROVE SingleInv'
    <3>1. Flags(f, {u}, "theirs") /\ UNCHANGED caps
      BY <2>3 DEF FlagDeleted, Flags
    <3> QED
      BY <3>1, FlagsFrom, StaysSingle
  <2>4. CASE ExpungeAll(f)
    <3>1. Drops(f, OutOf(f)) /\ UNCHANGED caps
      BY <2>4 DEF ExpungeAll, Drops, OutOf
    <3> QED
      BY <3>1, DropsFrom, StaysSingle
  <2> QED
    BY <2>1, <2>2, <2>3, <2>4, RenumberSingle
<1>3. ASSUME NEW c \in Calls, Start(c) PROVE SingleInv'
  <2>1. UNCHANGED <<caps, mail>>
    BY <1>3 DEF Start, Move, Delete, DeletePermanent, DeleteDraft, ReadDraft, CreateDraft,
                Refuse, serverVars
  <2> QED
    BY <1>1, <2>1
<1>4. ASSUME NEW c \in Calls, Command(c) PROVE SingleInv'
  <2> DEFINE f == job[c].box
  <2>0. /\ Effect(c) /\ pc[c] \notin {"new", "done"} /\ UNCHANGED caps
        /\ f \in Boxes /\ job[c].uids \in SUBSET Uids
        /\ pc[c] = "moving" => job[c].dest \in Boxes
    BY <1>4, CommandEffect DEF Core, CallInv, Jobs, Effect
  <2>1. CASE UNCHANGED mail
    BY <1>1, <2>0, <2>1
  <2>2. ASSUME pc[c] = "moving", NEW us \in SUBSET Held(f, job[c].uids),
               Transfers(f, job[c].dest, us, "MOVE" \in caps)
        PROVE  SingleInv'
    <3>1. us \in SUBSET Held(f, Uids)
      BY <2>0 DEF Held
    <3>2. CASE "MOVE" \in caps
      BY <2>0, <2>2, <3>1, <3>2, TransfersSingle
    <3>3. CASE "MOVE" \notin caps
      BY <2>0, <3>3 DEF SingleInv
    <3> QED
      BY <3>2, <3>3
  <2>3. ASSUME NEW t \in Texts \ seen, Adds(Drafts, t) PROVE SingleInv'
    BY <2>0, <2>3, AddsSingle, FoldersAssumption
  <2>4. ASSUME NEW us, Flags(f, us, "ours") PROVE SingleInv'
    BY <2>0, <2>4, FlagsFrom, StaysSingle
  <2>5. ASSUME NEW us, Drops(f, us) PROVE SingleInv'
    BY <2>0, <2>5, DropsFrom, StaysSingle
  <2> QED
    BY <2>0, <2>1, <2>2, <2>3, <2>4, <2>5 DEF Effect
<1>5. CASE UNCHANGED vars
  BY <1>1, <1>5 DEF vars
<1> QED
  BY <1>2, <1>3, <1>4, <1>5 DEF Next

\* On a server with MOVE no message is in two places: whatever moves and deletions break
\* off, are made again or race (Session.move).
THEOREM NeverIsDoubled == Spec => []NeverDoubled
<1>1. Init => SingleInv
  BY DEF Init, SingleInv
<1>2. FoldersInv /\ SingleInv /\ [Next]_vars => SingleInv'
  BY SingleKept DEF FoldersInv
<1>3. SingleInv => NeverDoubled
  <2> SUFFICES ASSUME SingleInv, "MOVE" \in caps, NEW t \in seen
               PROVE  Cardinality(Duplicates(t)) <= 1
    BY DEF NeverDoubled
  <2>1. ASSUME NEW p \in Duplicates(t), NEW q \in Duplicates(t) PROVE p = q
    <3>1. /\ p \in Boxes \X Uids /\ q \in Boxes \X Uids
          /\ mail[p[1]][p[2]] # None /\ mail[q[1]][q[2]] # None
          /\ mail[p[1]][p[2]].text = t /\ mail[q[1]][q[2]].text = t
      BY DEF Duplicates, Held
    <3>2. p[1] = q[1] /\ p[2] = q[2]
      BY <3>1 DEF SingleInv
    <3> QED
      BY <3>1, <3>2
  <2>2. CASE Duplicates(t) = {}
    BY <2>2, FS_EmptySet
  <2>3. CASE Duplicates(t) # {}
    <3>1. PICK p : Duplicates(t) = {p}
      BY <2>1, <2>3
    <3>2. Cardinality({p}) = 1
      BY FS_Singleton
    <3> QED
      BY <3>1, <3>2
  <2> QED
    BY <2>2, <2>3
<1> QED
  BY <1>1, <1>2, <1>3, FoldersInvariant, PTL DEF Spec
=============================================================================

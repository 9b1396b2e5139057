--------------------------- MODULE CheckpointsProofs --------------------------
(***************************************************************************)
(* A checkpoint passes no mail over, for every number of callers, page     *)
(* size and folder.  The argument has two parts.  One page: everything     *)
(* wanted between the position it starts after and the position it ends at *)
(* is on it.  The protocol: a position that some call holds or that is     *)
(* stored has everything below it on pages that were stored, and this      *)
(* stays true when a call that was overtaken stores an older one.          *)
(***************************************************************************)
EXTENDS Checkpoints, FiniteSetTheorems, WellFoundedInduction, TLAPS

-----------------------------------------------------------------------------
(* Numbers.                                                                *)

\* A finite set of naturals with a bound has a highest member.
LEMMA HighestMember ==
  ASSUME NEW B \in Nat, NEW S \in SUBSET (0..B), S # {}
  PROVE  Highest(S) \in S /\ \A v \in S : v <= Highest(S)
<1> DEFINE T == {n \in Nat : \E u \in S : n = B - u}
<1>1. T \subseteq Nat /\ T # {}
  <2>1. PICK u \in S : TRUE
    OBVIOUS
  <2>2. B - u \in Nat
    BY <2>1
  <2> QED
    BY <2>1, <2>2
<1>2. \E x \in T : \A y \in T : ~(<<y, x>> \in OpToRel(<, Nat))
  BY <1>1, WFMin, NatLessThanWellFounded
<1>3. PICK x \in T : \A y \in T : ~(y < x)
  BY <1>1, <1>2 DEF OpToRel
<1>4. PICK u \in S : x = B - u
  BY <1>3
<1>5. \A v \in S : v <= u
  <2> TAKE v \in S
  <2>1. v \in Nat /\ u \in Nat /\ B - v \in Nat
    BY <1>4
  <2>2. B - v \in T
    BY <2>1
  <2>3. ~(B - v < x)
    BY <1>3, <2>2
  <2> QED
    BY <1>4, <2>1, <2>3
<1> QED
  BY <1>4, <1>5 DEF Highest

\* Cardinalities in a bounded set.
LEMMA Bounded ==
  ASSUME NEW B \in Nat, NEW S \in SUBSET (0..B), NEW T \in SUBSET S
  PROVE  /\ IsFiniteSet(S) /\ Cardinality(S) \in Nat /\ Cardinality(T) \in Nat
         /\ Cardinality(T) <= Cardinality(S)
         /\ T # S => Cardinality(T) < Cardinality(S)
<1>1. IsFiniteSet(0..B)
  BY FS_Interval
<1>2. IsFiniteSet(S)
  BY <1>1, FS_Subset
<1>3. /\ Cardinality(S) \in Nat
      /\ IsFiniteSet(T) /\ Cardinality(T) <= Cardinality(S)
      /\ Cardinality(T) = Cardinality(S) => T = S
  BY <1>2, FS_Subset, FS_CardinalityType
<1>4. Cardinality(T) \in Nat
  BY <1>3, FS_CardinalityType
<1> QED
  BY <1>2, <1>3, <1>4

-----------------------------------------------------------------------------
(* One page.                                                               *)

\* Of fewer than limit members, all are among the earliest.
LEMMA AllEarliest ==
  ASSUME NEW B \in Nat, NEW S \in SUBSET (0..B), NEW limit \in Nat,
         Cardinality(S) < limit
  PROVE  Earliest(S, limit) = S
<1> SUFFICES ASSUME NEW u \in S
             PROVE  Cardinality({v \in S : v < u}) < limit
  BY DEF Earliest
<1>1. Cardinality({v \in S : v < u}) <= Cardinality(S)
      /\ Cardinality({v \in S : v < u}) \in Nat /\ Cardinality(S) \in Nat
  BY Bounded
<1> QED
  BY <1>1

\* What is not later than one of the earliest is one of them.
LEMMA EarliestDownward ==
  ASSUME NEW B \in Nat, NEW S \in SUBSET (0..B), NEW limit \in Nat,
         NEW u \in S, NEW w \in Earliest(S, limit), u <= w
  PROVE  u \in Earliest(S, limit)
<1>1. w \in S /\ Cardinality({v \in S : v < w}) < limit
  BY DEF Earliest
<1> DEFINE Below == {v \in S : v < u}
           More == {v \in S : v < w}
<1>2. Below \subseteq More
  <2> SUFFICES ASSUME NEW v \in S, v < u PROVE v < w
    OBVIOUS
  <2>1. u \in Nat /\ w \in Nat /\ v \in Nat
    BY <1>1
  <2> QED
    BY <2>1
<1>3. Cardinality(Below) <= Cardinality(More) /\ Cardinality(Below) \in Nat
      /\ Cardinality(More) \in Nat
  <2>1. More \in SUBSET (0..B) /\ Below \in SUBSET More
    BY <1>2
  <2> HIDE DEF Below, More
  <2> QED
    BY <2>1, Bounded
<1>4. Cardinality(Below) < limit
  BY <1>1, <1>3
<1> QED
  BY <1>4 DEF Earliest

\* Everything wanted between the position a page starts after and the position it
\* ends at is on the page, and the position does not go back (search_page with
\* after_uid).
LEMMA PageComplete ==
  ASSUME NEW B \in Nat, NEW all \in SUBSET (0..B), NEW some \in SUBSET all,
         NEW limit \in Nat, NEW after \in 0..B
  PROVE  LET res == Following(all, some, limit, after)
         IN /\ res.next_after \in 0..B /\ res.next_after >= after
            /\ res.page \subseteq some
            /\ \A u \in some : after < u /\ u <= res.next_after => u \in res.page
<1> DEFINE ahead == {u \in all : u > after}
           listed == ahead \cap some
           page == Earliest(listed, limit)
           scanned == ScannedUp(ahead, some, limit)
           reach == {after} \cup IF scanned = ahead THEN all ELSE scanned
           next == Highest(reach)
<1>0. /\ Following(all, some, limit, after).page = page
      /\ Following(all, some, limit, after).next_after = next
  BY DEF Following
<1>1. ahead \in SUBSET (0..B) /\ listed \in SUBSET (0..B) /\ listed \subseteq some
  OBVIOUS
<1>2. scanned \subseteq ahead
  BY DEF ScannedUp
<1>3. reach \in SUBSET (0..B) /\ reach # {} /\ after \in reach
  BY <1>1, <1>2
<1>4. next \in reach /\ \A v \in reach : v <= next
  <2> HIDE DEF reach
  <2> QED
    BY <1>3, HighestMember
<1>5. next \in 0..B /\ next >= after
  BY <1>3, <1>4
<1>6. page \subseteq some
  BY DEF Earliest
<1>7. ASSUME NEW u \in some, after < u, u <= next
      PROVE  u \in page
  <2>1. u \in listed /\ u \in ahead
    BY <1>7
  <2>2. u \in scanned
    <3>1. CASE scanned = ahead
      BY <2>1, <3>1
    <3>2. CASE scanned # ahead
      <4>1. next # after /\ next \in scanned
        BY <1>4, <1>5, <1>7, <3>2
      <4>2. /\ ~(Cardinality(listed) < limit)
            /\ scanned = {x \in ahead : \E v \in page : x <= v}
        BY <3>2 DEF ScannedUp
      <4>3. PICK v \in page : next <= v
        BY <4>1, <4>2
      <4>4. v \in 0..B
        BY <1>1 DEF Earliest
      <4>5. u <= v
        BY <1>5, <1>7, <4>3, <4>4
      <4> QED
        BY <2>1, <4>2, <4>5
    <3> QED
      BY <3>1, <3>2
  <2>3. CASE Cardinality(listed) < limit
    <3>1. page = listed
      <4> HIDE DEF listed
      <4> QED
        BY <1>1, <2>3, AllEarliest
    <3> QED
      BY <2>1, <3>1
  <2>4. CASE ~(Cardinality(listed) < limit)
    <3>1. scanned = {x \in ahead : \E v \in page : x <= v}
      BY <2>4 DEF ScannedUp
    <3>2. PICK v \in page : u <= v
      BY <2>2, <3>1
    <3> QED
      <4> HIDE DEF listed
      <4> QED
        BY <1>1, <2>1, <3>2, EarliestDownward
  <2> QED
    BY <2>3, <2>4
<1> QED
  BY <1>0, <1>5, <1>6, <1>7

\* The same facts downwards.
LEMMA LowestMember ==
  ASSUME NEW S \in SUBSET Nat, S # {}
  PROVE  Lowest(S) \in S /\ \A v \in S : Lowest(S) <= v
<1>1. \E x \in S : \A y \in S : ~(<<y, x>> \in OpToRel(<, Nat))
  BY WFMin, NatLessThanWellFounded
<1>2. PICK x \in S : \A y \in S : ~(y < x)
  BY <1>1 DEF OpToRel
<1>3. \A y \in S : x <= y
  BY <1>2
<1> QED
  BY <1>2, <1>3 DEF Lowest

LEMMA AllLatest ==
  ASSUME NEW B \in Nat, NEW S \in SUBSET (0..B), NEW limit \in Nat,
         Cardinality(S) < limit
  PROVE  Latest(S, limit) = S
<1> SUFFICES ASSUME NEW u \in S
             PROVE  Cardinality({v \in S : v > u}) < limit
  BY DEF Latest
<1>1. Cardinality({v \in S : v > u}) <= Cardinality(S)
      /\ Cardinality({v \in S : v > u}) \in Nat /\ Cardinality(S) \in Nat
  BY Bounded
<1> QED
  BY <1>1

LEMMA LatestUpward ==
  ASSUME NEW B \in Nat, NEW S \in SUBSET (0..B), NEW limit \in Nat,
         NEW u \in S, NEW w \in Latest(S, limit), u >= w
  PROVE  u \in Latest(S, limit)
<1>1. w \in S /\ Cardinality({v \in S : v > w}) < limit
  BY DEF Latest
<1> DEFINE Above == {v \in S : v > u}
           More == {v \in S : v > w}
<1>2. Above \subseteq More
  <2> SUFFICES ASSUME NEW v \in S, v > u PROVE v > w
    OBVIOUS
  <2>1. u \in Nat /\ w \in Nat /\ v \in Nat
    BY <1>1
  <2> QED
    BY <2>1
<1>3. Cardinality(Above) <= Cardinality(More) /\ Cardinality(Above) \in Nat
      /\ Cardinality(More) \in Nat
  <2>1. More \in SUBSET (0..B) /\ Above \in SUBSET More
    BY <1>2
  <2> HIDE DEF Above, More
  <2> QED
    BY <2>1, Bounded
<1>4. Cardinality(Above) < limit
  BY <1>1, <1>3
<1> QED
  BY <1>4 DEF Latest

\* A page of a listing holds exactly what is wanted between its bounds (search_page
\* without after_uid).
LEMMA ListingAdjoins ==
  ASSUME NEW B \in Nat, NEW all \in SUBSET (0..B), NEW some \in SUBSET all,
         NEW limit \in Nat \ {0}, NEW before \in Nat
  PROVE  LET res == Listing(all, some, limit, before)
         IN /\ res.page \subseteq some
            /\ \A u \in some :
                 u \in res.page <=>
                   u < before /\ (res.next_before # None => u >= res.next_before)
<1> DEFINE ahead == {u \in all : before = None \/ u < before}
           listed == ahead \cap some
           page == Latest(listed, limit)
           scanned == ScannedDown(ahead, some, limit)
           next == IF page # {} /\ scanned # ahead THEN Lowest(page) ELSE None
<1>0. /\ Listing(all, some, limit, before).page = page
      /\ Listing(all, some, limit, before).next_before = next
  BY DEF Listing
<1>1. before # None
  BY NoneAssumption
<1>2. /\ listed = {u \in some : u < before} /\ listed \in SUBSET (0..B)
      /\ page \subseteq listed
  BY <1>1 DEF Latest
<1>3. CASE page # {} /\ scanned # ahead
  <2>1. /\ next \in page /\ \A v \in page : next <= v
    <3>1. page \in SUBSET Nat
      BY <1>2
    <3> HIDE DEF page
    <3> QED
      BY <1>3, <3>1, LowestMember
  <2>2. next # None
    BY <1>2, <2>1, NoneAssumption
  <2>3. ASSUME NEW u \in listed, u >= next PROVE u \in page
    <3> HIDE DEF listed
    <3> QED
      BY <1>2, <2>1, <2>3, LatestUpward
  <2>4. \A v \in page : v >= next
    BY <1>2, <2>1
  <2> HIDE DEF next, page
  <2> QED
    BY <1>0, <1>2, <2>2, <2>3, <2>4
<1>4. CASE ~(page # {} /\ scanned # ahead)
  <2>1. next = None
    BY <1>4
  <2>2. page = listed
    <3>1. CASE Cardinality(listed) < limit
      <4> HIDE DEF listed
      <4> QED
        BY <1>2, <3>1, AllLatest
    <3>2. CASE ~(Cardinality(listed) < limit)
      <4>1. scanned = {u \in ahead : \E v \in page : u >= v}
        BY <3>2 DEF ScannedDown
      <4>2. page # {}
        <5>1. listed # {}
          BY <3>2, FS_EmptySet
        <5> DEFINE top == Highest(listed)
        <5>2. top \in listed /\ \A v \in listed : v <= top
          <6> HIDE DEF listed
          <6> QED
            BY <1>2, <5>1, HighestMember
        <5>3. {v \in listed : v > top} = {}
          BY <1>2, <5>2
        <5>4. Cardinality({v \in listed : v > top}) = 0
          BY <5>3, FS_EmptySet
        <5>5. top \in page
          BY <5>2, <5>4 DEF Latest
        <5> QED
          BY <5>5
      <4>3. scanned = ahead
        BY <1>4, <4>2
      <4>4. ASSUME NEW u \in listed PROVE u \in page
        <5>1. PICK v \in page : u >= v
          BY <4>1, <4>3
        <5> HIDE DEF listed
        <5> QED
          BY <1>2, <5>1, LatestUpward
      <4> QED
        BY <1>2, <4>4
    <3> QED
      BY <3>1, <3>2
  <2> HIDE DEF next, page
  <2> QED
    BY <1>0, <1>2, <2>1, <2>2
<1> QED
  BY <1>3, <1>4

-----------------------------------------------------------------------------
(* The protocol.                                                           *)

\* A position of the folder's numbering is one the server has handed out, and what
\* is wanted below it has been given or is older than a first call.
Sound(p) ==
  /\ p.uidvalidity <= uidvalidity
  /\ p.uidvalidity = uidvalidity =>
       /\ p.last_uid < uidnext
       /\ \A u \in wanted : baseline < u /\ u <= p.last_uid => u \in given

\* The same of the position a call is about to store, with the mail on its page; a
\* first call owes nothing.
Pending(r) ==
  /\ result[r] \in Results
  /\ result[r].next.uidvalidity <= uidvalidity
  /\ result[r].next.uidvalidity = uidvalidity =>
       /\ result[r].next.last_uid < uidnext
       /\ pos[r] = None \/
            \A u \in wanted : baseline < u /\ u <= result[r].next.last_uid
                                => u \in given \/ u \in result[r].page

\* UIDs that were not handed out have no message.
FolderOK == \A u \in Uids : u >= uidnext => kind[u] = "none"

IInv ==
  /\ TypeOK /\ FolderOK
  /\ cursor # None => Sound(cursor)
  /\ \A r \in Readers : pos[r] # None => Sound(pos[r])
  /\ \A r \in Readers : pc[r] = "storing" => Pending(r)

LEMMA UidFacts ==
  /\ MaxUid \in Nat /\ Limit \in Nat
  /\ Uids \subseteq 0..MaxUid
  /\ found \in SUBSET Uids /\ wanted \in SUBSET found
  BY CheckpointsAssumption DEF Uids, found, wanted

\* At the start there is no position.
LEMMA InitInv == Init => IInv
<1> SUFFICES ASSUME Init PROVE IInv
  OBVIOUS
<1>1. TypeOK
  BY CheckpointsAssumption DEF Init, TypeOK, Validities, Kinds
<1>2. FolderOK
  BY DEF Init, FolderOK
<1> QED
  BY <1>1, <1>2 DEF Init, IInv

\* A new message has a UID above every position.
LEMMA ArriveInv ==
  ASSUME IInv, NEW k \in Kinds, Arrive(k)
  PROVE  IInv'
<1> USE DEF IInv, Arrive, folderVars, callVars, historyVars
<1>1. uidnext \in Uids /\ uidnext \in Nat /\ uidnext' = uidnext + 1
      /\ kind \in [Uids -> Kinds]
  BY CheckpointsAssumption DEF TypeOK, Uids
<1>2. TypeOK'
  BY <1>1, CheckpointsAssumption DEF TypeOK, Uids, Cursors, Results
<1>3. FolderOK'
  BY <1>1 DEF FolderOK, Uids
<1>4. wanted' \subseteq wanted \cup {uidnext}
  BY <1>1 DEF wanted
<1>5. ASSUME NEW p \in Cursors, Sound(p) PROVE Sound(p)'
  BY <1>1, <1>4, <1>5 DEF Sound, Cursors
<1>6. ASSUME NEW r \in Readers, pc[r] = "storing" PROVE Pending(r)'
  <2>1. Pending(r) /\ result[r].next \in Cursors
    BY <1>6 DEF Pending, Results
  <2> QED
    BY <1>1, <1>4, <2>1 DEF Pending, Cursors
<1>7. cursor \in Cursors \cup {None} /\ pos \in [Readers -> Cursors \cup {None}]
  BY DEF TypeOK
<1> QED
  BY <1>2, <1>3, <1>5, <1>6, <1>7

\* A message less is owed.
LEMMA ExpungeInv ==
  ASSUME IInv, NEW u \in Uids, Expunge(u)
  PROVE  IInv'
<1> USE DEF IInv, Expunge, folderVars, callVars, historyVars
<1>1. kind \in [Uids -> Kinds] /\ "none" \in Kinds
  BY DEF TypeOK, Kinds
<1>2. TypeOK'
  BY <1>1 DEF TypeOK
<1>3. FolderOK'
  BY <1>1 DEF FolderOK
<1>4. wanted' \subseteq wanted
  BY <1>1 DEF wanted
<1>5. ASSUME NEW p, Sound(p) PROVE Sound(p)'
  BY <1>4, <1>5 DEF Sound
<1>6. ASSUME NEW r \in Readers, pc[r] = "storing" PROVE Pending(r)'
  <2>1. Pending(r)
    BY <1>6
  <2> QED
    BY <1>4, <2>1 DEF Pending
<1> QED
  BY <1>2, <1>3, <1>5, <1>6

\* A renumbering makes every position one of an older numbering.
LEMMA RenumberInv ==
  ASSUME IInv, Renumber
  PROVE  IInv'
<1> USE DEF IInv, Renumber, callVars
<1>1. PICK n \in 0..Cardinality(found) :
        /\ uidnext' = n + 1 /\ kind' \in [Uids -> Kinds]
        /\ {u \in Uids : kind'[u] # "none"} = 1..n
  OBVIOUS
<1>2. Cardinality(found) \in Nat /\ Cardinality(found) <= MaxUid
  <2>1. IsFiniteSet(1..MaxUid) /\ Cardinality(1..MaxUid) = MaxUid
    BY UidFacts, FS_Interval
  <2>2. found \in SUBSET (1..MaxUid)
    BY UidFacts DEF Uids
  <2> QED
    BY <2>1, <2>2, FS_Subset, FS_CardinalityType
<1>3. uidvalidity \in Nat /\ uidvalidity' = uidvalidity + 1 /\ uidvalidity' \in Validities
  BY CheckpointsAssumption DEF TypeOK, Validities
<1>4. TypeOK'
  BY <1>1, <1>2, <1>3, UidFacts DEF TypeOK
<1>5. FolderOK'
  BY <1>1, <1>2 DEF FolderOK, Uids
<1>6. ASSUME NEW p \in Cursors, Sound(p) PROVE Sound(p)'
  BY <1>3, <1>6 DEF Sound, Cursors, Validities
<1>7. ASSUME NEW r \in Readers, pc[r] = "storing" PROVE Pending(r)'
  <2>1. Pending(r) /\ result[r].next \in Cursors
    BY <1>7 DEF Pending, Results
  <2> QED
    BY <1>3, <2>1 DEF Pending, Cursors, Validities
<1>8. cursor \in Cursors \cup {None} /\ pos \in [Readers -> Cursors \cup {None}]
  BY DEF TypeOK
<1> QED
  BY <1>4, <1>5, <1>6, <1>7, <1>8

\* A step of call r that leaves the folder, the store and the history alone, and
\* after which r holds a sound position and, if it is to store, a page to go with
\* it.
LEMMA CallInv ==
  ASSUME IInv, NEW r \in Readers,
         UNCHANGED <<uidvalidity, uidnext, kind, cursor, given, baseline>>,
         overtaken' \in [Readers -> BOOLEAN],
         NEW place \in {"idle", "searching", "restarting", "storing"},
         pc' = [pc EXCEPT ![r] = place],
         pos' \in [Readers -> Cursors \cup {None}],
         result' \in [Readers -> Results \cup {None}],
         \A s \in Readers : s # r => pos'[s] = pos[s] /\ result'[s] = result[s],
         pos'[r] # None => Sound(pos'[r]),
         place = "storing" => Pending(r)'
  PROVE  IInv'
<1> USE DEF IInv
<1>1. TypeOK' /\ FolderOK'
  BY DEF TypeOK, FolderOK
<1>2. \A p : Sound(p) => Sound(p)'
  BY DEF Sound, wanted
<1>3. cursor' # None => Sound(cursor)'
  BY <1>2
<1>4. ASSUME NEW s \in Readers, pos'[s] # None PROVE Sound(pos[s])'
  <2>1. Sound(pos'[s])
    BY <1>4
  <2> QED
    BY <2>1 DEF Sound, wanted
<1>5. ASSUME NEW s \in Readers, pc'[s] = "storing" PROVE Pending(s)'
  <2>1. CASE s = r
    BY <1>5, <2>1 DEF TypeOK
  <2>2. CASE s # r
    <3>1. Pending(s) /\ pos'[s] = pos[s] /\ result'[s] = result[s]
      BY <1>5, <2>2 DEF TypeOK
    <3> QED
      BY <3>1 DEF Pending, wanted
  <2> QED
    BY <2>1, <2>2
<1> QED
  BY <1>1, <1>3, <1>4, <1>5

\* The UIDs handed out so far.
LEMMA HandedOut ==
  ASSUME IInv
  PROVE  /\ uidnext - 1 \in Nat /\ uidnext - 1 <= MaxUid
         /\ found \in SUBSET (0..uidnext - 1)
<1>1. uidnext \in 1..MaxUid + 1 /\ MaxUid \in Nat
  BY UidFacts DEF IInv, TypeOK
<1>2. \A u \in found : u \in 0..uidnext - 1
  BY <1>1 DEF IInv, FolderOK, found, Uids
<1> QED
  BY <1>1, <1>2

\* The page a call gets after a sound position is all that it will pass over
\* (SearchAfter, SearchAgain).
LEMMA FollowingPending ==
  ASSUME IInv, NEW r \in Readers, NEW after \in 0..uidnext - 1,
         \A u \in wanted : baseline < u /\ u <= after => u \in given,
         UNCHANGED <<uidvalidity, uidnext, kind, given, baseline>>,
         LET res == Following(found, wanted, Limit, after)
         IN Got(r, res.page, res.next_after)
  PROVE  /\ result' \in [Readers -> Results \cup {None}]
         /\ \A s \in Readers : s # r => result'[s] = result[s]
         /\ Pending(r)'
<1> DEFINE res == Following(found, wanted, Limit, after)
           B == uidnext - 1
<1>1. B \in Nat /\ B <= MaxUid /\ found \in SUBSET (0..B) /\ uidnext \in Nat
      /\ uidvalidity \in Validities /\ MaxUid \in Nat
  BY HandedOut, UidFacts DEF IInv, TypeOK
<1>2. /\ res.next_after \in 0..B /\ res.page \subseteq wanted
      /\ \A u \in wanted : after < u /\ u <= res.next_after => u \in res.page
  <2> HIDE DEF B
  <2> QED
    BY <1>1, UidFacts, PageComplete DEF B
<1> DEFINE got == [page |-> res.page,
                   next |-> [uidvalidity |-> uidvalidity, last_uid |-> res.next_after]]
<1>3. result' = [result EXCEPT ![r] = got]
  BY DEF Got
<1> HIDE DEF res
<1>4. got \in Results
  <2>1. res.page \in SUBSET Uids
    BY <1>2, UidFacts
  <2>2. res.next_after \in 0..MaxUid
    BY <1>1, <1>2
  <2> QED
    BY <1>1, <2>1, <2>2 DEF Results, Cursors
<1>5. result \in [Readers -> Results \cup {None}]
  BY DEF IInv, TypeOK
<1>6. result'[r] = got
  BY <1>3, <1>5
<1>7. \A u \in wanted : baseline < u /\ u <= res.next_after
                          => u \in given \/ u \in res.page
  <2> TAKE u \in wanted
  <2>1. u \in Nat /\ after \in Nat
    BY <1>1, UidFacts
  <2> QED
    BY <1>2, <2>1
<1>8. Pending(r)'
  <2>1. wanted' = wanted
    BY DEF wanted
  <2>2. uidvalidity \in Nat
    BY <1>1 DEF Validities
  <2>3. res.next_after < uidnext
    BY <1>1, <1>2
  <2> QED
    BY <1>4, <1>6, <1>7, <2>1, <2>2, <2>3 DEF Pending
<1> QED
  BY <1>3, <1>4, <1>5, <1>8

\* A first call passes over whatever there is.
LEMMA NewestPending ==
  ASSUME IInv, NEW r \in Readers, pos[r] = None,
         UNCHANGED <<uidvalidity, uidnext, kind, given, baseline, pos>>,
         LET res == Listing(found, wanted, Limit, None)
         IN Got(r, res.page, res.next_after)
  PROVE  /\ result' \in [Readers -> Results \cup {None}]
         /\ \A s \in Readers : s # r => result'[s] = result[s]
         /\ Pending(r)'
<1> DEFINE res == Listing(found, wanted, Limit, None)
           B == uidnext - 1
<1>1. B \in Nat /\ B <= MaxUid /\ found \in SUBSET (0..B) /\ uidnext \in Nat
      /\ uidvalidity \in Validities /\ MaxUid \in Nat
  BY HandedOut, UidFacts DEF IInv, TypeOK
<1>2. res.page \subseteq wanted
  BY DEF Listing, Latest
<1>3. res.next_after \in 0..B
  <2>1. found \cup {0} \in SUBSET (0..B) /\ found \cup {0} # {}
    BY <1>1
  <2>2. Highest(found \cup {0}) \in found \cup {0}
    <3> HIDE DEF B
    <3> QED
      BY <1>1, <2>1, HighestMember
  <2> QED
    BY <2>1, <2>2 DEF Listing
<1> DEFINE got == [page |-> res.page,
                   next |-> [uidvalidity |-> uidvalidity, last_uid |-> res.next_after]]
<1>4. result' = [result EXCEPT ![r] = got]
  BY DEF Got
<1> HIDE DEF res
<1>5. got \in Results
  <2>1. wanted \subseteq Uids
    BY UidFacts
  <2>2. res.page \in SUBSET Uids
    BY <1>2, <2>1
  <2>3. res.next_after \in 0..MaxUid
    <3> HIDE DEF B
    <3> QED
      BY <1>1, <1>3
  <2> QED
    BY <1>1, <2>2, <2>3 DEF Results, Cursors
<1>6. result \in [Readers -> Results \cup {None}]
  BY DEF IInv, TypeOK
<1>7. result'[r] = got
  BY <1>4, <1>6
<1>8. uidvalidity \in Nat /\ res.next_after < uidnext
  BY <1>1, <1>3 DEF Validities
<1>9. Pending(r)'
  BY <1>5, <1>7, <1>8 DEF Pending
<1> QED
  BY <1>4, <1>5, <1>6, <1>9

\* Storing a position: what it passes over is on its page, or was given, or it was
\* a first call and raises the baseline.
LEMMA SetCursorInv ==
  ASSUME IInv, NEW r \in Readers, SetCursor(r)
  PROVE  IInv'
<1> DEFINE next == result[r].next
           current == next.uidvalidity = uidvalidity
<1> USE DEF IInv, folderVars
<1>1. /\ pc[r] = "storing" /\ cursor' = next
      /\ given' = IF current THEN given \cup result[r].page ELSE given
      /\ baseline' = IF current /\ pos[r] = None THEN Highest({baseline, next.last_uid})
                     ELSE baseline
      /\ UNCHANGED <<uidvalidity, uidnext, kind>>
  BY DEF SetCursor, Step
<1>2. Pending(r) /\ next \in Cursors /\ result[r].page \in SUBSET Uids
  BY <1>1 DEF Pending, Results
<1>3. baseline' \in 0..MaxUid /\ baseline' >= baseline
      /\ (current /\ pos[r] = None => baseline' >= next.last_uid)
  <2>1. baseline \in 0..MaxUid /\ next.last_uid \in 0..MaxUid /\ MaxUid \in Nat
    BY <1>2, UidFacts DEF TypeOK, Cursors
  <2>2. /\ Highest({baseline, next.last_uid}) \in {baseline, next.last_uid}
        /\ \A v \in {baseline, next.last_uid} : v <= Highest({baseline, next.last_uid})
    <3>1. {baseline, next.last_uid} \in SUBSET (0..MaxUid) /\ {baseline, next.last_uid} # {}
      BY <2>1
    <3> HIDE DEF next
    <3> QED
      BY <2>1, <3>1, HighestMember
  <2> QED
    BY <1>1, <2>1, <2>2
<1>4. given \subseteq given' /\ given' \subseteq Uids
  BY <1>1, <1>2 DEF TypeOK
<1>5. TypeOK'
  BY <1>1, <1>2, <1>3, <1>4 DEF TypeOK, SetCursor, Step
<1>6. FolderOK'
  BY <1>1 DEF FolderOK
<1>7. wanted' = wanted /\ wanted \subseteq Uids /\ baseline \in Nat /\ baseline' \in Nat
      /\ \A u \in wanted : u \in Nat
  <2>1. wanted' = wanted
    BY <1>1 DEF wanted
  <2> QED
    BY <1>3, <2>1, UidFacts DEF TypeOK
<1>8. ASSUME NEW p, Sound(p) PROVE Sound(p)'
  BY <1>1, <1>3, <1>4, <1>7, <1>8 DEF Sound
<1>9. Sound(cursor)'
  <2>1. next.uidvalidity <= uidvalidity
    BY <1>2 DEF Pending
  <2>2. ASSUME current
        PROVE  /\ next.last_uid < uidnext
               /\ \A u \in wanted : baseline' < u /\ u <= next.last_uid => u \in given'
    <3>1. next.last_uid < uidnext
      BY <1>2, <2>2 DEF Pending
    <3>2. CASE pos[r] = None
      <4>1. baseline' >= next.last_uid /\ next.last_uid \in Nat
        BY <1>2, <1>3, <2>2, <3>2 DEF Cursors
      <4> QED
        BY <1>7, <3>1, <4>1
    <3>3. CASE pos[r] # None
      <4>1. \A u \in wanted : baseline < u /\ u <= next.last_uid
                                => u \in given \/ u \in result[r].page
        BY <1>2, <2>2, <3>3 DEF Pending
      <4>2. given' = given \cup result[r].page
        BY <1>1, <2>2
      <4> QED
        BY <1>3, <1>7, <3>1, <4>1, <4>2
    <3> QED
      BY <3>2, <3>3
  <2> QED
    BY <1>1, <1>7, <2>1, <2>2 DEF Sound
<1>10. ASSUME NEW s \in Readers, pos'[s] # None PROVE Sound(pos[s])'
  <2>1. pos'[s] = pos[s]
    BY <1>10 DEF SetCursor, TypeOK
  <2>2. Sound(pos[s])
    BY <1>10, <2>1
  <2> QED
    BY <1>1, <1>3, <1>4, <1>7, <2>1, <2>2 DEF Sound
<1>11. ASSUME NEW s \in Readers, pc'[s] = "storing" PROVE Pending(s)'
  <2>1. s # r /\ pc[s] = "storing"
    BY <1>11 DEF SetCursor, Step, TypeOK
  <2>2. pos'[s] = pos[s] /\ result'[s] = result[s]
    BY <2>1 DEF SetCursor, TypeOK
  <2>3. Pending(s)
    BY <2>1
  <2> QED
    BY <1>1, <1>3, <1>4, <1>7, <2>2, <2>3 DEF Pending
<1> QED
  BY <1>5, <1>6, <1>9, <1>10, <1>11

\* Each action keeps the invariant.
LEMMA NextInv == IInv /\ [Next]_vars => IInv'
<1> SUFFICES ASSUME IInv, [Next]_vars PROVE IInv'
  OBVIOUS
<1> USE DEF folderVars, callVars, historyVars, Step
<1>0. /\ pc \in [Readers -> {"idle", "searching", "restarting", "storing"}]
      /\ pos \in [Readers -> Cursors \cup {None}]
      /\ result \in [Readers -> Results \cup {None}]
      /\ overtaken \in [Readers -> BOOLEAN] /\ cursor \in Cursors \cup {None}
  BY DEF IInv, TypeOK
<1>1. ASSUME NEW k \in Kinds, Arrive(k) PROVE IInv'
  BY <1>1, ArriveInv
<1>2. ASSUME NEW u \in Uids, Expunge(u) PROVE IInv'
  BY <1>2, ExpungeInv
<1>3. CASE Renumber
  BY <1>3, RenumberInv
<1>4. ASSUME NEW r \in Readers, GetCursor(r) PROVE IInv'
  <2>1. pos' \in [Readers -> Cursors \cup {None}] /\ pos'[r] = cursor
    BY <1>0, <1>4 DEF GetCursor
  <2>2. pos'[r] # None => Sound(pos'[r])
    BY <2>1 DEF IInv
  <2> QED
    BY <1>0, <1>4, <2>1, <2>2, CallInv DEF GetCursor
<1>5. ASSUME NEW r \in Readers, SearchNewest(r) PROVE IInv'
  <2>1. pos[r] = None /\ pos' = pos
    BY <1>5 DEF SearchNewest
  <2>2. /\ result' \in [Readers -> Results \cup {None}]
        /\ \A s \in Readers : s # r => result'[s] = result[s]
        /\ Pending(r)'
    BY <1>5, NewestPending DEF SearchNewest
  <2> QED
    BY <1>0, <1>5, <2>1, <2>2, CallInv DEF SearchNewest
<1>6. ASSUME NEW r \in Readers, SearchAfter(r) PROVE IInv'
  <2>1. pos[r] \in Cursors /\ Sound(pos[r]) /\ pos[r].uidvalidity = uidvalidity
    BY <1>0, <1>6 DEF SearchAfter, IInv
  <2>2. pos[r].last_uid \in 0..uidnext - 1
    <3>1. uidnext \in Nat /\ pos[r].last_uid \in Nat
      BY <2>1, UidFacts DEF IInv, TypeOK, Cursors
    <3>2. pos[r].last_uid < uidnext
      BY <2>1 DEF Sound
    <3> QED
      BY <3>1, <3>2
  <2>3. /\ result' \in [Readers -> Results \cup {None}]
        /\ \A s \in Readers : s # r => result'[s] = result[s]
        /\ Pending(r)'
    BY <1>6, <2>1, <2>2, FollowingPending DEF SearchAfter, Sound
  <2> QED
    BY <1>0, <1>6, <2>1, <2>3, CallInv DEF SearchAfter
<1>7. ASSUME NEW r \in Readers, FindRenumbered(r) PROVE IInv'
  <2>1. pos[r] # None => Sound(pos[r])
    BY DEF IInv
  <2> QED
    BY <1>0, <1>7, <2>1, CallInv DEF FindRenumbered
<1>8. ASSUME NEW r \in Readers, SearchAgain(r) PROVE IInv'
  <2>1. pos[r] # None => Sound(pos[r])
    BY DEF IInv
  <2>2. 0 \in 0..uidnext - 1
    BY HandedOut
  <2>3. \A u \in wanted : ~(u <= 0)
    BY CheckpointsAssumption DEF wanted, Uids
  <2>4. /\ result' \in [Readers -> Results \cup {None}]
        /\ \A s \in Readers : s # r => result'[s] = result[s]
        /\ Pending(r)'
    BY <1>8, <2>2, <2>3, FollowingPending DEF SearchAgain
  <2> QED
    BY <1>0, <1>8, <2>1, <2>4, CallInv DEF SearchAgain
<1>9. ASSUME NEW r \in Readers, SetCursor(r) PROVE IInv'
  BY <1>9, SetCursorInv
<1>10. ASSUME NEW r \in Readers, Fail(r) PROVE IInv'
  <2>1. /\ pos' \in [Readers -> Cursors \cup {None}] /\ pos'[r] = None
        /\ result' \in [Readers -> Results \cup {None}]
        /\ overtaken' \in [Readers -> BOOLEAN]
        /\ \A s \in Readers : s # r => pos'[s] = pos[s] /\ result'[s] = result[s]
    BY <1>0, <1>10 DEF Fail
  <2> QED
    BY <1>10, <2>1, CallInv DEF Fail
<1>11. CASE UNCHANGED vars
  BY <1>11 DEF vars, IInv, TypeOK, FolderOK, Sound, Pending, wanted, found
<1> QED
  BY <1>1, <1>2, <1>3, <1>4, <1>5, <1>6, <1>7, <1>8, <1>9, <1>10, <1>11 DEF Next, Progress

LEMMA Invariance == Spec => []IInv
  BY InitInv, NextInv, PTL DEF Spec

\* Whatever the number of callers, the page size and the folder, the checkpoint
\* passes over no mail that is newer than the first call and was not on a page.
THEOREM CheckpointNeverSkips == Spec => []NeverSkips
<1>1. IInv => NeverSkips
  BY DEF IInv, NeverSkips, Sound
<1> QED
  BY <1>1, Invariance, PTL

\* The pages of a listing adjoin, for every page size and folder: nothing that stays
\* in the folder is listed twice or left out.
THEOREM ListingsAdjoin == Spec => []PagesAdjoin
<1>1. IInv => PagesAdjoin
  <2> SUFFICES ASSUME NEW before \in Uids \cup {MaxUid + 1}
               PROVE  LET res == Listing(found, wanted, Limit, before)
                      IN res.page = {u \in wanted : u < before /\
                           (res.next_before # None => u >= res.next_before)}
    BY DEF PagesAdjoin
  <2> DEFINE res == Listing(found, wanted, Limit, before)
  <2>1. /\ MaxUid \in Nat /\ found \in SUBSET (0..MaxUid) /\ wanted \in SUBSET found
        /\ Limit \in Nat \ {0} /\ before \in Nat
    BY UidFacts, CheckpointsAssumption
  <2>2. /\ res.page \subseteq wanted
        /\ \A u \in wanted : u \in res.page <=>
             u < before /\ (res.next_before # None => u >= res.next_before)
    BY <2>1, ListingAdjoins
  <2> HIDE DEF res
  <2>3. res.page = {u \in wanted :
                      u < before /\ (res.next_before # None => u >= res.next_before)}
    BY <2>2
  <2> QED
    BY <2>3 DEF res
<1> QED
  BY <1>1, Invariance, PTL
-----------------------------------------------------------------------------
(* The order of positions.                                                  *)

\* The position after a page is not below the one it starts after.
LEMMA NotBack ==
  ASSUME NEW B \in Nat, NEW all \in SUBSET (0..B), NEW some \in SUBSET all,
         NEW limit \in Nat, NEW after \in 0..B
  PROVE  Following(all, some, limit, after).next_after >= after
  BY PageComplete

\* A call that was not overtaken since it read the cursor will store a position that
\* is not below the cursor, or of another numbering.
OrderInv(r) ==
  /\ pc[r] # "idle" /\ ~overtaken[r] => pos[r] = cursor
  /\ pc[r] = "restarting" => pos[r] # None /\ pos[r].uidvalidity < uidvalidity
  /\ pc[r] = "storing" /\ pos[r] # None /\ result[r].next.uidvalidity = pos[r].uidvalidity
       => result[r].next.last_uid >= pos[r].last_uid

Ordered == \A r \in Readers : OrderInv(r)

LEMMA NextOrdered == IInv /\ Ordered /\ [Next]_vars => Ordered'
<1> SUFFICES ASSUME IInv, Ordered, [Next]_vars, NEW s \in Readers PROVE OrderInv(s)'
  BY DEF Ordered
<1> USE DEF folderVars, callVars, historyVars, Step
<1>0. /\ pc \in [Readers -> {"idle", "searching", "restarting", "storing"}]
      /\ pos \in [Readers -> Cursors \cup {None}]
      /\ result \in [Readers -> Results \cup {None}]
      /\ overtaken \in [Readers -> BOOLEAN] /\ cursor \in Cursors \cup {None}
      /\ uidvalidity \in Nat /\ OrderInv(s)
  BY DEF IInv, TypeOK, Ordered, Validities
<1>1. ASSUME UNCHANGED <<pc, pos, result, overtaken, cursor>>, uidvalidity' >= uidvalidity,
             uidvalidity' \in Nat
      PROVE  OrderInv(s)'
  <2>1. pos[s] # None => pos[s].uidvalidity \in Nat
    BY <1>0 DEF Cursors, Validities
  <2> QED
    BY <1>0, <1>1, <2>1 DEF OrderInv
<1>2. ASSUME NEW r \in Readers, Progress(r) \/ Fail(r), r # s PROVE OrderInv(s)'
  <2>1. /\ pc'[s] = pc[s] /\ pos'[s] = pos[s] /\ result'[s] = result[s]
        /\ uidvalidity' = uidvalidity
    BY <1>0, <1>2 DEF Progress, GetCursor, SearchNewest, SearchAfter, FindRenumbered,
       SearchAgain, SetCursor, Fail, Got
  <2>2. pc[s] # "idle" /\ ~overtaken'[s] => cursor' = cursor /\ ~overtaken[s]
    <3>1. CASE SetCursor(r)
      BY <1>2, <3>1 DEF SetCursor
    <3>2. CASE ~SetCursor(r)
      BY <1>0, <1>2, <3>2 DEF Progress, GetCursor, SearchNewest, SearchAfter, FindRenumbered,
         SearchAgain, Fail
    <3> QED
      BY <3>1, <3>2
  <2> QED
    BY <1>0, <2>1, <2>2 DEF OrderInv
<1>3. CASE GetCursor(s)
  BY <1>0, <1>3 DEF GetCursor, OrderInv
<1>4. CASE SearchNewest(s)
  BY <1>0, <1>4 DEF SearchNewest, OrderInv
<1>5. CASE SearchAfter(s)
  <2> DEFINE res == Following(found, wanted, Limit, pos[s].last_uid)
             got == [page |-> res.page,
                     next |-> [uidvalidity |-> uidvalidity, last_uid |-> res.next_after]]
  <2>1. pos[s].last_uid \in 0..uidnext - 1
    <3>1. pos[s] \in Cursors /\ Sound(pos[s]) /\ pos[s].uidvalidity = uidvalidity
      BY <1>0, <1>5 DEF SearchAfter, IInv
    <3>2. uidnext \in Nat /\ pos[s].last_uid \in Nat /\ pos[s].last_uid < uidnext
      BY <3>1, UidFacts DEF IInv, TypeOK, Cursors, Sound
    <3> QED
      BY <3>2
  <2>2. res.next_after >= pos[s].last_uid
    <3> DEFINE B == uidnext - 1
    <3>1. B \in Nat /\ found \in SUBSET (0..B) /\ pos[s].last_uid \in 0..B
      BY <2>1, HandedOut
    <3>2. Limit \in Nat /\ wanted \in SUBSET found
      BY UidFacts
    <3> HIDE DEF B
    <3> QED
      BY <3>1, <3>2, NotBack
  <2>3. result'[s] = got
    BY <1>0, <1>5 DEF SearchAfter, Got
  <2> HIDE DEF res
  <2> QED
    BY <1>0, <1>5, <2>2, <2>3 DEF SearchAfter, OrderInv
<1>6. CASE FindRenumbered(s)
  <2>1. pos[s] # None => Sound(pos[s]) /\ pos[s].uidvalidity \in Nat
    BY <1>0 DEF IInv, Cursors, Validities
  <2> QED
    BY <1>0, <1>6, <2>1 DEF FindRenumbered, OrderInv, Sound
<1>7. CASE SearchAgain(s)
  <2>1. result'[s].next.uidvalidity = uidvalidity
    BY <1>0, <1>7 DEF SearchAgain, Got
  <2>2. pos[s] # None /\ pos[s].uidvalidity \in Nat /\ pos[s].uidvalidity < uidvalidity
    BY <1>0, <1>7 DEF SearchAgain, OrderInv, Cursors, Validities
  <2> QED
    BY <1>0, <1>7, <2>1, <2>2 DEF SearchAgain, OrderInv
<1>8. CASE SetCursor(s) \/ Fail(s)
  BY <1>0, <1>8 DEF SetCursor, Fail, OrderInv
<1>9. CASE Renumber \/ (\E k \in Kinds : Arrive(k)) \/ (\E u \in Uids : Expunge(u))
             \/ UNCHANGED vars
  BY <1>0, <1>1, <1>9 DEF Renumber, Arrive, Expunge, vars
<1> QED
  BY <1>2, <1>3, <1>4, <1>5, <1>6, <1>7, <1>8, <1>9 DEF Next, Progress

\* The checkpoint goes back within a numbering only by a call that another one
\* overtook, so that mail is given again but never passed over.
THEOREM OvertakenGoBack == Spec => OnlyOvertakenGoBack
<1> DEFINE GoesBack == /\ cursor # None /\ cursor'.uidvalidity = cursor.uidvalidity
                       /\ cursor'.last_uid < cursor.last_uid
           Overtaken == \E r \in Readers : pc[r] = "storing" /\ pc'[r] = "idle" /\ overtaken[r]
<1>1. ASSUME IInv, Ordered, Next, cursor' # cursor, GoesBack PROVE Overtaken
  <2>1. PICK r \in Readers : SetCursor(r)
    BY <1>1 DEF Next, Progress, Arrive, Expunge, Renumber, GetCursor, SearchNewest,
       SearchAfter, FindRenumbered, SearchAgain, Fail
  <2>2. /\ pc[r] = "storing" /\ pc'[r] = "idle" /\ cursor' = result[r].next
        /\ overtaken[r] \in BOOLEAN /\ OrderInv(r) /\ Pending(r)
    BY <1>1, <2>1 DEF SetCursor, Step, IInv, TypeOK, Ordered
  <2>3. cursor.last_uid \in Nat /\ result[r].next.last_uid \in Nat
    BY <1>1, <2>2 DEF IInv, TypeOK, Cursors, Pending, Results
  <2>4. overtaken[r]
    BY <1>1, <2>2, <2>3 DEF OrderInv
  <2> QED
    BY <2>2, <2>4
<1>2. IInv /\ Ordered /\ [Next]_vars => [GoesBack => Overtaken]_cursor
  BY <1>1 DEF vars
<1>3. Init => Ordered
  BY DEF Init, Ordered, OrderInv
<1>4. Spec => []Ordered
  BY <1>3, NextOrdered, Invariance, PTL DEF Spec
<1> QED
  BY <1>2, <1>4, Invariance, PTL DEF Spec, OnlyOvertakenGoBack
=============================================================================

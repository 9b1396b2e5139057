-------------------------- MODULE WatchDiscoveryProofs -------------------------
(***************************************************************************)
(* The safety of new-mail discovery for any number of messages and of      *)
(* renumberings: for the one watcher of a mailbox that docs/api.md asks    *)
(* for, and also for watchers that overlap, as long as the folder keeps    *)
(* its numbering and the watch has begun before.                           *)
(***************************************************************************)
EXTENDS WatchDiscovery, FiniteSetTheorems, WellFoundedInduction, TLAPS

Supported ==
  \/ \A w1, w2 \in Watchers : w1 = w2
  \/ MaxValidity = 1 /\ ~FirstRun

-----------------------------------------------------------------------------
(* The inductive invariant.                                                *)

\* The watch has begun with a numbering when the cursor was of it; the cursor has
\* gone on from there, and not past what the folder has handed out.
CursorInv ==
  /\ \A v \in Validities : baseline[v] # None =>
       v <= uidvalidity /\ cursor # None /\ v <= cursor.uidvalidity
  /\ cursor # None =>
       /\ cursor.uidvalidity <= uidvalidity
       /\ baseline[cursor.uidvalidity] \in 0..cursor.last_uid
       /\ cursor.uidvalidity = uidvalidity => cursor.last_uid < uidnext
  /\ ~FirstRun => cursor # None

\* What a session has selected is not newer than the folder nor older than the cursor.
SessionInv(w) ==
  pc[w] \notin {"offline", "selecting"} =>
    /\ selected[w] \in 1..uidvalidity
    /\ cursor # None => cursor.uidvalidity <= selected[w]

\* A first position is that of the folder, and is stored only where there is none.
BaselineInv(w) ==
  /\ (pc[w] \in {"reconciling", "baselining"} /\ Live(w)) => last_uid[w] < uidnext
  /\ pc[w] = "baselining" => ~Known(w)

\* What is to be notified lies above the position, and all that does is to be.
BatchInv(w) ==
  /\ pc[w] \in {"searching", "fetching", "storing"} =>
       Known(w) /\ last_uid[w] \in baseline[selected[w]]..cursor.last_uid
  /\ pc[w] \in {"fetching", "storing"} =>
       /\ new[w] # {}
       /\ \A n \in new[w] : n > last_uid[w] /\ (Live(w) => n < uidnext)
       /\ Live(w) => \A u \in present : u > last_uid[w] =>
                       u \in new[w] \/ \A n \in new[w] : n < u

ThreadInv == \A w \in Watchers : SessionInv(w) /\ BaselineInv(w) /\ BatchInv(w)

DiscoveryInv ==
  TypeOK /\ CursorInv /\ ThreadInv /\ NeverSkips /\ NoHistoryReplayed

-----------------------------------------------------------------------------
(* Least and greatest members.                                             *)

LEMMA MinMember ==
  ASSUME NEW S \in SUBSET Nat, S # {}
  PROVE  Min(S) \in S /\ \A y \in S : Min(S) <= y
<1>1. \E x \in S : \A y \in S : ~(<<y, x>> \in OpToRel(<, Nat))
  BY WFMin, NatLessThanWellFounded
<1>2. PICK x \in S : \A y \in S : ~(y < x)
  BY <1>1 DEF OpToRel
<1>3. \A y \in S : x <= y
  BY <1>2
<1> QED
  BY <1>2, <1>3 DEF Min

LEMMA MaxMember ==
  ASSUME NEW B \in Nat, NEW S \in SUBSET (0..B), S # {}
  PROVE  Max(S) \in S /\ \A y \in S : y <= Max(S)
<1> DEFINE T == {n \in Nat : \E u \in S : n = B - u}
<1>1. T \in SUBSET Nat /\ T # {}
  <2>1. PICK u \in S : TRUE
    OBVIOUS
  <2>2. B - u \in T
    BY <2>1
  <2> QED
    BY <2>2
<1>2. Min(T) \in T /\ \A y \in T : Min(T) <= y
  BY <1>1, MinMember
<1>3. PICK x \in S : Min(T) = B - x
  BY <1>2
<1>4. ASSUME NEW y \in S PROVE y <= x
  <2>1. B - y \in T /\ x \in 0..B /\ y \in 0..B
    OBVIOUS
  <2>2. B - x <= B - y
    BY <1>2, <1>3, <2>1
  <2> QED
    BY <2>1, <2>2
<1>5. \A y \in S : x >= y
  BY <1>4
<1>6. Max(S) \in S /\ \A y \in S : Max(S) >= y
  BY <1>5 DEF Max
<1> QED
  BY <1>6

LEMMA MaxOfTwo ==
  ASSUME NEW a \in Nat, NEW b \in Nat
  PROVE  Max({a, b}) \in {a, b} /\ Max({a, b}) >= a /\ Max({a, b}) >= b
<1>1. CASE a >= b
  <2>1. \A y \in {a, b} : a >= y
    BY <1>1
  <2> QED
    BY <2>1 DEF Max
<1>2. CASE b >= a
  <2>1. \A y \in {a, b} : b >= y
    BY <1>2
  <2> QED
    BY <2>1 DEF Max
<1> QED
  BY <1>1, <1>2

LEMMA TopWithin ==
  ASSUME NEW n \in Nat \ {0}, NEW uids \in SUBSET (1..n - 1)
  PROVE  Top(uids) \in 0..n - 1
<1>1. uids \cup {0} \in SUBSET (0..n - 1) /\ uids \cup {0} # {} /\ n - 1 \in Nat
  OBVIOUS
<1> QED
  BY <1>1, MaxMember DEF Top

-----------------------------------------------------------------------------
(* The invariant is inductive.                                             *)

LEMMA DiscoveryInit == Init => DiscoveryInv
<1> SUFFICES ASSUME Init PROVE DiscoveryInv
  OBVIOUS
<1>1. TypeOK
  BY DiscoveryAssumption DEF Init, TypeOK, Validities, Uids, Cursors, Places
<1>2. CursorInv /\ NeverSkips /\ NoHistoryReplayed
  BY DiscoveryAssumption, NoneAssumption DEF Init, CursorInv, NeverSkips, NoHistoryReplayed, Validities, Cursors
<1>3. ThreadInv
  BY DEF Init, ThreadInv, SessionInv, BaselineInv, BatchInv
<1> QED
  BY <1>1, <1>2, <1>3 DEF DiscoveryInv

\* What others do to the folder.
LEMMA FolderStep ==
  ASSUME DiscoveryInv, Arrive \/ Renumber \/ \E u \in Uids : Expunge(u)
  PROVE  DiscoveryInv'
<1> USE DEF DiscoveryInv, storeVars, threadVars
<1>1. CASE Arrive
  <2>1. TypeOK'
    BY <1>1, DiscoveryAssumption DEF Arrive, TypeOK, Validities, Uids, Cursors
  <2>2. CursorInv' /\ NoHistoryReplayed'
    BY <1>1, DiscoveryAssumption DEF Arrive, TypeOK, CursorInv, NoHistoryReplayed, Awaited, Cursors
  <2>3. NeverSkips'
    <3>1. /\ present' = present \cup {uidnext}
          /\ UNCHANGED <<uidvalidity, cursor, queued, baseline>>
      BY <1>1 DEF Arrive
    <3>2. cursor # None /\ cursor.uidvalidity = uidvalidity =>
            ~(uidnext <= cursor.last_uid)
      BY DiscoveryAssumption DEF TypeOK, CursorInv, Cursors
    <3> QED
      BY <3>1, <3>2 DEF NeverSkips, Awaited
  <2>4. ASSUME NEW w \in Watchers PROVE (SessionInv(w) /\ BaselineInv(w))'
    BY <1>1, <2>4, DiscoveryAssumption DEF Arrive, TypeOK, ThreadInv, SessionInv, BaselineInv, Live, Known
  <2>5. ASSUME NEW w \in Watchers PROVE BatchInv(w)'
    <3>1. /\ present' = present \cup {uidnext} /\ uidnext' = uidnext + 1 /\ uidnext \in Nat
          /\ UNCHANGED <<uidvalidity, cursor, queued, pc, selected, last_uid, new, baseline>>
      BY <1>1, DiscoveryAssumption DEF Arrive, TypeOK
    <3>2. \A n \in new[w] : n \in Nat
      BY <2>5, DiscoveryAssumption DEF TypeOK, Uids
    <3>3. BatchInv(w) /\ (Live(w) <=> Live(w)') /\ (Known(w) <=> Known(w)')
      BY <2>5, <3>1 DEF ThreadInv, Live, Known
    <3> QED
      BY <3>1, <3>2, <3>3 DEF BatchInv
  <2> QED
    BY <2>1, <2>2, <2>3, <2>4, <2>5 DEF ThreadInv
<1>2. CASE Renumber
  <2>0. PICK n \in 0..Cardinality(present) : present' = 1..n /\ uidnext' = n + 1
    BY <1>2 DEF Renumber
  <2>4. n \in Nat /\ n < uidnext
    <3>1. uidnext \in Nat /\ uidnext - 1 \in Nat /\ present \subseteq 1..uidnext - 1
      BY DiscoveryAssumption DEF TypeOK
    <3>2. IsFiniteSet(1..uidnext - 1) /\ Cardinality(1..uidnext - 1) = uidnext - 1
      BY <3>1, FS_Interval
    <3>3. Cardinality(present) <= uidnext - 1 /\ Cardinality(present) \in Nat
      <4>1. IsFiniteSet(present) /\ Cardinality(present) <= Cardinality(1..uidnext - 1)
        BY <3>1, <3>2, FS_Subset
      <4>2. Cardinality(present) \in Nat
        BY <4>1, FS_CardinalityType
      <4> QED
        BY <3>2, <4>1, <4>2
    <3> QED
      BY <3>1, <3>3
  <2>1. TypeOK'
    BY <1>2, <2>0, <2>4, DiscoveryAssumption DEF Renumber, TypeOK, Validities, Uids, Cursors
  <2>2. CursorInv' /\ NoHistoryReplayed' /\ NeverSkips'
    BY <1>2, DiscoveryAssumption DEF Renumber, TypeOK, CursorInv, NoHistoryReplayed, NeverSkips, Awaited, Cursors, Validities
  <2>3. ASSUME NEW w \in Watchers PROVE (SessionInv(w) /\ BaselineInv(w) /\ BatchInv(w))'
    <3>1. /\ uidvalidity' = uidvalidity + 1 /\ uidvalidity \in Nat
          /\ UNCHANGED <<cursor, queued, pc, selected, last_uid, new, baseline>>
      BY <1>2, DiscoveryAssumption DEF Renumber, TypeOK, Validities
    <3>2. SessionInv(w) /\ BaselineInv(w) /\ BatchInv(w) /\ (Known(w) <=> Known(w)')
      BY <2>3, <3>1 DEF ThreadInv, Known
    <3>3. pc[w] \notin {"offline", "selecting"} => ~Live(w)'
      BY <3>1, <3>2 DEF SessionInv, Live
    <3> QED
      BY <3>1, <3>2, <3>3 DEF SessionInv, BaselineInv, BatchInv
  <2> QED
    BY <2>1, <2>2, <2>3 DEF ThreadInv
<1>3. ASSUME NEW u \in Uids, Expunge(u) PROVE DiscoveryInv'
  BY <1>3 DEF Expunge, TypeOK, CursorInv, NoHistoryReplayed, NeverSkips, Awaited, ThreadInv,
     SessionInv, BaselineInv, BatchInv, Live, Known
<1> QED
  BY <1>1, <1>2, <1>3

\* A thread that only moves on in its session, without a position of its own.
LEMMA ThreadMoves ==
  ASSUME DiscoveryInv, NEW w \in Watchers, UNCHANGED <<serverVars, storeVars, baseline>>,
         NEW place \in {"offline", "selecting", "waiting", "draining"},
         pc' = [pc EXCEPT ![w] = place],
         pc[w] \in {"offline", "selecting"} => place \in {"offline", "selecting"},
         \E v \in {None, selected[w]} : selected' = [selected EXCEPT ![w] = v],
         place \in {"waiting", "draining"} => selected' = selected,
         \E n \in 0..MaxUid : told' = [told EXCEPT ![w] = n],
         \E n \in 0..MaxUid : last_uid' = [last_uid EXCEPT ![w] = n],
         \E b \in SUBSET Uids : new' = [new EXCEPT ![w] = b]
  PROVE  DiscoveryInv'
<1> USE DEF DiscoveryInv, serverVars, storeVars
<1>1. TypeOK'
  BY DEF TypeOK, Places
<1>2. CursorInv' /\ NoHistoryReplayed' /\ NeverSkips'
  BY DEF CursorInv, NoHistoryReplayed, NeverSkips, Awaited
<1>3. ASSUME NEW e \in Watchers PROVE (SessionInv(e) /\ BaselineInv(e) /\ BatchInv(e))'
  <2>1. CASE e = w
    BY <2>1 DEF TypeOK, ThreadInv, SessionInv, BaselineInv, BatchInv
  <2>2. CASE e # w
    BY <1>3, <2>2 DEF TypeOK, ThreadInv, SessionInv, BaselineInv, BatchInv, Live, Known
  <2> QED
    BY <2>1, <2>2
<1> QED
  BY <1>1, <1>2, <1>3 DEF ThreadInv

LEMMA SimpleSteps ==
  ASSUME DiscoveryInv, NEW w \in Watchers,
         \/ Connect(w) \/ IdleWake(w) \/ Reissue(w) \/ CloseInIdle(w)
         \/ RequestFails(w) \/ Disconnect(w)
  PROVE  DiscoveryInv'
<1>1. /\ selected = [selected EXCEPT ![w] = selected[w]] /\ told = [told EXCEPT ![w] = told[w]]
      /\ last_uid = [last_uid EXCEPT ![w] = last_uid[w]] /\ new = [new EXCEPT ![w] = new[w]]
      /\ told[w] \in 0..MaxUid /\ last_uid[w] \in 0..MaxUid /\ new[w] \in SUBSET Uids
  BY DEF DiscoveryInv, TypeOK
<1>2. CASE Connect(w) \/ IdleWake(w) \/ Reissue(w) \/ CloseInIdle(w)
  <2>1. /\ UNCHANGED <<serverVars, storeVars, baseline, selected, told, last_uid, new>>
        /\ \/ pc[w] = "offline" /\ pc' = [pc EXCEPT ![w] = "selecting"]
           \/ pc[w] = "waiting" /\ pc' = [pc EXCEPT ![w] = "selecting"]
           \/ pc[w] = "waiting" /\ pc' = [pc EXCEPT ![w] = "draining"]
    BY <1>2 DEF Connect, IdleWake, Reissue, CloseInIdle, Step
  <2>2. PICK place \in {"selecting", "draining"} :
          /\ pc' = [pc EXCEPT ![w] = place]
          /\ pc[w] \in {"offline", "selecting"} => place = "selecting"
    BY <2>1
  <2>3. /\ selected' = [selected EXCEPT ![w] = selected[w]] /\ told' = [told EXCEPT ![w] = told[w]]
        /\ last_uid' = [last_uid EXCEPT ![w] = last_uid[w]] /\ new' = [new EXCEPT ![w] = new[w]]
    BY <1>1, <2>1
  <2>4. /\ \E v \in {None, selected[w]} : selected' = [selected EXCEPT ![w] = v]
        /\ \E n \in 0..MaxUid : told' = [told EXCEPT ![w] = n]
        /\ \E n \in 0..MaxUid : last_uid' = [last_uid EXCEPT ![w] = n]
        /\ \E b \in SUBSET Uids : new' = [new EXCEPT ![w] = b]
    BY <1>1, <2>3
  <2> QED
    BY <2>1, <2>2, <2>4, ThreadMoves
<1>3. CASE RequestFails(w) \/ Disconnect(w)
  <2>1. Drop(w)
    BY <1>3 DEF RequestFails, Disconnect
  <2>2. 0 \in 0..MaxUid /\ {} \in SUBSET Uids
    BY DiscoveryAssumption
  <2> QED
    BY <2>1, <2>2, ThreadMoves DEF Drop
<1> QED
  BY <1>2, <1>3

\* A thread that goes on in its session, and leaves the store as it is.
LEMMA SessionSteps ==
  ASSUME DiscoveryInv, NEW w \in Watchers,
         Current(w) \/ Resume(w) \/ StartFromNow(w) \/ SearchNew(w) \/ FetchHeader(w)
  PROVE  DiscoveryInv'
<1> USE DEF DiscoveryInv, serverVars, storeVars
<1>0. /\ uidnext \in Nat \ {0} /\ uidnext - 1 \in 0..MaxUid
      /\ uidvalidity \in Nat \ {0} /\ uidvalidity \in Validities
      /\ present \in SUBSET (1..uidnext - 1) /\ present \subseteq Uids
  BY DiscoveryAssumption DEF TypeOK, Uids, Validities
<1>1. UNCHANGED <<serverVars, storeVars, baseline>>
  BY DEF Current, Resume, StartFromNow, SearchNew, FetchHeader
<1>2. CursorInv' /\ NoHistoryReplayed' /\ NeverSkips'
  BY <1>1 DEF CursorInv, NoHistoryReplayed, NeverSkips, Awaited
<1>3. ASSUME NEW e \in Watchers, e # w PROVE (SessionInv(e) /\ BaselineInv(e) /\ BatchInv(e))'
  <2>1. /\ pc'[e] = pc[e] /\ selected'[e] = selected[e] /\ last_uid'[e] = last_uid[e]
        /\ new'[e] = new[e]
    BY <1>3 DEF Current, Resume, StartFromNow, SearchNew, FetchHeader, Step, TypeOK
  <2> QED
    BY <1>1, <2>1 DEF ThreadInv, SessionInv, BaselineInv, BatchInv, Live, Known
<1>4. SUFFICES TypeOK' /\ (SessionInv(w) /\ BaselineInv(w) /\ BatchInv(w))'
  BY <1>2, <1>3 DEF ThreadInv
<1>5. CASE Current(w)
  <2>1. Top(present) \in 0..uidnext - 1
    BY <1>0, TopWithin
  <2>2. TypeOK'
    <3>1. Top(present) \in 0..MaxUid
      BY <1>0, <2>1, DiscoveryAssumption
    <3>2. /\ pc' \in [Watchers -> Places] /\ selected' \in [Watchers -> Validities \cup {None}]
          /\ last_uid' \in [Watchers -> 0..MaxUid] /\ told' \in [Watchers -> 0..MaxUid]
          /\ new' = new
      BY <1>0, <1>5, <3>1 DEF Current, Step, TypeOK, Places
    <3> QED
      BY <1>1, <3>2 DEF TypeOK
  <2>3. pc'[w] = "reconciling" /\ selected'[w] = uidvalidity /\ last_uid'[w] = Top(present)
    BY <1>5 DEF Current, Step, TypeOK
  <2> QED
    BY <1>0, <1>1, <2>1, <2>2, <2>3 DEF SessionInv, BaselineInv, BatchInv, CursorInv
<1>6. CASE Resume(w)
  <2>1. cursor # None /\ cursor.uidvalidity = selected[w] /\ cursor.last_uid \in 0..MaxUid
    BY <1>6 DEF Resume, Known, TypeOK, Cursors
  <2>2. TypeOK'
    BY <1>6, <2>1 DEF Resume, Step, TypeOK, Places
  <2>3. /\ pc'[w] = "searching" /\ selected' = selected /\ last_uid'[w] = cursor.last_uid
        /\ pc[w] = "reconciling"
    BY <1>6 DEF Resume, Step, TypeOK
  <2>4. last_uid'[w] \in baseline[selected[w]]..cursor.last_uid
    BY <2>1, <2>3 DEF CursorInv
  <2> QED
    BY <1>1, <2>1, <2>2, <2>3, <2>4 DEF ThreadInv, SessionInv, BaselineInv, BatchInv, Known
<1>7. CASE StartFromNow(w)
  <2>1. TypeOK'
    BY <1>7 DEF StartFromNow, Step, TypeOK, Places
  <2>2. /\ pc[w] = "reconciling" /\ pc'[w] = "baselining" /\ ~Known(w)
        /\ UNCHANGED <<selected, last_uid>>
    BY <1>7 DEF StartFromNow, Step, TypeOK
  <2> QED
    BY <1>1, <2>1, <2>2 DEF ThreadInv, SessionInv, BaselineInv, BatchInv, Known, Live
<1>8. CASE SearchNew(w)
  <2> DEFINE found == Unseen(present, last_uid[w])
  <2>1. found \in SUBSET Uids
    BY <1>0 DEF Unseen
  <2>2. TypeOK'
    BY <1>0, <1>8, <2>1 DEF SearchNew, Step, TypeOK, Places
  <2>3. /\ pc[w] = "searching" /\ pc'[w] = IF found = {} THEN "waiting" ELSE "fetching"
        /\ new'[w] = found /\ UNCHANGED <<selected, last_uid>>
    BY <1>8 DEF SearchNew, Step, TypeOK
  <2>4. SessionInv(w)' /\ BaselineInv(w)'
    <3>1. pc'[w] \in {"waiting", "fetching"}
      BY <2>3
    <3> QED
      BY <1>1, <2>3, <3>1 DEF ThreadInv, SessionInv, BaselineInv
  <2>5. BatchInv(w)'
    <3>1. BatchInv(w) /\ (Known(w)' <=> Known(w)) /\ (Live(w)' <=> Live(w))
      BY <1>1, <2>3 DEF ThreadInv, Known, Live
    <3>2. pc'[w] \in {"waiting", "fetching"} /\ (pc'[w] = "fetching" => new'[w] # {})
      BY <2>3
    <3>3. /\ \A n \in new'[w] : n > last_uid'[w] /\ n < uidnext'
          /\ \A u \in present' : u > last_uid'[w] => u \in new'[w]
      <4>1. new'[w] = {u \in present : u > last_uid[w]} /\ last_uid'[w] = last_uid[w]
        BY <2>3 DEF Unseen
      <4>2. present' = present /\ uidnext' = uidnext /\ \A u \in present : u < uidnext
        BY <1>0, <1>1
      <4> QED
        BY <4>1, <4>2
    <3>4. UNCHANGED <<last_uid, selected, baseline, cursor>> /\ pc[w] = "searching"
      BY <1>1, <2>3
    <3> QED
      BY <3>1, <3>2, <3>3, <3>4 DEF BatchInv
  <2> QED
    BY <2>2, <2>4, <2>5
<1>9. CASE FetchHeader(w)
  <2>1. TypeOK'
    BY <1>0, <1>9 DEF FetchHeader, Step, TypeOK, Places
  <2>2. /\ pc[w] = "fetching" /\ pc'[w] = "storing" /\ UNCHANGED <<selected, last_uid, new>>
    BY <1>9 DEF FetchHeader, Step, TypeOK
  <2> QED
    BY <1>1, <2>1, <2>2 DEF ThreadInv, SessionInv, BaselineInv, BatchInv, Known, Live
<1> QED
  BY <1>5, <1>6, <1>7, <1>8, <1>9

\* Where the numbering is stable the watch has begun with it, and nobody stores a first
\* position; otherwise there is one thread.
LEMMA OnlyOneBaselines ==
  ASSUME Supported, DiscoveryInv, NEW w \in Watchers, pc[w] = "baselining"
  PROVE  \A e \in Watchers : e = w
<1>1. CASE \A w1, w2 \in Watchers : w1 = w2
  BY <1>1
<1>2. CASE MaxValidity = 1 /\ ~FirstRun
  <2>1. cursor # None /\ cursor \in Cursors /\ selected[w] \in 1..uidvalidity /\ uidvalidity = 1
    BY <1>2 DEF DiscoveryInv, TypeOK, CursorInv, ThreadInv, SessionInv, Validities
  <2>2. Known(w)
    BY <1>2, <2>1 DEF Known, Cursors, Validities
  <2> QED
    BY <2>2 DEF DiscoveryInv, ThreadInv, BaselineInv
<1> QED
  BY <1>1, <1>2 DEF Supported

LEMMA FirstPosition ==
  ASSUME Supported, DiscoveryInv, NEW w \in Watchers, SetCursor(w)
  PROVE  DiscoveryInv' /\ (cursor # None => cursor'.uidvalidity # cursor.uidvalidity)
<1> USE DEF DiscoveryInv, serverVars
<1> DEFINE v == selected[w]
<1>1. /\ pc[w] = "baselining" /\ pc' = [pc EXCEPT ![w] = "waiting"]
      /\ cursor' = [uidvalidity |-> v, last_uid |-> last_uid[w]]
      /\ baseline' = [baseline EXCEPT ![v] = IF @ = None THEN last_uid[w] ELSE @]
      /\ UNCHANGED <<uidvalidity, uidnext, present, queued, selected, told, last_uid, new>>
  BY DEF SetCursor, Step
<1>2. /\ v \in 1..uidvalidity /\ uidvalidity \in Nat /\ v \in Validities
      /\ last_uid[w] \in 0..MaxUid /\ uidnext \in Nat /\ MaxUid \in Nat
      /\ cursor # None => cursor \in Cursors /\ cursor.uidvalidity <= v /\ cursor.uidvalidity # v
      /\ v = uidvalidity => last_uid[w] < uidnext
  <2>1. uidvalidity \in Validities /\ uidvalidity \in Nat /\ uidnext \in Nat /\ MaxUid \in Nat
    BY DiscoveryAssumption DEF TypeOK, Validities
  <2>2. v \in 1..uidvalidity /\ (cursor # None => cursor.uidvalidity <= v)
    BY <1>1 DEF ThreadInv, SessionInv
  <2>3. v \in Validities
    BY <2>1, <2>2, DiscoveryAssumption DEF Validities
  <2>4. ~Known(w) /\ (v = uidvalidity => last_uid[w] < uidnext)
    BY <1>1 DEF ThreadInv, BaselineInv, Live
  <2>5. last_uid[w] \in 0..MaxUid /\ (cursor # None => cursor \in Cursors)
    BY DEF TypeOK
  <2> QED
    BY <2>1, <2>2, <2>3, <2>4, <2>5 DEF Known
<1>3. baseline[v] = None
  BY <1>2, DiscoveryAssumption DEF CursorInv, Validities, Cursors
<1>4. baseline' = [baseline EXCEPT ![v] = last_uid[w]]
  BY <1>1, <1>3
<1>5. cursor' \in Cursors /\ cursor' # None /\ cursor'.uidvalidity = v /\ cursor'.last_uid = last_uid[w]
  BY <1>1, <1>2, NoneAssumption DEF Cursors
<1>6. TypeOK'
  <2>1. baseline' \in [Validities -> 0..MaxUid \cup {None}]
    BY <1>2, <1>4 DEF TypeOK
  <2>2. pc' \in [Watchers -> Places]
    BY <1>1 DEF TypeOK, Places
  <2> QED
    BY <1>1, <1>5, <2>1, <2>2 DEF TypeOK
<1>7. CursorInv'
  <2>1. \A x \in Validities : baseline'[x] = IF x = v THEN last_uid[w] ELSE baseline[x]
    BY <1>2, <1>4 DEF TypeOK
  <2>2. ASSUME NEW x \in Validities, baseline'[x] # None PROVE x <= v
    BY <1>2, <2>1, <2>2, DiscoveryAssumption DEF CursorInv, Validities, Cursors
  <2> QED
    BY <1>1, <1>2, <1>5, <2>1, <2>2, DiscoveryAssumption DEF CursorInv, Validities
<1>8. NeverSkips'
  <2> SUFFICES ASSUME v = uidvalidity, NEW u \in present,
                      u > baseline'[uidvalidity], u <= last_uid[w]
               PROVE  FALSE
    BY <1>1, <1>5 DEF NeverSkips, Awaited
  <2>1. baseline'[uidvalidity] = last_uid[w]
    BY <1>2, <1>4 DEF TypeOK
  <2> QED
    BY <1>2, <2>1 DEF TypeOK
<1>9. NoHistoryReplayed'
  BY <1>1, <1>2, <1>3, <1>4 DEF NoHistoryReplayed, Awaited, TypeOK
<1>10. ASSUME NEW e \in Watchers PROVE (SessionInv(e) /\ BaselineInv(e) /\ BatchInv(e))'
  <2>1. e = w /\ pc'[e] = "waiting" /\ selected'[e] = v
    BY <1>1, OnlyOneBaselines DEF TypeOK
  <2> QED
    BY <1>1, <1>2, <1>5, <2>1 DEF SessionInv, BaselineInv, BatchInv
<1> QED
  BY <1>2, <1>5, <1>6, <1>7, <1>8, <1>9, <1>10 DEF ThreadInv

LEMMA NotifiedNext ==
  ASSUME DiscoveryInv, NEW w \in Watchers, EnqueueNotifications(w)
  PROVE  /\ DiscoveryInv'
         /\ cursor # None /\ cursor'.last_uid >= cursor.last_uid
<1> USE DEF DiscoveryInv, serverVars
<1> DEFINE uid == Min(new[w])
<1>1. /\ pc[w] = "storing" /\ pc' = [pc EXCEPT ![w] = IF new[w] = {uid} THEN "waiting" ELSE "fetching"]
      /\ queued' = queued \cup {<<selected[w], uid>>}
      /\ cursor' = Advanced(cursor, selected[w], uid)
      /\ last_uid' = [last_uid EXCEPT ![w] = uid]
      /\ new' = [new EXCEPT ![w] = @ \ {uid}]
      /\ UNCHANGED <<uidvalidity, uidnext, present, selected, told, baseline>>
  BY DEF EnqueueNotifications, Step
<1>2. /\ new[w] \in SUBSET Uids /\ new[w] # {} /\ new[w] \in SUBSET Nat
      /\ Known(w) /\ last_uid[w] \in baseline[selected[w]]..cursor.last_uid
      /\ cursor \in Cursors /\ selected[w] \in 1..uidvalidity /\ selected[w] \in Validities
      /\ \A n \in new[w] : n > last_uid[w] /\ (Live(w) => n < uidnext)
      /\ Live(w) => \A u \in present : u > last_uid[w] => u \in new[w] \/ \A n \in new[w] : n < u
      /\ uidnext \in Nat /\ uidvalidity \in Nat /\ MaxUid \in Nat
  <2>1. uidvalidity \in Validities /\ uidvalidity \in Nat /\ uidnext \in Nat /\ MaxUid \in Nat
    BY DiscoveryAssumption DEF TypeOK, Validities
  <2>2. new[w] \in SUBSET Uids /\ new[w] \in SUBSET Nat /\ (cursor # None => cursor \in Cursors)
    BY <2>1 DEF TypeOK, Uids
  <2>3. selected[w] \in 1..uidvalidity
    BY <1>1 DEF ThreadInv, SessionInv
  <2>4. selected[w] \in Validities
    BY <2>1, <2>3, DiscoveryAssumption DEF Validities
  <2>5. BatchInv(w)
    BY DEF ThreadInv
  <2>6. /\ Known(w) /\ last_uid[w] \in baseline[selected[w]]..cursor.last_uid /\ new[w] # {}
        /\ \A n \in new[w] : n > last_uid[w] /\ (Live(w) => n < uidnext)
        /\ Live(w) => \A u \in present : u > last_uid[w] => u \in new[w] \/ \A n \in new[w] : n < u
    BY <1>1, <2>5 DEF BatchInv
  <2>7. cursor \in Cursors
    BY <2>2, <2>6 DEF Known
  <2> QED
    BY <2>1, <2>2, <2>3, <2>4, <2>6, <2>7
<1>3. uid \in new[w] /\ uid \in Uids /\ uid \in Nat /\ \A n \in new[w] : uid <= n
  BY <1>2, MinMember
<1>4. /\ cursor' = [uidvalidity |-> selected[w], last_uid |-> Max({cursor.last_uid, uid})]
      /\ cursor.uidvalidity = selected[w] /\ cursor # None
  BY <1>1, <1>2 DEF Known, Advanced
<1>5. /\ cursor'.uidvalidity = cursor.uidvalidity /\ cursor'.last_uid \in {cursor.last_uid, uid}
      /\ cursor'.last_uid >= cursor.last_uid /\ cursor'.last_uid >= uid
      /\ cursor' \in Cursors /\ cursor' # None
  <2>1. cursor.last_uid \in Nat /\ cursor.last_uid \in 0..MaxUid /\ uid \in 0..MaxUid
    BY <1>2, <1>3 DEF Cursors, Uids
  <2>2. /\ Max({cursor.last_uid, uid}) \in {cursor.last_uid, uid}
        /\ Max({cursor.last_uid, uid}) >= cursor.last_uid /\ Max({cursor.last_uid, uid}) >= uid
    BY <1>3, <2>1, MaxOfTwo
  <2> QED
    BY <1>2, <1>4, <2>1, <2>2, NoneAssumption DEF Cursors
<1>6. TypeOK'
  <2>1. /\ queued' \in SUBSET (Validities \X Uids) /\ pc' \in [Watchers -> Places]
        /\ last_uid' \in [Watchers -> 0..MaxUid] /\ new' \in [Watchers -> SUBSET Uids]
    BY <1>1, <1>2, <1>3 DEF TypeOK, Places, Uids
  <2> QED
    BY <1>1, <1>5, <2>1 DEF TypeOK
<1>7. baseline[selected[w]] \in 0..cursor.last_uid
  BY <1>2, <1>4 DEF CursorInv
<1>8. CursorInv'
  <2>1. cursor.last_uid \in Nat /\ cursor'.last_uid \in Nat
    BY <1>2, <1>5 DEF Cursors
  <2>2. baseline[selected[w]] \in 0..cursor'.last_uid
    BY <1>5, <1>7, <2>1
  <2>3. cursor.uidvalidity = uidvalidity => cursor'.last_uid < uidnext
    BY <1>2, <1>3, <1>4, <1>5 DEF CursorInv, Live
  <2> QED
    BY <1>1, <1>4, <1>5, <2>2, <2>3 DEF CursorInv
<1>9. NoHistoryReplayed'
  <2>1. Awaited(selected[w], uid)
    BY <1>2, <1>3, <1>7, NoneAssumption DEF Awaited, Cursors
  <2> QED
    BY <1>1, <2>1 DEF NoHistoryReplayed, Awaited
<1>10. NeverSkips'
  <2> SUFFICES ASSUME cursor'.uidvalidity = uidvalidity, NEW u \in present,
                      Awaited(uidvalidity, u), u <= cursor'.last_uid
               PROVE  <<uidvalidity, u>> \in queued'
    BY <1>1 DEF NeverSkips, Awaited
  <2>0. Live(w) /\ u \in Nat
    BY <1>2, <1>4, <1>5 DEF Live, TypeOK
  <2>1. CASE u <= cursor.last_uid
    BY <1>1, <1>4, <1>5, <2>1 DEF NeverSkips
  <2>2. CASE u > cursor.last_uid
    <3>1. u <= uid /\ u > last_uid[w]
      BY <1>2, <1>5, <2>0, <2>2, <1>7 DEF Cursors
    <3>2. u \in new[w]
      BY <1>2, <1>3, <2>0, <3>1
    <3>3. u = uid
      BY <1>3, <2>0, <3>1, <3>2
    <3> QED
      BY <1>1, <2>0, <3>3 DEF Live
  <2> QED
    BY <1>2, <2>0, <2>1, <2>2 DEF Cursors
<1>11. ASSUME NEW e \in Watchers, e # w PROVE (SessionInv(e) /\ BaselineInv(e) /\ BatchInv(e))'
  <2>1. /\ pc'[e] = pc[e] /\ selected'[e] = selected[e] /\ last_uid'[e] = last_uid[e]
        /\ new'[e] = new[e]
    BY <1>1, <1>11 DEF TypeOK
  <2>2. Known(e)' <=> Known(e)
    BY <1>4, <1>5, <2>1 DEF Known
  <2>3. last_uid[e] \in baseline[selected[e]]..cursor.last_uid
          => last_uid[e] \in baseline[selected[e]]..cursor'.last_uid
    BY <1>2, <1>3, <1>5 DEF Cursors
  <2> QED
    BY <1>1, <1>4, <1>5, <2>1, <2>2, <2>3 DEF ThreadInv, SessionInv, BaselineInv, BatchInv, Live
<1>12. (SessionInv(w) /\ BaselineInv(w) /\ BatchInv(w))'
  <2>1. /\ pc'[w] = IF new[w] = {uid} THEN "waiting" ELSE "fetching"
        /\ selected'[w] = selected[w] /\ last_uid'[w] = uid /\ new'[w] = new[w] \ {uid}
    BY <1>1 DEF TypeOK
  <2>2. SessionInv(w)' /\ BaselineInv(w)'
    BY <1>1, <1>2, <1>4, <1>5, <2>1 DEF SessionInv, BaselineInv
  <2>3. Known(w)' /\ last_uid'[w] \in baseline'[selected'[w]]..cursor'.last_uid
    BY <1>1, <1>2, <1>3, <1>4, <1>5, <1>7, <2>1 DEF Known, Cursors
  <2>4. pc'[w] = "fetching" => new'[w] # {}
    BY <1>2, <2>1
  <2>5. \A n \in new'[w] : n > last_uid'[w] /\ (Live(w)' => n < uidnext')
    BY <1>1, <1>2, <1>3, <2>1 DEF Live
  <2>6. ASSUME Live(w)', NEW u \in present', u > last_uid'[w]
        PROVE  u \in new'[w] \/ \A n \in new'[w] : n < u
    <3>1. Live(w) /\ u \in present /\ u > uid /\ u \in Nat /\ last_uid[w] \in Nat
      BY <1>1, <2>1, <2>6 DEF Live, TypeOK
    <3> QED
      BY <1>2, <1>3, <2>1, <3>1
  <2>7. BatchInv(w)'
    BY <2>3, <2>4, <2>5, <2>6, <2>1 DEF BatchInv
  <2> QED
    BY <2>2, <2>7
<1> QED
  BY <1>4, <1>5, <1>6, <1>8, <1>9, <1>10, <1>11, <1>12 DEF ThreadInv

-----------------------------------------------------------------------------
(* The theorems.                                                           *)

MovesOn == cursor # None /\ cursor'.uidvalidity = cursor.uidvalidity
             => cursor'.last_uid >= cursor.last_uid

LEMMA DiscoveryStep ==
  ASSUME Supported, DiscoveryInv, [Next]_vars
  PROVE  DiscoveryInv' /\ (cursor' # cursor => MovesOn)
<1>1. CASE UNCHANGED vars
  BY <1>1 DEF vars, DiscoveryInv, TypeOK, CursorInv, ThreadInv, SessionInv, BaselineInv, BatchInv,
     NeverSkips, NoHistoryReplayed, Awaited, Live, Known
<1>2. CASE Arrive \/ Renumber \/ \E u \in Uids : Expunge(u)
  <2>1. cursor' = cursor
    BY <1>2 DEF Arrive, Renumber, Expunge, storeVars
  <2> QED
    BY <1>2, <2>1, FolderStep
<1>3. ASSUME NEW w \in Watchers,
             Progress(w) \/ Disconnect(w) \/ CloseInIdle(w)
      PROVE  DiscoveryInv' /\ (cursor' # cursor => MovesOn)
  <2>1. CASE SetCursor(w)
    BY <2>1, FirstPosition DEF MovesOn
  <2>2. CASE EnqueueNotifications(w)
    BY <2>2, NotifiedNext DEF MovesOn
  <2>3. CASE \/ Current(w) \/ Resume(w) \/ StartFromNow(w) \/ SearchNew(w) \/ FetchHeader(w)
    <3>1. cursor' = cursor
      BY <2>3 DEF Current, Resume, StartFromNow, SearchNew, FetchHeader, storeVars
    <3> QED
      BY <2>3, <3>1, SessionSteps
  <2>4. CASE \/ Connect(w) \/ IdleWake(w) \/ Reissue(w) \/ CloseInIdle(w)
             \/ RequestFails(w) \/ Disconnect(w)
    <3>1. cursor' = cursor
      BY <2>4 DEF Connect, IdleWake, Reissue, CloseInIdle, RequestFails, Disconnect, Drop, storeVars
    <3> QED
      BY <2>4, <3>1, SimpleSteps
  <2> QED
    BY <1>3, <2>1, <2>2, <2>3, <2>4 DEF Progress
<1> QED
  BY <1>1, <1>2, <1>3 DEF Next, Steady

LEMMA DiscoveryInvariant ==
  ASSUME Supported
  PROVE  Spec => []DiscoveryInv
<1>1. Init => DiscoveryInv
  BY DiscoveryInit
<1>2. DiscoveryInv /\ [Next]_vars => DiscoveryInv'
  BY DiscoveryStep
<1> QED
  BY <1>1, <1>2, PTL DEF Spec

\* The checkpoint of a folder passes over nothing that is to be announced
\* (process_new, check_folder and enqueue_notifications).
THEOREM DiscoverySkipsNothing ==
  ASSUME Supported
  PROVE  Spec => []NeverSkips
<1>1. DiscoveryInv => NeverSkips
  BY DEF DiscoveryInv
<1> QED
  BY <1>1, DiscoveryInvariant, PTL

\* No mail is announced that was in the folder before the watch of it began
\* (check_folder, for an unknown folder or a renumbered one).
THEOREM HistoryStaysQuiet ==
  ASSUME Supported
  PROVE  Spec => []NoHistoryReplayed
<1>1. DiscoveryInv => NoHistoryReplayed
  BY DEF DiscoveryInv
<1> QED
  BY <1>1, DiscoveryInvariant, PTL

\* Within a numbering the checkpoint only moves on (the upsert of
\* enqueue_notifications, and set_cursor only for another numbering).
THEOREM CheckpointMovesOn ==
  ASSUME Supported
  PROVE  Spec => OnlyForward
<1>1. DiscoveryInv /\ [Next]_vars => [MovesOn]_cursor
  BY DiscoveryStep
<1> QED
  BY <1>1, DiscoveryInvariant, PTL DEF Spec, OnlyForward, MovesOn
=============================================================================

------------------------------ MODULE SearchPage ------------------------------
(***************************************************************************)
(* search_page of imap_client.py as a function of what one session finds:  *)
(* the UIDs that match the SEARCH (found) and those of them that pass the  *)
(* has_attachments filter (wanted; all of found without a filter).  The    *)
(* code scans in chunks of 200 and stops in the middle of a chunk, which   *)
(* comes to the same set.                                                  *)
(***************************************************************************)
EXTENDS Integers, FiniteSets

CONSTANT None   \* no bound, or nothing that follows

ASSUME NoneAssumption == None \notin Int

Highest(uids) == CHOOSE u \in uids : \A v \in uids : v <= u
Lowest(uids) == CHOOSE u \in uids : \A v \in uids : u <= v

Earliest(uids, limit) == {u \in uids : Cardinality({v \in uids : v < u}) < limit}
Latest(uids, limit) == {u \in uids : Cardinality({v \in uids : v > u}) < limit}

\* The part of a scan in ascending order that fills the page.
ScannedUp(ahead, wanted, limit) ==
  IF Cardinality(ahead \cap wanted) < limit THEN ahead
  ELSE {u \in ahead : \E v \in Earliest(ahead \cap wanted, limit) : u <= v}

ScannedDown(ahead, wanted, limit) ==
  IF Cardinality(ahead \cap wanted) < limit THEN ahead
  ELSE {u \in ahead : \E v \in Latest(ahead \cap wanted, limit) : u >= v}

\* Faults: the position of a full page is that of the folder, or stays, or is the
\* next UID; a folder that lost its newest mail moves the position back.
FollowingToTop(found, wanted, limit, after) ==
  [page |-> Earliest({u \in found : u > after} \cap wanted, limit),
   next_after |-> Highest(found \cup {after})]
FollowingStuck(found, wanted, limit, after) ==
  LET ahead == {u \in found : u > after}
  IN [page |-> Earliest(ahead \cap wanted, limit),
      next_after |-> IF ScannedUp(ahead, wanted, limit) = ahead
                     THEN Highest(found \cup {after}) ELSE after]
FollowingBack(found, wanted, limit, after) ==
  LET ahead == {u \in found : u > after}
      scanned == ScannedUp(ahead, wanted, limit)
  IN [page |-> Earliest(ahead \cap wanted, limit),
      next_after |-> Highest({0} \cup IF scanned = ahead THEN found ELSE scanned)]

\* With after_uid: the oldest matches above it, and the position after them.
Following(found, wanted, limit, after) ==
  LET ahead == {u \in found : u > after}
      scanned == ScannedUp(ahead, wanted, limit)
  IN [page |-> Earliest(ahead \cap wanted, limit),
      next_after |-> Highest({after} \cup IF scanned = ahead THEN found ELSE scanned)]

\* Fault: the next page starts below the last UID that was scanned.
ListingSkewed(found, wanted, limit, before) ==
  LET ahead == {u \in found : before = None \/ u < before}
      scanned == ScannedDown(ahead, wanted, limit)
      page == Latest(ahead \cap wanted, limit)
  IN [page |-> page,
      next_after |-> Highest(found \cup {0}),
      next_before |-> IF page # {} /\ scanned # ahead THEN Lowest(page) - 1 ELSE None]

\* Without it: the newest matches below before_uid, and where the next page starts.
Listing(found, wanted, limit, before) ==
  LET ahead == {u \in found : before = None \/ u < before}
      scanned == ScannedDown(ahead, wanted, limit)
      page == Latest(ahead \cap wanted, limit)
  IN [page |-> page,
      next_after |-> Highest(found \cup {0}),
      next_before |-> IF page # {} /\ scanned # ahead THEN Lowest(page) ELSE None]
=============================================================================

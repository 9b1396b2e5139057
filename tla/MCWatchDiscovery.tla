--------------------------- MODULE MCWatchDiscovery ---------------------------
(***************************************************************************)
(* Small instances of WatchDiscovery for TLC.  Two watchers exist while a  *)
(* deployment overlaps: the second one only after the first has stored its *)
(* first position, and not while the folder is renumbered.                 *)
(***************************************************************************)
EXTENDS WatchDiscovery, TLC

CONSTANTS w1, w2

Overlap == pc[w2] # "offline" => cursor # None /\ uidvalidity = 1
OverlapSteady == Steady /\ Overlap'

\* Only the first watcher has to keep running.
OverlapSpec ==
  /\ Init /\ [][OverlapSteady]_vars
  /\ WF_vars(Progress(w1))
  /\ <>[][\A w \in Watchers : Disconnect(w) => RequestFails(w)]_vars
=============================================================================

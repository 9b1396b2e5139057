--------------------------- MODULE MCDeliveryQueue ---------------------------
(* Small instances of DeliveryQueue for TLC.                                *)
EXTENDS DeliveryQueue, TLC

\* Two retries of different length: enough for an index that is off by one.
TwoRetries == <<1, 3>>
OneRetry == <<2>>

Symmetry == Permutations(Workers) \cup Permutations(Deliveries)
=============================================================================

------------------------------- MODULE MCSending ------------------------------
(* Small instances of Sending for TLC.                                      *)
EXTENDS Sending, TLC

Symmetry == Permutations(Requests) \cup Permutations(Drafts) \cup Permutations(Originals)
=============================================================================

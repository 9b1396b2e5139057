------------------------------ MODULE MCRateLimit -----------------------------
(* Small instances of RateLimit for TLC.                                    *)
EXTENDS RateLimit, TLC

Symmetry == Permutations(Calls) \cup Permutations(Mailboxes) \cup Permutations(Tokens)
=============================================================================

------------------------------- MODULE MCFolders ------------------------------
(* Small instances of Folders for TLC.                                      *)
EXTENDS Folders, TLC

Symmetry == Permutations(Calls) \cup Permutations(Texts)
=============================================================================

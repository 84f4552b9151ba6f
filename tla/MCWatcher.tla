------------------------------ MODULE MCWatcher ------------------------------
(* Contents are only compared with each other: any permutation of them is  *)
(* a symmetry of Watcher.                                                  *)
EXTENDS Watcher, TLC
Symmetry == Permutations(Content)
=============================================================================

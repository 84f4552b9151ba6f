------------------------------ MODULE MCRequests ------------------------------
(* Repositories, and the sets of patterns they are added with, are alike. *)
EXTENDS Requests, TLC

Alike == Permutations(Repo) \union Permutations(Ignores)
=============================================================================

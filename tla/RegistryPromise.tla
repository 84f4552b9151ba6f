--------------------------- MODULE RegistryPromise ---------------------------
(***************************************************************************)
(* What the repo registry promises to the callers of the daemon: the set   *)
(* of registered repositories changes only when a caller asks for it.      *)
(* Opening the store, indexing manifests again, restoring the backup and   *)
(* putting a corrupted database aside are not such requests, so none of    *)
(* them shows here.                                                        *)
(***************************************************************************)
CONSTANT Repo

VARIABLE registered

Init == registered = {}

\* repos_add registers one repository.
Add(r) == registered' = registered \union {r}

\* repos_remove drops one repository, the one it names.
Remove(r) == registered' = registered \ {r}

\* One repository at a time changes.
Next == \E r \in Repo : Add(r) \/ Remove(r)

Spec == Init /\ [][Next]_registered
=============================================================================

\* RepoStoreDamage: see README.md for what the bounds mean.
CONSTANTS
    Process = {p1}
    Repo = {r1, r2}
    Version = {v1, v2}
    Buffer = {b1}
    NoSnapshot = NoSnapshot
    Kinds = {"open", "add", "purge", "snapshot", "set_buffer"}
    MaxStops = 0
    MaxCorruptions = 2
SPECIFICATION Spec
INVARIANTS AddedIsListed LastIsLoadable
 

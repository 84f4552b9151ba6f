\* RepoStoreFaults: see README.md for what the bounds mean.
CONSTANTS
    Process = {p1}
    Repo = {r1, r2}
    Version = {v1}
    Buffer = {b1}
    NoSnapshot = NoSnapshot
    Kinds = {"open", "add", "remove", "purge", "snapshot", "set_buffer", "clear_buffer", "reset"}
    MaxStops = 1
    MaxCorruptions = 2
SPECIFICATION Spec
INVARIANTS TypeOK RowsHaveFiles PurgedIsGone

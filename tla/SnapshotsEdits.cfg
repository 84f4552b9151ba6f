\* Snapshots of a repository that is edited; see README.md.
CONSTANTS
    Path = {a, b}
    Ignored = {b}
    Text = {t}
    Binary = {x}
    Buffer = {u}
    BufferVersions = {1}
    None = None
    MaxEdits = 3
    MaxSnapshots = 2
    MaxGitFailures = 1
SPECIFICATION Spec
CHECK_DEADLOCK FALSE
INVARIANTS CapturedWhileTaken  DiffMatchesRead

\* A watch over files that are written, removed and moved; see README.md.
CONSTANTS
    Paths = 3
    Content = {x, y}
    None = None
    BatchMax = 2
    MaxEdits = 3
    MaxPolls = 3
SPECIFICATION Spec
SYMMETRY Symmetry
CHECK_DEADLOCK FALSE
INVARIANTS PendingIsTrue FilesReported

\* Two repositories, two sets of ignore patterns, one failed call and a restart.
CONSTANTS
    Repo = {r1, r2}
    Content = {c1}
    Buffer = {b1}
    Ignores = {i1, i2}
    None = None
    MaxFaults = 1
SPECIFICATION Spec
SYMMETRY Alike
CHECK_DEADLOCK FALSE
INVARIANTS ActiveJobsAreWatches RuntimeFollowsRows PurgedIsUnanswered

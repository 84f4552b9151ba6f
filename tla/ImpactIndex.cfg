\* Two snapshots of a source file, a file that leads to it and a test.
CONSTANTS
    a = a
    b = b
    t = t
    P = P
    Q = Q
    None = None
    Damaged = Damaged
    File = {a, b, t}
    TestFile = {t}
    Stem <- MCStem
    Versions <- MCVersions
    Config = {c1, c2}
    Excluded <- MCExcluded
    MaxSnapshots = 2
    MaxFaults = 1
SPECIFICATION Spec
SYMMETRY Configs
CHECK_DEADLOCK FALSE
PROPERTIES RefreshIsRebuild StaleIsNoticed

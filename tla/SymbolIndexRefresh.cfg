\* Parse builds and symbol indexes of edited snapshots; see README.md.
CONSTANTS
    Paths = 2
    Language <- MCLanguage
    Place <- MCPlace
    Size <- MCSize
    Binary = {}
    Errors <- MCErrors
    Duplicated = {"twice"}
    Snapshots <- MCSnapshots
    Setups <- MCSetups
    None = None
    Damaged = Damaged
    MaxRequests = 3
    MaxFaults = 1
SPECIFICATION Spec
CHECK_DEADLOCK FALSE
INVARIANTS ParseIsFresh FactsMatchSnapshot RefreshIsRebuild DoctorIsRight

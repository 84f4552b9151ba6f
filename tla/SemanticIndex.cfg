\* Semantic builds, refreshes and queries of edited snapshots; see README.md.
CONSTANTS
    Path = {"a", "b"}
    Contents = {"x", "y", "z"}
    Snapshots <- MCSnapshots
    Setups <- MCSetups
    None = None
    Damaged = Damaged
    Words <- MCWords
    Similarity <- MCSimilarity
    Term = {"a", "t"}
    KindTerms <- MCKindTerms
    NoFilter = NoFilter
    NoValue = NoValue
    Queries <- MCQueries
    MaxSearchLimit = 2
    MaxRequests = 3
    MaxFaults = 1
SPECIFICATION Spec
CHECK_DEADLOCK FALSE
INVARIANTS BuildIsWhole RefreshIsRebuild ReadyIsQueryable FilterIsRestriction

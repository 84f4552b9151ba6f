\* Every kind of query over two symbols of one name.
CONSTANTS
    Requests <- MCRequests
    Engines <- MCEngines
    Named <- MCNamed
    SemanticAnswers <- MCSemanticAnswers
    ImpactAnswers <- MCImpactAnswers
    DefaultMode = "auto"
    MaxLimit = 5
    Names <- MCNames
    Identifiers <- MCIdentifiers
    Qualified = {"Store.get"}
    Paths = {"src/a.ts"}
    Limits = {0, 1, 3}
SPECIFICATION Spec
CHECK_DEADLOCK FALSE
INVARIANTS OmissionsAreSaid  AnswerIsExplained BestFirst

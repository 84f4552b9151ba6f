\* Every program of up to four nodes, in two files that import from one another.
CONSTANTS
    File = {f, g}
    None = None
    MaxSize = 4
    Nodes <- MCNodes
    Text = {x}
    Likeness <- MCLikeness
    SameCase <- MCSameCase
    StemOf <- MCStemOf
    Queries <- MCQueries
    DefaultLimit = 1
    MaxLimit = 2
SPECIFICATION Edits
SYMMETRY Files
CHECK_DEADLOCK FALSE
INVARIANTS EveryUseIsFound ImportsFindDeclarations NarrowModesAgree ChunksAreLocal
 

SPECIFICATION Spec
CONSTANTS
    Dialect = {"postgresql", "sqlite"}
    Expanding = {"sqlite"}
    Query <- MCQuery
    Field <- MCField
    ListField <- MCListField
    Analysis <- BaseAndListed
    Run = {r1, r2}
    Rank <- MCRank
    Config <- Unpinned
    Input <- AcceptedInputs
    MaxEdits = 0
    MaxStops = 1
    Overlap = TRUE
    None = None
INVARIANTS
    IInv
    SharedFilesConverge
    AgreeingRunsCompile
CHECK_DEADLOCK FALSE
SYMMETRY RunSymmetry
PROPERTY GenerateIsAtomic

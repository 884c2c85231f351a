SPECIFICATION Spec
CONSTANTS
    Dialect = {"postgresql", "sqlite"}
    Expanding = {"sqlite"}
    Query <- MCQuery
    Field <- MCField
    ListField <- MCListField
    Analysis <- BaseAndListed
    Run = {r1, r2}
    Rank <- MCRank
    Config <- Rosters
    Input <- AcceptedInputs
    MaxEdits = 1
    MaxStops = 1
    Overlap = FALSE
    None = None
CHECK_DEADLOCK FALSE
INVARIANTS
    Fresh
    CompileVerdict
SYMMETRY RunSymmetry

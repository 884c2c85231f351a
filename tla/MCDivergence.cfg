SPECIFICATION Spec
CONSTANTS
    Dialect = {"mysql", "postgresql", "sqlite"}
    Expanding = {"mysql", "sqlite"}
    Query <- MCQuery
    Field <- MCField
    ListField <- MCListField
    Analysis <- AllAnalyses
    Run = {r1}
    Rank <- MCRank
    Config <- WideAndNarrow
    Input <- AllInputs
    MaxEdits = 0
    MaxStops = 1
    Overlap = FALSE
    None = None
INVARIANTS
    TypeOK
    OkVisitsRoster
    CompileVerdict
CHECK_DEADLOCK FALSE

SPECIFICATION Spec
CONSTANTS
    Dialect = {"mysql", "postgresql", "sqlite"}
    Expanding = {"mysql", "sqlite"}
    Query <- MCQuery
    Field <- MCField
    ListField <- MCListField
    Analysis <- BaseAndExtra
    Run = {r1}
    Rank <- MCRank
    Config <- Everything
    Input <- AllInputs
    MaxEdits = 0
    MaxStops = 1
    Overlap = FALSE
    None = None
INVARIANT DisagreementDoesNotCompile
CHECK_DEADLOCK FALSE

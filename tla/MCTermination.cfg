SPECIFICATION FairSpec
CONSTANTS
    Dialect = {"postgresql", "sqlite"}
    Expanding = {"sqlite"}
    Query <- MCQuery
    Field <- MCField
    ListField <- MCListField
    Analysis <- BaseAndSwapped
    Run = {r1}
    Rank <- MCRank
    Config <- Pins
    Input <- AllInputs
    MaxEdits = 1
    MaxStops = 1
    Overlap = FALSE
    None = None
CHECK_DEADLOCK FALSE
INVARIANTS
    StagingRemoved
    CompileVerdict
PROPERTIES
    OnlyPinnedGenerateWrites
    CancelSparesTheRest
    RunsTerminate

SPECIFICATION Spec
CONSTANTS
    Dialect = {"mysql", "postgresql"}
    Rank <- MCRank
    Positional = {"mysql"}
    Expanding = {"mysql"}
    Name <- MCName
    NoName = "NoName"
    BareName = "limit"
    Table = {"", "users"}
    AnyTable = "*"
    EngineType <- MCEngineType
    OneType <- MCOneType
    Lower <- MCLower
    GoType = {"ID", "*ID"}
    None = "None"
    OptionsSet <- TypingOptions
    UseSet <- TypingUses
    ReportSet <- SomeReports
    Commands = {"exec", "one"}
    MaxUses = 2
    MaxColumns = 2
    MaxSize = 2
    MaxElements = 2
INVARIANTS
    ConvergenceInv
    WildcardSettles
    OneShape
    AcceptedShapes
CHECK_DEADLOCK FALSE

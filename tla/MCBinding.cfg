SPECIFICATION Spec
CONSTANTS
    Dialect = {"mysql", "postgresql", "sqlite"}
    Rank <- MCRank
    Positional = {"mysql"}
    Expanding = {"mysql", "sqlite"}
    Name <- MCName
    NoName = "NoName"
    BareName = "limit"
    Table = {"", "users"}
    AnyTable = "*"
    EngineType <- MCEngineType
    OneType <- MCOneType
    Lower <- MCLower
    GoType = {"ID", "*ID"}
    None = "None"
    OptionsSet <- BindingOptions
    UseSet <- OddUses
    ReportSet <- OneReport
    Commands = {"exec", "copyfrom"}
    MaxUses = 4
    MaxColumns = 0
    MaxSize = 4
    MaxElements = 2
INVARIANTS
    TypeOK
    ConvergenceInv
    PlaceholdersBindTheirNames
    CalledByName
    SameFieldOrder
    ListIsLastField
CHECK_DEADLOCK FALSE
